------------------------ MODULE BackgroundTasksProofs ------------------------
(***************************************************************************)
(* What BackgroundTasks promises for every set of task ids, every number   *)
(* of slots, jobs and crashes.                                             *)
(***************************************************************************)
EXTENDS BackgroundTasks, FiniteSetTheorems, TLAPS

Executing == {j \in Jobs : pc[j] = "executing"}

(* The semaphore's free slots and the jobs that hold one add up.           *)
Slots == free + Cardinality(Executing) = MaxConcurrent

(* A job under way knows its task, and a dead process has none.            *)
Named == \A j \in Jobs : pc[j] \in {"queued", "executing", "over"} => task[j] \in Tasks
Down  == ~up => \A j \in Jobs : pc[j] = "unused"

(* Until its callback ran a job is the only one of its id: a submission    *)
(* while it lives finds it in the table, one after that makes the id late. *)
UnderWay(j) == pc[j] \in {"queued", "executing", "over"}
Alone ==
    \A i, j \in Jobs :
        UnderWay(i) /\ UnderWay(j) /\ task[i] = task[j] => i = j \/ task[i] \in late

Inv == TypeOK /\ Slots /\ Named /\ Down /\ JobsInReach /\ Alone /\ RecordsMatch

Places  == {"unused", "queued", "executing", "over", "gone"}

(* TypeOK in the parts the actions disturb.                                *)
TypeProcess == /\ up \in BOOLEAN /\ stuck \in BOOLEAN /\ late \in SUBSET Tasks
               /\ torn \in BOOLEAN
TypeFile    == record \in [Tasks -> Status] /\ disk \in [Tasks -> Status]
TypeJobs    == /\ task \in [Jobs -> Tasks \cup {NoTask}]
               /\ pc \in [Jobs -> Places]
               /\ asked \in SUBSET Jobs
               /\ futures \in [Tasks -> Jobs \cup {NoJob}]
TypeSlots   == free \in 0..MaxConcurrent /\ crashes \in 0..MaxCrashes
TypeCalls   == host \in {"free", "stop", "shutdown"} /\ awaited \in SUBSET Jobs
TypeOutput  == /\ out \in [Watched -> 0..MaxChunks]
               /\ event \in [Watched -> {"none", "clear", "set"}]
TypeReaders == /\ reader \in [Watched -> {"off", "reading", "waiting"}]
               /\ offset \in [Watched -> 0..MaxChunks]

LEMMA TypeParts ==
    TypeOK <=> /\ TypeProcess /\ TypeFile /\ TypeJobs /\ TypeSlots
               /\ TypeCalls /\ TypeOutput /\ TypeReaders
BY Zenon DEF TypeOK, TypeProcess, TypeFile, TypeJobs, TypeSlots, TypeCalls,
             TypeOutput, TypeReaders, Places

LEMMA TypePartsNext ==
    TypeOK' <=> /\ TypeProcess' /\ TypeFile' /\ TypeJobs' /\ TypeSlots'
                /\ TypeCalls' /\ TypeOutput' /\ TypeReaders'
BY Zenon DEF TypeOK, TypeProcess, TypeFile, TypeJobs, TypeSlots, TypeCalls,
             TypeOutput, TypeReaders, Places

LEMMA Counts ==
    ASSUME NEW S \in SUBSET Jobs
    PROVE  IsFiniteSet(S) /\ Cardinality(S) \in Nat
<1>1. MaxJobs \in Nat
  BY BackgroundAssumption
<1>2. IsFiniteSet(Jobs)
  BY <1>1, FS_Interval DEF Jobs
<1> QED BY <1>2, FS_Subset, FS_CardinalityType

LEMMA InvInit == Init => Inv
<1> SUFFICES ASSUME Init PROVE Inv
  OBVIOUS
<1> USE BackgroundAssumption
<1>1. pc = [j \in Jobs |-> "unused"] /\ up = FALSE /\ free = MaxConcurrent
  BY DEF Init
<1>2. TypeProcess
  BY Zenon DEF Init, TypeProcess
<1>3. TypeFile
  BY DEF Init, TypeFile, Status
<1>4. TypeJobs
  BY DEF Init, TypeJobs, Places
<1>5. TypeSlots
  BY DEF Init, TypeSlots
<1>6. TypeCalls /\ TypeReaders
  BY DEF Init, TypeCalls, TypeReaders
<1>7. TypeOutput
  BY DEF Init, TypeOutput
<1>8. TypeOK
  BY <1>2, <1>3, <1>4, <1>5, <1>6, <1>7, TypeParts
<1>9. Slots
  <2>1. Executing = {}
    BY <1>1 DEF Executing
  <2> QED BY <1>1, <2>1, FS_EmptySet DEF Slots
<1>10. Named /\ Down /\ JobsInReach /\ Alone
  BY <1>1 DEF Named, Down, JobsInReach, Alone, UnderWay, Live
<1>11. RecordsMatch
  BY <1>1 DEF RecordsMatch
<1> QED BY <1>8, <1>9, <1>10, <1>11 DEF Inv

(***************************************************************************)
(* Steps that leave the executing jobs and their records alone.            *)
(***************************************************************************)
LEMMA SameRuns ==
    ASSUME Inv, record' = record, up' = up,
           \A j \in Jobs : pc'[j] = "executing" <=> pc[j] = "executing",
           \A j \in Jobs : pc[j] = "executing" => task'[j] = task[j],
           late \subseteq late'
    PROVE  RecordsMatch'
BY DEF Inv, RecordsMatch

(* Steps that end jobs at most, and leave the table alone.                 *)
LEMMA SameReach ==
    ASSUME Inv, futures' = futures, task' = task, late' = late,
           \A j \in Jobs : Live(j)' => Live(j),
           \A j \in Jobs : UnderWay(j)' => UnderWay(j)
    PROVE  JobsInReach' /\ Alone'
<1>1. JobsInReach /\ Alone
  BY DEF Inv
<1>2. JobsInReach'
  BY <1>1 DEF JobsInReach
<1>3. Alone'
  BY <1>1 DEF Alone
<1> QED BY <1>2, <1>3

LEMMA SameSlots ==
    ASSUME Inv, free' = free,
           \A j \in Jobs : pc'[j] = "executing" <=> pc[j] = "executing"
    PROVE  Slots'
<1>1. Executing' = Executing
  BY DEF Executing
<1> QED BY <1>1 DEF Inv, Slots

(* Readers, and the calls of the host, only look at the jobs.              *)
LEMMA Aside ==
    ASSUME Inv, UNCHANGED <<up, crashes, record, file, task, pc, futures, free, late>>,
           asked' \in SUBSET Jobs, stuck' \in BOOLEAN,
           TypeCalls', TypeOutput', TypeReaders'
    PROVE  Inv'
<1> USE DEF file
<1>1. TypeProcess /\ TypeFile /\ TypeJobs /\ TypeSlots
  BY TypeParts DEF Inv
<1>2. TypeProcess' /\ TypeFile' /\ TypeJobs' /\ TypeSlots'
  BY <1>1 DEF TypeProcess, TypeFile, TypeJobs, TypeSlots
<1>3. TypeOK'
  BY <1>2, TypePartsNext
<1>4. Slots' /\ RecordsMatch'
  BY SameSlots, SameRuns
<1>5. Named' /\ Down'
  BY DEF Inv, Named, Down
<1>6. JobsInReach' /\ Alone'
  BY SameReach DEF Live, UnderWay
<1> QED BY <1>3, <1>4, <1>5, <1>6 DEF Inv

LEMMA InvCalls ==
    ASSUME Inv, (\E t \in Tasks : Stop(t)) \/ Shutdown \/ StopReturns
    PROVE  Inv'
<1> USE DEF calls, readers
<1>1. TypeJobs /\ TypeOutput /\ TypeReaders /\ TypeCalls /\ TypeProcess
  BY TypeParts DEF Inv
<1>2. ASSUME NEW t \in Tasks, Stop(t) PROVE Inv'
  <2>1. TypeOutput' /\ TypeReaders' /\ stuck' \in BOOLEAN
    BY <1>1, <1>2 DEF Stop, Cancel, TypeOutput, TypeReaders, TypeProcess
  <2>2. asked' \in SUBSET Jobs
    BY <1>1, <1>2 DEF Stop, Cancel, TypeJobs, InFlight
  <2>3. TypeCalls'
    BY <1>1, <1>2 DEF Stop, Cancel, TypeJobs, TypeCalls, InFlight
  <2> QED BY <1>2, <2>1, <2>2, <2>3, Aside DEF Stop, Cancel
<1>3. ASSUME Shutdown PROVE Inv'
  <2> DEFINE js == {j \in Jobs : \E t \in Tasks : futures[t] = j}
  <2>1. Cancel(js) /\ host' = "shutdown" /\ awaited' = awaited
    BY <1>3 DEF Shutdown
  <2>2. js \in SUBSET Jobs
    OBVIOUS
  <2> HIDE DEF js
  <2>3. TypeOutput' /\ TypeReaders' /\ stuck' \in BOOLEAN
    BY <1>1, <2>1 DEF Cancel, TypeOutput, TypeReaders, TypeProcess
  <2>4. asked' \in SUBSET Jobs
    BY <1>1, <2>1, <2>2 DEF Cancel, TypeJobs
  <2>5. TypeCalls'
    BY <1>1, <2>1 DEF TypeCalls
  <2> QED BY <2>1, <2>3, <2>4, <2>5, Aside DEF Cancel
<1>4. ASSUME StopReturns PROVE Inv'
  <2>1. TypeOutput' /\ TypeReaders' /\ stuck' \in BOOLEAN /\ asked' \in SUBSET Jobs
    BY <1>1, <1>4 DEF StopReturns, Resumed, TypeOutput, TypeReaders, TypeProcess, TypeJobs
  <2>2. TypeCalls'
    BY <1>4 DEF StopReturns, Resumed, TypeCalls
  <2> QED BY <1>4, <2>1, <2>2, Aside DEF StopReturns, Resumed
<1> QED BY <1>2, <1>3, <1>4

LEMMA InvReaders ==
    ASSUME Inv, NEW t \in Watched, Open(t) \/ ReaderStep(t)
    PROVE  Inv'
<1> USE DEF jobs, calls
<1>1. TypeJobs /\ TypeOutput /\ TypeReaders /\ TypeCalls /\ TypeProcess
  BY TypeParts DEF Inv
<1>2. TypeOutput' /\ TypeCalls' /\ asked' \in SUBSET Jobs
  BY <1>1 DEF Open, ReaderStep, Poll, Wake, TypeOutput, TypeCalls, TypeJobs
<1>3. TypeReaders'
  <2>1. CASE Open(t)
    BY <1>1, <2>1, BackgroundAssumption DEF Open, TypeReaders
  <2>2. CASE Poll(t)
    <3>1. reader' \in [Watched -> {"off", "reading", "waiting"}]
      BY <1>1, <2>2 DEF Poll, TypeReaders
    <3>2. offset' \in [Watched -> 0..MaxChunks]
      BY <1>1, <2>2 DEF Poll, TypeReaders, TypeOutput
    <3> QED BY <3>1, <3>2 DEF TypeReaders
  <2>3. CASE Wake(t)
    BY <1>1, <2>3 DEF Wake, TypeReaders
  <2> QED BY <2>1, <2>2, <2>3 DEF ReaderStep
<1>4. stuck' \in BOOLEAN
  BY <1>1, Zenon DEF Open, ReaderStep, Poll, Wake, TypeProcess
<1>5. UNCHANGED <<up, crashes, record, file, task, pc, futures, free, late>>
  BY DEF Open, ReaderStep, Poll, Wake
<1> QED BY <1>2, <1>3, <1>4, <1>5, Aside

LEMMA InvChunk ==
    ASSUME Inv, NEW j \in Jobs, Chunk(j)
    PROVE  Inv'
<1> USE DEF jobs, calls, readers
<1>1. TypeJobs /\ TypeOutput /\ TypeReaders /\ TypeCalls /\ TypeProcess
  BY TypeParts DEF Inv
<1>2. TypeOutput'
  <2>1. event' \in [Watched -> {"none", "clear", "set"}]
    BY <1>1 DEF Chunk, Signal, TypeOutput
  <2>2. out' \in [Watched -> 0..MaxChunks]
    <3> DEFINE t == task[j]
    <3>1. t \in Watched /\ out[t] < MaxChunks /\ out' = [out EXCEPT ![t] = @ + 1]
      BY DEF Chunk
    <3>2. out[t] \in 0..MaxChunks
      BY <1>1, <3>1 DEF TypeOutput
    <3> HIDE DEF t
    <3>3. out[t] + 1 \in 0..MaxChunks
      BY <3>1, <3>2, BackgroundAssumption
    <3> QED BY <1>1, <3>1, <3>3 DEF TypeOutput
  <2> QED BY <2>1, <2>2 DEF TypeOutput
<1>3. TypeCalls' /\ TypeReaders' /\ asked' \in SUBSET Jobs /\ stuck' \in BOOLEAN
  BY <1>1 DEF Chunk, TypeCalls, TypeReaders, TypeJobs, TypeProcess
<1> QED BY <1>2, <1>3, Aside DEF Chunk

(***************************************************************************)
(* The registry.                                                           *)
(***************************************************************************)
LEMMA MarkTypes ==
    ASSUME Inv, NEW t \in Tasks, NEW status \in Status, Mark(t, status)
    PROVE  TypeFile' /\ torn' \in BOOLEAN /\ event' \in [Watched -> {"none", "clear", "set"}]
<1>1. TypeFile /\ TypeOutput /\ TypeProcess
  BY TypeParts DEF Inv
<1>2. TypeFile'
  BY <1>1 DEF Mark, Append, TypeFile
<1>3. event' \in [Watched -> {"none", "clear", "set"}]
  BY <1>1 DEF Mark, TypeOutput
<1> QED BY <1>2, <1>3 DEF Mark, Append

LEMMA InvStart == ASSUME Inv, Start PROVE Inv'
<1> USE DEF jobs, calls, readers
<1>1. /\ TypeProcess /\ TypeFile /\ TypeJobs /\ TypeSlots /\ TypeCalls
      /\ TypeOutput /\ TypeReaders
  BY TypeParts DEF Inv
<1>2. UNCHANGED <<task, pc, asked, futures, free, crashes, host, awaited, out,
                  event, reader, offset, stuck, late>> /\ up' = TRUE
  BY DEF Start
<1>3. /\ TypeJobs' /\ TypeSlots' /\ TypeCalls' /\ TypeOutput' /\ TypeReaders'
  BY <1>1, <1>2 DEF TypeJobs, TypeSlots, TypeCalls, TypeOutput, TypeReaders
<1>4. Swept \in [Tasks -> Status]
  BY <1>1 DEF Swept, TypeFile, Status, Terminal
<1>5. disk' \in [Tasks -> Status] /\ torn' \in BOOLEAN
  <2>1. CASE torn /\ {t \in Tasks : disk[t] = "running"} # {}
    <3>1. PICK lost \in Tasks : disk' = [Swept EXCEPT ![lost] = disk[lost]] /\ torn' = FALSE
      BY <2>1 DEF Start
    <3>2. disk[lost] \in Status
      BY <1>1, <3>1 DEF TypeFile
    <3> QED BY <1>4, <3>1, <3>2
  <2>2. CASE ~(torn /\ {t \in Tasks : disk[t] = "running"} # {})
    <3>1. disk' = Swept /\ torn' = torn
      BY <2>2 DEF Start
    <3> QED BY <1>1, <1>4, <3>1 DEF TypeProcess
  <2> QED BY <2>1, <2>2
<1>6. TypeFile'
  BY <1>4, <1>5 DEF Start, TypeFile
<1>7. TypeProcess'
  BY <1>1, <1>2, <1>5 DEF TypeProcess
<1>8. TypeOK'
  BY <1>3, <1>6, <1>7, TypePartsNext
<1>9. Slots' /\ Named' /\ Down' /\ JobsInReach' /\ Alone'
  BY <1>2, SameReach DEF Inv, Slots, Executing, Named, Down, UnderWay, Live
<1>10. RecordsMatch'
  <2>1. \A t \in Tasks : record'[t] # "running"
    BY DEF Start, Swept
  <2>2. \A j \in Jobs : pc'[j] = "unused"
    BY <1>2 DEF Inv, Down, Start
  <2> QED BY <2>1, <2>2 DEF RecordsMatch
<1> QED BY <1>8, <1>9, <1>10 DEF Inv

LEMMA InvCrash == ASSUME Inv, Crash PROVE Inv'
<1> USE BackgroundAssumption
<1>1. TypeProcess /\ TypeFile /\ TypeSlots /\ TypeOutput
  BY TypeParts DEF Inv
<1>2. pc' = [j \in Jobs |-> "unused"] /\ up' = FALSE /\ free' = MaxConcurrent
  BY DEF Crash
<1>3. TypeProcess'
  BY <1>1 DEF Crash, TypeProcess
<1>4. TypeFile'
  BY <1>1 DEF Crash, TypeFile, Status
<1>5. TypeJobs'
  BY DEF Crash, TypeJobs, Places
<1>6. TypeSlots'
  BY <1>1 DEF Crash, TypeSlots
<1>7. TypeCalls' /\ TypeReaders'
  BY DEF Crash, TypeCalls, TypeReaders
<1>8. TypeOutput'
  BY <1>1 DEF Crash, TypeOutput
<1>9. TypeOK'
  BY <1>3, <1>4, <1>5, <1>6, <1>7, <1>8, TypePartsNext
<1>10. Slots'
  <2>1. Executing' = {}
    BY <1>2 DEF Executing
  <2> QED BY <1>2, <2>1, FS_EmptySet DEF Slots
<1>11. Named' /\ Down' /\ JobsInReach' /\ Alone' /\ RecordsMatch'
  BY <1>2 DEF Named, Down, JobsInReach, Alone, UnderWay, Live, RecordsMatch
<1> QED BY <1>9, <1>10, <1>11 DEF Inv

(***************************************************************************)
(* The runner.                                                             *)
(***************************************************************************)
LEMMA InvSubmit ==
    ASSUME Inv, NEW t \in Tasks, Submit(t)
    PROVE  Inv'
<1> USE DEF calls, readers, file
<1>1. /\ TypeProcess /\ TypeFile /\ TypeJobs /\ TypeSlots /\ TypeCalls
      /\ TypeOutput /\ TypeReaders
  BY TypeParts DEF Inv
<1>2. PICK j \in Jobs : /\ pc[j] = "unused"
                        /\ pc' = [pc EXCEPT ![j] = "queued"]
                        /\ task' = [task EXCEPT ![j] = t]
                        /\ futures' = [futures EXCEPT ![t] = j]
  BY DEF Submit
<1>3. late' = IF Overtakes(t) THEN late \cup {t} ELSE late
  BY DEF Submit
<1>4. TypeJobs'
  BY <1>1, <1>2 DEF Submit, TypeJobs, Places
<1>5. TypeFile'
  BY <1>1 DEF Submit, Append, TypeFile, Status
<1>6. TypeProcess'
  <2>1. up' \in BOOLEAN /\ stuck' \in BOOLEAN
    BY <1>1 DEF Submit, TypeProcess
  <2>2. torn' \in BOOLEAN
    BY DEF Submit, Append
  <2>3. late' \in SUBSET Tasks
    BY <1>3, <1>1 DEF TypeProcess
  <2> QED BY <2>1, <2>2, <2>3 DEF TypeProcess
<1>7. TypeOutput'
  BY <1>1 DEF Submit, Register, TypeOutput
<1>8. TypeSlots' /\ TypeCalls' /\ TypeReaders'
  BY <1>1 DEF Submit, TypeSlots, TypeCalls, TypeReaders
<1>9. TypeOK'
  BY <1>4, <1>5, <1>6, <1>7, <1>8, TypePartsNext
<1>10. \A i \in Jobs : pc'[i] = "executing" <=> pc[i] = "executing"
  BY <1>1, <1>2 DEF TypeJobs
<1>11. Slots'
  BY <1>10, SameSlots DEF Submit
<1>12. Named' /\ Down'
  BY <1>1, <1>2 DEF Inv, Named, Down, TypeJobs, Submit, Idle
<1>13. JobsInReach /\ Alone /\ RecordsMatch /\ up
  BY DEF Inv, Submit, Idle
<1>14. \A i \in Jobs : UnderWay(i) /\ task[i] = t => t \in late'
  <2>1. \A i \in Jobs : Live(i) /\ task[i] = t => t \in late
    BY <1>13 DEF JobsInReach, Submit, InFlight, NoJob, Jobs
  <2> QED BY <1>3, <2>1 DEF UnderWay, Live, Overtakes
<1>15. /\ \A i \in Jobs : i # j => pc'[i] = pc[i] /\ task'[i] = task[i]
       /\ pc'[j] = "queued" /\ task'[j] = t
       /\ \A u \in Tasks : futures'[u] = IF u = t THEN j ELSE futures[u]
       /\ late \subseteq late'
  BY <1>3, <1>1, <1>2 DEF TypeJobs
<1>16. JobsInReach' /\ Alone'
  <2>1. ASSUME NEW i \in Jobs, Live(i)' PROVE futures'[task'[i]] = i \/ task'[i] \in late'
    <3>1. CASE i = j
      BY <1>15, <3>1
    <3>2. CASE i # j
      <4>1. Live(i) /\ UnderWay(i) /\ task'[i] = task[i] /\ task[i] \in Tasks
        BY <1>15, <2>1, <3>2 DEF Live, UnderWay, Inv, Named
      <4> QED BY <1>13, <1>14, <1>15, <4>1 DEF JobsInReach
    <3> QED BY <3>1, <3>2
  <2>2. ASSUME NEW i \in Jobs, NEW k \in Jobs, UnderWay(i)', UnderWay(k)', task'[i] = task'[k]
        PROVE  i = k \/ task'[i] \in late'
    <3>1. CASE i # j /\ k # j
      BY <1>13, <1>15, <2>2, <3>1 DEF Alone, UnderWay
    <3>2. CASE i = j /\ k # j
      BY <1>14, <1>15, <2>2, <3>2 DEF UnderWay
    <3>3. CASE i # j /\ k = j
      BY <1>14, <1>15, <2>2, <3>3 DEF UnderWay
    <3> QED BY <3>1, <3>2, <3>3
  <2> QED BY <2>1, <2>2 DEF JobsInReach, Alone
<1>17. RecordsMatch'
  <2>2. t \notin late' => \A i \in Jobs : pc[i] = "executing" => task[i] # t
    BY <1>14 DEF UnderWay
  <2>3. \A i \in Jobs : pc[i] = "executing" => task'[i] = task[i]
    BY <1>2, <1>15
  <2>4. \A u \in Tasks : record'[u] = IF u = t THEN "pending" ELSE record[u]
    BY <1>1 DEF Submit, TypeFile
  <2> QED BY <1>10, <1>13, <1>15, <2>2, <2>3, <2>4 DEF RecordsMatch
<1> QED BY <1>9, <1>11, <1>12, <1>16, <1>17 DEF Inv

LEMMA InvSubmitUnknown ==
    ASSUME Inv, NEW t \in Tasks, SubmitUnknown(t)
    PROVE  Inv'
<1> USE DEF calls, readers, jobs
<1>1. /\ TypeProcess /\ TypeFile /\ TypeJobs /\ TypeSlots /\ TypeCalls
      /\ TypeOutput /\ TypeReaders
  BY TypeParts DEF Inv
<1>2. TypeFile'
  BY <1>1 DEF SubmitUnknown, TypeFile, Status, Terminal
<1>3. TypeProcess' /\ TypeOutput'
  BY <1>1 DEF SubmitUnknown, Signal, TypeProcess, TypeOutput
<1>4. TypeSlots' /\ TypeCalls' /\ TypeReaders' /\ TypeJobs'
  BY <1>1 DEF SubmitUnknown, TypeSlots, TypeCalls, TypeReaders, TypeJobs
<1>5. TypeOK'
  BY <1>2, <1>3, <1>4, TypePartsNext
<1>6. Slots' /\ Named' /\ Down' /\ JobsInReach' /\ Alone'
  BY SameReach DEF Inv, SubmitUnknown, Slots, Executing, Named, Down, UnderWay, Live
<1>7. RecordsMatch'
  <2>1. JobsInReach /\ RecordsMatch
    BY DEF Inv
  <2>2. t \notin late => \A i \in Jobs : pc[i] = "executing" => task[i] # t
    BY <2>1 DEF JobsInReach, Live, SubmitUnknown, InFlight, NoJob, Jobs
  <2>3. \A u \in Tasks : record'[u] = IF u = t THEN "failed" ELSE record[u]
    BY <1>1 DEF SubmitUnknown, TypeFile
  <2> QED BY <2>1, <2>2, <2>3 DEF RecordsMatch, SubmitUnknown
<1> QED BY <1>5, <1>6, <1>7 DEF Inv

LEMMA InvEnter ==
    ASSUME Inv, NEW j \in Jobs, Enter(j)
    PROVE  Inv'
<1> USE DEF calls, readers
<1>1. /\ TypeProcess /\ TypeFile /\ TypeJobs /\ TypeSlots /\ TypeCalls
      /\ TypeOutput /\ TypeReaders
  BY TypeParts DEF Inv
<1> DEFINE t == task[j]
<1>2. t \in Tasks
  BY DEF Enter, Inv, Named
<1>3. /\ pc[j] = "queued" /\ pc' = [pc EXCEPT ![j] = "executing"]
      /\ free > 0 /\ free' = free - 1 /\ Mark(t, "running")
      /\ UNCHANGED <<up, crashes, task, asked, futures, calls, out, readers, late>>
  BY DEF Enter
<1> HIDE DEF t
<1>4. TypeFile' /\ torn' \in BOOLEAN /\ event' \in [Watched -> {"none", "clear", "set"}]
  BY <1>2, <1>3, MarkTypes DEF Status
<1>5. TypeJobs'
  BY <1>1, <1>3 DEF TypeJobs, Places
<1>6. TypeSlots'
  BY <1>1, <1>3, BackgroundAssumption DEF TypeSlots
<1>7. TypeProcess' /\ TypeOutput' /\ TypeCalls' /\ TypeReaders'
  BY <1>1, <1>3, <1>4 DEF TypeProcess, TypeOutput, TypeCalls, TypeReaders
<1>8. TypeOK'
  BY <1>4, <1>5, <1>6, <1>7, TypePartsNext
<1>9. Executing' = Executing \cup {j} /\ j \notin Executing /\ Executing \in SUBSET Jobs
  BY <1>1, <1>3 DEF Executing, TypeJobs
<1>10. Slots'
  <2>1. Cardinality(Executing \cup {j}) = Cardinality(Executing) + 1
    BY <1>9, Counts, FS_AddElement
  <2>2. Cardinality(Executing) \in Nat /\ free \in Nat
    BY <1>1, <1>9, Counts, BackgroundAssumption DEF TypeSlots
  <2> QED BY <1>3, <1>9, <2>1, <2>2 DEF Inv, Slots
<1>11. Named' /\ Down' /\ JobsInReach' /\ Alone'
  <2>1. \A i \in Jobs : (Live(i)' => Live(i)) /\ (UnderWay(i)' => UnderWay(i))
    BY <1>1, <1>3 DEF Live, UnderWay, TypeJobs
  <2> QED BY <1>1, <1>3, <2>1, SameReach DEF Inv, Named, Down, TypeJobs
<1>12. RecordsMatch'
  <2>1. RecordsMatch
    BY DEF Inv
  <2>2. \A u \in Tasks : record'[u] = IF u = t THEN "running" ELSE record[u]
    BY <1>1, <1>2, <1>3 DEF Mark, TypeFile
  <2>3. \A i \in Jobs : pc'[i] = "executing" <=> pc[i] = "executing" \/ i = j
    BY <1>1, <1>3 DEF TypeJobs
  <2> QED BY <1>2, <1>3, <2>1, <2>2, <2>3 DEF RecordsMatch, t
<1> QED BY <1>8, <1>10, <1>11, <1>12 DEF Inv

LEMMA InvDropped ==
    ASSUME Inv, NEW j \in Jobs, Dropped(j)
    PROVE  Inv'
<1> USE DEF calls, readers, file
<1>1. /\ TypeProcess /\ TypeFile /\ TypeJobs /\ TypeSlots /\ TypeCalls
      /\ TypeOutput /\ TypeReaders
  BY TypeParts DEF Inv
<1>2. TypeJobs'
  BY <1>1 DEF Dropped, TypeJobs, Places
<1>3. TypeProcess' /\ TypeFile' /\ TypeSlots' /\ TypeCalls' /\ TypeOutput' /\ TypeReaders'
  BY <1>1 DEF Dropped, TypeProcess, TypeFile, TypeSlots, TypeCalls, TypeOutput, TypeReaders
<1>4. TypeOK'
  BY <1>2, <1>3, TypePartsNext
<1>5. \A i \in Jobs : pc'[i] = "executing" <=> pc[i] = "executing"
  BY <1>1 DEF Dropped, TypeJobs
<1>6. Slots' /\ RecordsMatch'
  BY <1>5, SameSlots, SameRuns DEF Dropped
<1>7. Named' /\ Down' /\ JobsInReach' /\ Alone'
  <2>1. \A i \in Jobs : (Live(i)' => Live(i)) /\ (UnderWay(i)' => UnderWay(i))
    BY <1>1 DEF Dropped, Live, UnderWay, TypeJobs
  <2> QED BY <1>1, <2>1, SameReach DEF Dropped, Idle, Inv, Named, Down, TypeJobs
<1> QED BY <1>4, <1>6, <1>7 DEF Inv

LEMMA InvEnds ==
    ASSUME Inv, NEW j \in Jobs, Ends(j)
    PROVE  Inv'
<1> USE DEF calls, readers
<1>1. /\ TypeProcess /\ TypeFile /\ TypeJobs /\ TypeSlots /\ TypeCalls
      /\ TypeOutput /\ TypeReaders
  BY TypeParts DEF Inv
<1> DEFINE t == task[j]
<1>2. t \in Tasks
  BY DEF Ends, Inv, Named
<1>3. /\ up /\ pc[j] = "executing" /\ pc' = [pc EXCEPT ![j] = "over"]
      /\ free' = free + 1 /\ asked' = asked \ {j}
      /\ UNCHANGED <<up, crashes, task, futures, calls, out, readers, late>>
  BY DEF Ends, Idle
<1>4. PICK status \in Terminal : Mark(t, status)
  BY DEF Ends, Terminal
<1> HIDE DEF t
<1>5. TypeFile' /\ torn' \in BOOLEAN /\ event' \in [Watched -> {"none", "clear", "set"}]
  BY <1>2, <1>4, MarkTypes DEF Status
<1>6. TypeJobs'
  BY <1>1, <1>3 DEF TypeJobs, Places
<1>7. Executing' = Executing \ {j} /\ j \in Executing /\ Executing \in SUBSET Jobs
  BY <1>1, <1>3 DEF Executing, TypeJobs
<1>8. Slots' /\ TypeSlots'
  <2>1. Cardinality(Executing \ {j}) = Cardinality(Executing) - 1
    BY <1>7, Counts, FS_RemoveElement
  <2>2. Cardinality(Executing) \in Nat /\ Cardinality(Executing') \in Nat
    BY <1>7, Counts
  <2>3. free \in Nat /\ MaxConcurrent \in Nat /\ crashes' \in 0..MaxCrashes
    BY <1>1, <1>3, BackgroundAssumption DEF TypeSlots
  <2>4. free' + Cardinality(Executing') = MaxConcurrent
    BY <1>3, <1>7, <2>1, <2>2, <2>3 DEF Inv, Slots
  <2>5. free' \in 0..MaxConcurrent
    BY <1>3, <2>2, <2>3, <2>4
  <2> QED BY <2>3, <2>4, <2>5 DEF Slots, TypeSlots
<1>9. TypeProcess' /\ TypeOutput' /\ TypeCalls' /\ TypeReaders'
  BY <1>1, <1>3, <1>5 DEF TypeProcess, TypeOutput, TypeCalls, TypeReaders
<1>10. TypeOK'
  BY <1>5, <1>6, <1>8, <1>9, TypePartsNext
<1>11. Named' /\ Down' /\ JobsInReach' /\ Alone'
  <2>1. \A i \in Jobs : (Live(i)' => Live(i)) /\ (UnderWay(i)' => UnderWay(i))
    BY <1>1, <1>3 DEF Live, UnderWay, TypeJobs
  <2> QED BY <1>1, <1>3, <2>1, SameReach DEF Inv, Named, Down, TypeJobs
<1>12. RecordsMatch'
  <2>1. Alone /\ RecordsMatch
    BY DEF Inv
  <2>2. \A u \in Tasks : record'[u] = IF u = t THEN status ELSE record[u]
    BY <1>1, <1>2, <1>4 DEF Mark, TypeFile
  <2>3. \A i \in Jobs : pc'[i] = "executing" <=> pc[i] = "executing" /\ i # j
    BY <1>1, <1>3 DEF TypeJobs
  <2>4. t \notin late => \A i \in Jobs : pc[i] = "executing" /\ task[i] = t => i = j
    BY <1>3, <2>1 DEF Alone, UnderWay, t
  <2>5. status # "running"
    BY <1>4 DEF Terminal
  <2>6. \A u \in Tasks \ late : record[u] = "running" <=>
            \E i \in Jobs : task[i] = u /\ pc[i] = "executing"
    BY <1>3, <2>1 DEF RecordsMatch
  <2> QED BY <1>2, <1>3, <2>2, <2>3, <2>4, <2>5, <2>6 DEF RecordsMatch, t
<1> QED BY <1>8, <1>10, <1>11, <1>12 DEF Inv

LEMMA InvTableShrinks ==
    ASSUME Inv, (\E j \in Jobs : Callback(j)) \/ ShutdownReturns
    PROVE  Inv'
<1> USE DEF calls, readers, file
<1>1. /\ TypeProcess /\ TypeFile /\ TypeJobs /\ TypeSlots /\ TypeCalls
      /\ TypeOutput /\ TypeReaders
  BY TypeParts DEF Inv
<1>2. /\ UNCHANGED <<up, crashes, record, disk, torn, asked, free, out, event, reader, offset, stuck>>
      /\ late \subseteq late' /\ up
  BY DEF Callback, ShutdownReturns, Resumed, Idle
<1>3. TypeFile' /\ TypeSlots' /\ TypeOutput' /\ TypeReaders'
  BY <1>1, <1>2 DEF TypeFile, TypeSlots, TypeOutput, TypeReaders
<1>4. TypeProcess'
  <2>1. late' \in SUBSET Tasks
    BY <1>1 DEF Callback, ShutdownReturns, Inv, Named, Live, TypeProcess
  <2> QED BY <1>1, <1>2, <2>1 DEF TypeProcess
<1>5. TypeCalls'
  BY <1>1 DEF Callback, ShutdownReturns, Resumed, TypeCalls
<1>6. TypeJobs'
  BY <1>1, <1>2 DEF Callback, ShutdownReturns, Resumed, TypeJobs, Places
<1>7. TypeOK'
  BY <1>3, <1>4, <1>5, <1>6, TypePartsNext
<1>8. \A i \in Jobs : pc'[i] = "executing" <=> pc[i] = "executing"
  BY <1>1 DEF Callback, ShutdownReturns, Resumed, TypeJobs
<1>9. \A i \in Jobs : pc[i] = "executing" => task'[i] = task[i]
  BY <1>1 DEF Callback, ShutdownReturns, Resumed, TypeJobs
<1>10. Slots' /\ RecordsMatch'
  BY <1>2, <1>8, <1>9, SameSlots, SameRuns
<1>11. Named' /\ Down'
  BY <1>1, <1>2 DEF Callback, ShutdownReturns, Resumed, Inv, Named, Down, TypeJobs
<1>12. JobsInReach /\ Alone
  BY DEF Inv
<1>13. JobsInReach' /\ Alone'
  <2>1. ASSUME NEW j \in Jobs, Callback(j) PROVE JobsInReach' /\ Alone'
    <3>1. /\ pc[j] = "over" /\ pc'[j] = "gone" /\ late' = late /\ task[j] \in Tasks
          /\ \A i \in Jobs : i # j => pc'[i] = pc[i] /\ task'[i] = task[i]
          /\ \A u \in Tasks : u # task[j] => futures'[u] = futures[u]
      BY <1>1, <2>1 DEF Callback, TypeJobs, Inv, Named
    <3>2. ASSUME NEW i \in Jobs, Live(i)' PROVE futures'[task'[i]] = i \/ task'[i] \in late'
      <4>1. i # j /\ Live(i) /\ UnderWay(i) /\ UnderWay(j) /\ task'[i] = task[i] /\ task[i] \in Tasks
        BY <3>1, <3>2 DEF Live, UnderWay, Inv, Named
      <4>2. CASE task[i] = task[j]
        BY <1>12, <3>1, <4>1, <4>2 DEF Alone
      <4>3. CASE task[i] # task[j]
        BY <1>12, <3>1, <4>1, <4>3 DEF JobsInReach
      <4> QED BY <4>2, <4>3
    <3>3. Alone'
      BY <1>12, <3>1 DEF Alone, UnderWay
    <3> QED BY <3>2, <3>3 DEF JobsInReach
  <2>2. ASSUME ShutdownReturns PROVE JobsInReach' /\ Alone'
    BY <1>12, <2>2 DEF ShutdownReturns, Resumed, JobsInReach, Alone, UnderWay, Live
  <2> QED BY <2>1, <2>2
<1> QED BY <1>7, <1>10, <1>11, <1>13 DEF Inv

LEMMA InvNext == Inv /\ [Next]_vars => Inv'
<1> SUFFICES ASSUME Inv, [Next]_vars PROVE Inv'
  OBVIOUS
<1>1. CASE Next
  <2>1. CASE Start \/ Crash
    BY <2>1, InvStart, InvCrash
  <2>2. ASSUME NEW t \in Tasks, Submit(t) \/ SubmitUnknown(t) \/ Stop(t) PROVE Inv'
    BY <2>2, InvSubmit, InvSubmitUnknown, InvCalls
  <2>3. ASSUME NEW j \in Jobs, JobStep(j) \/ Chunk(j) PROVE Inv'
    BY <2>3, InvEnter, InvDropped, InvEnds, InvTableShrinks, InvChunk DEF JobStep
  <2>4. CASE Shutdown \/ StopReturns \/ ShutdownReturns
    BY <2>4, InvCalls, InvTableShrinks
  <2>5. ASSUME NEW t \in Watched, Open(t) \/ ReaderStep(t) PROVE Inv'
    BY <2>5, InvReaders
  <2> QED BY <1>1, <2>1, <2>2, <2>3, <2>4, <2>5 DEF Next
<1>2. CASE UNCHANGED vars
  <2> USE DEF vars, file, jobs, calls, readers
  <2>1. TypeOK'
    BY <1>2 DEF Inv, TypeOK
  <2>2. Slots' /\ RecordsMatch'
    BY <1>2, SameSlots, SameRuns
  <2>3. Named' /\ Down' /\ JobsInReach' /\ Alone'
    BY <1>2, SameReach DEF Inv, Named, Down, UnderWay, Live
  <2> QED BY <2>1, <2>2, <2>3 DEF Inv
<1> QED BY <1>1, <1>2

LEMMA Invariance == Spec => []Inv
BY InvInit, InvNext, PTL DEF Spec

(* The runner's and the registry's variables keep their types; above all,  *)
(* the semaphore never has more than max_concurrent free slots.            *)
THEOREM BackgroundTypes == Spec => []TypeOK
<1>1. Inv => TypeOK
  BY DEF Inv
<1> QED BY <1>1, Invariance, PTL

(* No record says RUNNING without a job that will resolve it, and no job   *)
(* executes behind a record that says otherwise: for any number of tasks,  *)
(* slots, jobs, stops, crashes and torn lines.                             *)
THEOREM RecordsMatchJobs == Spec => []RecordsMatch
<1>1. Inv => RecordsMatch
  BY DEF Inv
<1> QED BY <1>1, Invariance, PTL

(* At most max_concurrent jobs execute at a time, and no id has two live   *)
(* jobs but one that a submission or a shutdown() raced (JobsInReach).     *)
THEOREM NoDoubleRun ==
    Spec => [](/\ Cardinality(Executing) <= MaxConcurrent
               /\ \A i, j \in Jobs :
                    Live(i) /\ Live(j) /\ task[i] = task[j] => i = j \/ task[i] \in late)
<1>1. ASSUME Inv
      PROVE  /\ Cardinality(Executing) <= MaxConcurrent
             /\ \A i, j \in Jobs :
                  Live(i) /\ Live(j) /\ task[i] = task[j] => i = j \/ task[i] \in late
  <2>1. Cardinality(Executing) <= MaxConcurrent
    <3>1. Cardinality(Executing) \in Nat
      BY Counts DEF Executing
    <3>2. free \in 0..MaxConcurrent
      BY <1>1 DEF Inv, TypeOK
    <3> QED BY <1>1, <3>1, <3>2, BackgroundAssumption DEF Inv, Slots
  <2>2. \A i, j \in Jobs :
           Live(i) /\ Live(j) /\ task[i] = task[j] => i = j \/ task[i] \in late
    BY <1>1 DEF Inv, Alone, UnderWay, Live
  <2> QED BY <2>1, <2>2
<1> QED BY <1>1, Invariance, PTL

(* Every live job is the one its id leads to, for any number of ids, jobs  *)
(* and crashes: a race that breaks this breaks it for its own id only.     *)
THEOREM JobsStayInReach == Spec => []JobsInReach
<1>1. Inv => JobsInReach
  BY DEF Inv
<1> QED BY <1>1, Invariance, PTL

(***************************************************************************)
(* The file.  Half a line is there only before the process has written its *)
(* first; what that one loses is all the file lacks.                       *)
(***************************************************************************)
Differs(t) == disk[t] # record[t]
FileInv ==
    up => /\ torn => \A t \in Tasks : ~Differs(t)
          /\ \A t, u \in Tasks : Differs(t) /\ Differs(u) => t = u

LEMMA AppendKeepsFile ==
    ASSUME Inv, FileInv, up, NEW t \in Tasks, NEW status \in Status,
           record' = [record EXCEPT ![t] = status], Append(t, status)
    PROVE  FileInv'
<1>1. TypeFile
  BY TypeParts DEF Inv
<1>2. torn' = FALSE
  BY DEF Append
<1>3. \A u \in Tasks : u # t => (Differs(u)' <=> Differs(u))
  BY <1>1 DEF Append, Differs, TypeFile
<1>4. CASE torn
  BY <1>2, <1>3, <1>4 DEF FileInv
<1>5. CASE ~torn
  <2>1. ~Differs(t)'
    BY <1>1, <1>5 DEF Append, Differs, TypeFile
  <2> QED BY <1>2, <1>3, <2>1 DEF FileInv
<1> QED BY <1>4, <1>5

LEMMA FileInvNext == Inv /\ FileInv /\ [Next]_vars => FileInv'
<1> SUFFICES ASSUME Inv, FileInv, [Next]_vars PROVE FileInv'
  OBVIOUS
<1> USE DEF file, jobs, calls, readers
<1>1. TypeFile
  BY TypeParts DEF Inv
<1>2. ASSUME UNCHANGED <<up, record, file>> PROVE FileInv'
  BY <1>2 DEF FileInv, Differs
<1>3. ASSUME Start PROVE FileInv'
  <2>1. record' = Swept
    BY <1>3 DEF Start
  <2>2. CASE torn /\ {t \in Tasks : disk[t] = "running"} # {}
    <3>1. PICK lost \in Tasks : disk' = [Swept EXCEPT ![lost] = disk[lost]] /\ torn' = FALSE
      BY <1>3, <2>2 DEF Start
    <3>2. \A t \in Tasks : t # lost => ~Differs(t)'
      BY <2>1, <3>1 DEF Differs, Swept
    <3> QED BY <3>1, <3>2 DEF FileInv
  <2>3. CASE ~(torn /\ {t \in Tasks : disk[t] = "running"} # {})
    <3>1. disk' = Swept
      BY <1>3, <2>3 DEF Start
    <3> QED BY <2>1, <3>1 DEF FileInv, Differs
  <2> QED BY <2>2, <2>3
<1>4. ASSUME Crash PROVE FileInv'
  BY <1>4 DEF Crash, FileInv
<1>5. ASSUME NEW t \in Tasks, Submit(t) PROVE FileInv'
  BY <1>5, AppendKeepsFile DEF Submit, Idle, Status
<1>6. ASSUME NEW t \in Tasks, SubmitUnknown(t) PROVE FileInv'
  <2>1. torn' = FALSE /\ ~Differs(t)' /\ \A u \in Tasks : u # t => (Differs(u)' <=> Differs(u))
    BY <1>1, <1>6 DEF SubmitUnknown, Differs, TypeFile
  <2> QED BY <1>6, <2>1 DEF FileInv, SubmitUnknown
<1>7. ASSUME NEW j \in Jobs, Enter(j) \/ Ends(j) PROVE FileInv'
  <2>1. task[j] \in Tasks /\ up
    BY <1>7 DEF Enter, Ends, Idle, Inv, Named
  <2>2. PICK status \in Status : Mark(task[j], status)
    BY <1>7 DEF Enter, Ends, Status, Terminal
  <2> QED BY <2>1, <2>2, AppendKeepsFile DEF Mark
<1>8. ASSUME NEW j \in Jobs, Dropped(j) \/ Callback(j) \/ Chunk(j) PROVE FileInv'
  BY <1>2, <1>8 DEF Dropped, Callback, Chunk
<1>9. ASSUME Shutdown \/ StopReturns \/ ShutdownReturns PROVE FileInv'
  BY <1>2, <1>9 DEF Shutdown, Cancel, StopReturns, ShutdownReturns, Resumed
<1>10. ASSUME NEW t \in Tasks, Stop(t) PROVE FileInv'
  BY <1>2, <1>10 DEF Stop, Cancel
<1>11. ASSUME NEW t \in Watched, Open(t) \/ ReaderStep(t) PROVE FileInv'
  BY <1>2, <1>11 DEF Open, ReaderStep, Poll, Wake
<1>12. ASSUME UNCHANGED vars PROVE FileInv'
  BY <1>2, <1>12 DEF vars
<1> QED BY <1>3, <1>4, <1>5, <1>6, <1>7, <1>8, <1>9, <1>10, <1>11, <1>12 DEF Next, JobStep

(* However often the process dies in the middle of a line, replaying the   *)
(* file gives what a running registry holds, but for at most one record.   *)
THEOREM FileTrailsByOne == Spec => []OneLineLost
<1>1. Init => FileInv
  BY DEF Init, FileInv
<1>2. FileInv => OneLineLost
  <2> SUFFICES ASSUME FileInv, up
               PROVE  Cardinality({t \in Tasks : disk[t] # record[t]}) <= 1
    BY DEF OneLineLost
  <2> DEFINE lacking == {t \in Tasks : disk[t] # record[t]}
  <2>1. CASE lacking = {}
    BY <2>1, FS_EmptySet
  <2>2. CASE lacking # {}
    <3>1. PICK t \in Tasks : lacking = {t}
      BY <2>2 DEF FileInv, Differs
    <3>2. Cardinality({t}) = 1
      BY FS_Singleton
    <3> HIDE DEF lacking
    <3>3. Cardinality(lacking) <= 1
      BY <3>1, <3>2
    <3> QED BY <3>3 DEF lacking
  <2> QED BY <2>1, <2>2
<1> QED BY <1>1, <1>2, Invariance, FileInvNext, PTL DEF Spec

(* Records against jobs and file against records, at once.                 *)
THEOREM RecordsAreTrue == Spec => []RecordsTrue
<1>1. RecordsMatch /\ OneLineLost => RecordsTrue
  BY DEF RecordsTrue
<1> QED BY <1>1, RecordsMatchJobs, FileTrailsByOne, PTL
=============================================================================
