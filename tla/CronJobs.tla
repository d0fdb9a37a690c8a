-------------------------------- MODULE CronJobs --------------------------------
(***************************************************************************)
(* Scheduled jobs: the daemon that submits the due ones (cron/runner.py),  *)
(* the single-file store they live in (cron/store_impl/file_backed.py) and *)
(* the tools that create and delete them (tools/built_in/cron_tools.py).   *)
(*                                                                         *)
(* A cron expression is a period.  The coroutines of the process take      *)
(* turns at their awaits; a write of the store has none, but the process   *)
(* may die in the middle of it.  Left out: the payload of a job, what the  *)
(* task runner does with a submitted job (BackgroundTasks), a jobs.json    *)
(* edited by hand, and tick_once, which a test calls instead of the        *)
(* daemon: a host that called it beside the daemon's cycle could have a    *)
(* time served twice.                                                      *)
(***************************************************************************)
EXTENDS Naturals

CONSTANTS
  Jobs,        \* names of jobs
  Period,      \* the schedule of each
  MaxTime,     \* bound: the clock
  MaxOps,      \* bound: calls of the tools and of shutdown()
  MaxFaults,   \* bound: crashes, writes and submissions that fail
  None

States  == {"absent", "on", "off"}
Absent  == [state |-> "absent", base |-> 0]
Records == [state : States, base : 0..MaxTime]

ASSUME CronAssumption ==
    /\ Period \in [Jobs -> Nat \ {0}]
    /\ MaxTime \in Nat /\ MaxOps \in Nat /\ MaxFaults \in Nat
    /\ None \notin Jobs /\ None \notin [Jobs -> Records]

VARIABLES
  now,      \* the clock
  cache,    \* FileBackedCronJobStore._cache
  path,     \* jobs.json: the jobs in it, or None when there is no such file
  bak,      \* jobs.json.bak
  flush,    \* where a write of the store is
  writer,   \* who waits for it: "tool" or "daemon"
  daemon,   \* CronRunner._daemon
  stop,     \* CronRunner._stop
  started,  \* the clock at the start of the cycle
  queue,    \* the jobs of the cycle still to be looked at, as they were listed
  current,  \* the job whose task is being submitted
  fired,    \* each job's last submission: the time it was due, the clock
            \* of the cycle, and whether its stamp was lost
  promised, \* for each job, what the store may say of it, after what the
            \* tools were told
  cut,      \* the process died with jobs.json moved away
  ops, faults

files  == <<path, bak, flush, writer>>
cycle  == <<started, queue, current>>
bounds == <<ops, faults>>
vars   == <<now, cache, files, daemon, stop, cycle, fired, promised, cut, bounds>>

TypeOK ==
    /\ now \in 0..MaxTime
    /\ cache \in [Jobs -> Records]
    /\ path = None \/ path \in [Jobs -> Records]
    /\ bak = None \/ bak \in [Jobs -> Records]
    /\ flush \in {"none", "written", "moved"} /\ writer \in {None, "tool", "daemon"}
    /\ daemon \in {"down", "off", "waiting", "cycle", "submitted", "ended"}
    /\ stop \in BOOLEAN
    /\ started \in 0..MaxTime /\ current \in Jobs \cup {None}
    /\ queue \subseteq [job : Jobs, base : 0..MaxTime]
    /\ fired \in [Jobs -> [due : 0..MaxTime, at : 0..MaxTime, lost : BOOLEAN]]
    /\ promised \in [Jobs -> SUBSET States]
    /\ cut \in BOOLEAN
    /\ ops \in 0..MaxOps /\ faults \in 0..MaxFaults

Init ==
    /\ now = 0
    /\ cache = [j \in Jobs |-> Absent]
    /\ path = None /\ bak = None /\ flush = "none" /\ writer = None
    /\ daemon = "off" /\ stop = FALSE
    /\ started = 0 /\ queue = {} /\ current = None
    /\ fired = [j \in Jobs |-> [due |-> 0, at |-> 0, lost |-> FALSE]]
    /\ promised = [j \in Jobs |-> {"absent"}]
    /\ cut = FALSE /\ ops = 0 /\ faults = 0

Up   == daemon # "down"
Free == Up /\ flush = "none"   \* the event loop may run something else

Tick ==
    /\ now < MaxTime /\ now' = now + 1
    /\ UNCHANGED <<cache, files, daemon, stop, cycle, fired, promised, cut, bounds>>

-----------------------------------------------------------------------------
(* The store.                                                              *)

Write(by) == flush' = "written" /\ writer' = by /\ UNCHANGED <<path, bak>>

(* CronCreate refuses a name that exists; a host may switch a job off and  *)
(* on.                                                                     *)
Put(j, record) ==
    /\ Free /\ ops < MaxOps /\ ops' = ops + 1
    /\ cache' = [cache EXCEPT ![j] = record]
    /\ promised' = [promised EXCEPT ![j] = @ \cup {record.state}]
    /\ Write("tool")
    /\ UNCHANGED <<now, daemon, stop, cycle, fired, cut, faults>>

Create(j) ==
    cache[j].state = "absent" /\ Put(j, [state |-> "on", base |-> now])

UpdateStatus(j) ==
    \E s \in {"on", "off"} :
        cache[j].state \notin {"absent", s} /\ Put(j, [cache[j] EXCEPT !.state = s])

(* A bug this could have: the jobs left are not written back.              *)
DeleteUnsaved(j) ==
    /\ cache[j].state # "absent"
    /\ Free /\ ops < MaxOps /\ ops' = ops + 1
    /\ cache' = [cache EXCEPT ![j] = Absent]
    /\ promised' = [promised EXCEPT ![j] = {"absent"}]
    /\ UNCHANGED <<now, files, daemon, stop, cycle, fired, cut, faults>>

Delete(j) == cache[j].state # "absent" /\ Put(j, Absent)

(* jobs.json is renamed to its backup, if there is one, and the new file   *)
(* is renamed into its place; then the writer goes on.                     *)
MoveAway ==
    /\ Up /\ flush = "written" /\ flush' = "moved"
    /\ IF path = None THEN UNCHANGED bak ELSE bak' = path
    /\ path' = None
    /\ UNCHANGED <<now, cache, writer, daemon, stop, cycle, fired, promised, cut, bounds>>

Settled == promised' = IF writer = "tool"
                       THEN [j \in Jobs |-> IF cache[j].state \in promised[j]
                                            THEN {cache[j].state} ELSE promised[j]]
                       ELSE promised

MoveInto ==
    /\ Up /\ flush = "moved" /\ flush' = "none" /\ writer' = None
    /\ path' = cache
    /\ Settled
    /\ UNCHANGED <<now, cache, bak, daemon, stop, cycle, fired, cut, bounds>>

(* One of the three calls fails; whoever asked is told so.                 *)
WriteFails ==
    /\ Up /\ flush # "none" /\ flush' = "none" /\ writer' = None
    /\ faults < MaxFaults /\ faults' = faults + 1
    /\ UNCHANGED <<now, cache, path, bak, daemon, stop, cycle, fired, promised, cut, ops>>

-----------------------------------------------------------------------------
(* The daemon.                                                             *)

(* The first time of the schedule after the last fire, or the creation.    *)
NextFire(j, base) == base + Period[j] - (base % Period[j])

Start ==
    /\ Free /\ daemon = "off"
    /\ daemon' = "waiting" /\ stop' = FALSE
    /\ UNCHANGED <<now, cache, files, cycle, fired, promised, cut, bounds>>

(* shutdown(): the daemon ends at its next look at the event, or is        *)
(* cancelled at an await when it takes too long.                           *)
Shutdown ==
    /\ Free /\ daemon \notin {"off", "ended"} /\ ~stop /\ stop' = TRUE
    /\ ops < MaxOps /\ ops' = ops + 1
    /\ UNCHANGED <<now, cache, files, daemon, cycle, fired, promised, cut, faults>>

Lost(j) == [fired EXCEPT ![j].lost = TRUE]

CancelDaemon ==
    /\ Free /\ stop /\ daemon \in {"waiting", "cycle", "submitted"}
    /\ daemon' = "off"
    /\ fired' = IF daemon = "submitted" THEN Lost(current) ELSE fired
    /\ started' = 0 /\ queue' = {} /\ current' = None
    /\ UNCHANGED <<now, cache, files, stop, promised, cut, bounds>>

EndOfLoop ==
    /\ Free /\ stop /\ daemon = "waiting" /\ daemon' = "off"
    /\ UNCHANGED <<now, cache, files, stop, cycle, fired, promised, cut, bounds>>

(* The cycle's time is over: the jobs that are enabled now are looked at.  *)
Wake ==
    /\ Free /\ ~stop /\ daemon = "waiting"
    /\ daemon' = "cycle" /\ started' = now
    /\ queue' = {[job |-> j, base |-> cache[j].base] : j \in {k \in Jobs : cache[k].state = "on"}}
    /\ UNCHANGED <<now, cache, files, stop, current, fired, promised, cut, bounds>>

IsDue(q) == NextFire(q.job, q.base) <= started

Fired(q) ==
    fired' = [fired EXCEPT ![q.job] =
        [due |-> NextFire(q.job, q.base), at |-> started, lost |-> FALSE]]

(* A job that is not due; the last one ends the cycle.                     *)
Skip ==
    /\ Free /\ daemon = "cycle"
    /\ \E q \in queue : ~IsDue(q) /\ queue' = queue \ {q}
    /\ UNCHANGED <<now, cache, files, daemon, stop, started, current, fired, promised, cut, bounds>>

EndCycle ==
    /\ Free /\ daemon = "cycle" /\ queue = {}
    /\ daemon' = "waiting" /\ started' = 0
    /\ UNCHANGED <<now, cache, files, stop, queue, current, fired, promised, cut, bounds>>

(* A bug this could have: a runner that refuses a task ends the daemon.    *)
SubmitEndsDaemon ==
    /\ Free /\ daemon = "cycle"
    /\ \E q \in queue :
         /\ IsDue(q)
         /\ queue' = queue \ {q} /\ current' = q.job
         /\ \/ /\ Fired(q)
               /\ daemon' = "submitted"
               /\ UNCHANGED faults
            \/ /\ faults < MaxFaults /\ faults' = faults + 1
               /\ daemon' = "ended"
               /\ UNCHANGED fired
    /\ UNCHANGED <<now, cache, files, stop, started, promised, cut, ops>>

(* The task is submitted, or the runner refuses it: the job is stamped     *)
(* either way.                                                             *)
Submit ==
    /\ Free /\ daemon = "cycle"
    /\ \E q \in queue :
         /\ IsDue(q)
         /\ queue' = queue \ {q} /\ current' = q.job
         /\ \/ /\ Fired(q)
               /\ UNCHANGED faults
            \/ faults < MaxFaults /\ faults' = faults + 1 /\ UNCHANGED fired
    /\ daemon' = "submitted"
    /\ UNCHANGED <<now, cache, files, stop, started, promised, cut, ops>>

(* A bug this could have: the stamp is the time the job was due, and the   *)
(* daemon catches up on every time that was missed.                        *)
StampDue ==
    /\ Free /\ daemon = "submitted" /\ daemon' = "cycle" /\ current' = None
    /\ IF cache[current].state = "absent" THEN UNCHANGED <<cache, files>>
       ELSE /\ cache' = [cache EXCEPT ![current].base = NextFire(current, @)]
            /\ Write("daemon")
    /\ UNCHANGED <<now, stop, started, queue, fired, promised, cut, bounds>>

(* mark_fired: a job deleted meanwhile stays deleted.                      *)
Stamp ==
    /\ Free /\ daemon = "submitted" /\ daemon' = "cycle" /\ current' = None
    /\ IF cache[current].state = "absent" THEN UNCHANGED <<cache, files>>
       ELSE /\ cache' = [cache EXCEPT ![current].base = started]
            /\ Write("daemon")
    /\ UNCHANGED <<now, stop, started, queue, fired, promised, cut, bounds>>

-----------------------------------------------------------------------------
(* The process dies, and a new one loads jobs.json, and nothing else.      *)

Crash ==
    /\ Up /\ faults < MaxFaults /\ faults' = faults + 1
    /\ daemon' = "down" /\ flush' = "none" /\ writer' = None
    /\ cut' = (cut \/ (path = None /\ bak # None))
    /\ fired' = [j \in Jobs |->
                  [fired[j] EXCEPT !.lost = @ \/ (path # None /\ fired[j].at > path[j].base)]]
    /\ started' = 0 /\ queue' = {} /\ current' = None /\ stop' = FALSE
    /\ UNCHANGED <<now, cache, path, bak, promised, ops>>

Restart ==
    /\ ~Up /\ daemon' = "off"
    /\ cache' = IF path = None THEN [j \in Jobs |-> Absent] ELSE path
    /\ UNCHANGED <<now, files, stop, cycle, fired, promised, cut, bounds>>

-----------------------------------------------------------------------------
Daemon == Wake \/ Skip \/ EndCycle \/ Submit \/ Stamp \/ EndOfLoop \/ MoveAway \/ MoveInto

Next ==
    \/ Tick \/ Start \/ Shutdown \/ CancelDaemon \/ Daemon
    \/ \E j \in Jobs : Create(j) \/ UpdateStatus(j) \/ Delete(j)
    \/ WriteFails \/ Crash \/ Restart

Spec == Init /\ [][Next]_vars /\ WF_vars(Daemon)

-----------------------------------------------------------------------------
(* Properties.                                                             *)

(* Each submission of a job is for a time after the daemon's clock at the  *)
(* submission before it: no time is served twice, and an outage is not     *)
(* caught up on fire by fire.  A job is submitted again only if its stamp  *)
(* was lost, by a crash or by a shutdown that cancelled the daemon, after  *)
(* it was submitted (CronRunner._fire_due_jobs, mark_fired).               *)
FiresOnce ==
    [][\A j \in Jobs : fired'[j].at # fired[j].at \/ fired'[j].due # fired[j].due
            => fired[j].lost \/ fired'[j].due > fired[j].at]_fired

(* A job is what the last successful call made it, or what the call in     *)
(* progress at a crash or a failed write was to make it.                   *)
JobsKept == Up => \A j \in Jobs : cache[j].state \in promised[j]

(* ... unless the process died while jobs.json was moved away: the other   *)
(* two points of a write at which it may die lose nothing                  *)
(* (FileBackedCronJobStore._flush, _ensure_loaded).                        *)
JobsKeptUnlessCut == cut \/ JobsKept

Due(j)  == cache[j].state = "on" /\ NextFire(j, cache[j].base) <= now
Running == daemon \notin {"down", "off"} /\ ~stop

(* A job that is due while the daemon runs does not stay due, whatever     *)
(* calls fail (CronRunner._loop).                                          *)
DueIsServed == \A j \in Jobs : (Due(j) /\ Running) ~> (~Due(j) \/ ~Running)

=============================================================================
