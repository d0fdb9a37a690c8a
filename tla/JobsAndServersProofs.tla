-------------------------- MODULE JobsAndServersProofs --------------------------
(***************************************************************************)
(* Two proofs.                                                             *)
(*                                                                         *)
(* What CronJobs promises for any set of jobs, any schedules, and any      *)
(* number of crashes, failed writes and calls of the tools.                *)
(*                                                                         *)
(* What MCPManager promises for any servers, calls and cancellations.  A   *)
(* name is in order when its table entry and its one open transport agree; *)
(* it is so unless a task works on it, and then TaskInv says how far that  *)
(* task has got.  Every step of a task concerns its own name only (Local), *)
(* and calls that keep off each other's servers (ApartInv) leave the other *)
(* names alone.                                                            *)
(***************************************************************************)
EXTENDS CronJobs, MCPManager, TLAPS

(* Until a crash has cut a write in two, the store says of each job what   *)
(* was promised; so does the file a restart would load, and where there is *)
(* none yet, that nothing was promised to be there.                        *)
Kept ==
    ~cut =>
      /\ Up => \A j \in Jobs : cache[j].state \in promised[j]
      /\ path # None => \A j \in Jobs : path[j].state \in promised[j]
      /\ path = None /\ bak = None => \A j \in Jobs : "absent" \in promised[j]
      /\ ~Up /\ path = None => bak = None

(* A submission is behind the job's stamp, unless the stamp is still to be *)
(* made, or was lost.                                                      *)
Behind(j, base) == fired[j].lost \/ fired[j].at <= base

Stamped ==
    /\ Up => \A j \in Jobs : cache[j].state # "absent" =>
                Behind(j, cache[j].base) \/ (daemon = "submitted" /\ current = j)
    /\ ~Up /\ path # None => \A j \in Jobs : Behind(j, path[j].base)

Listed ==
    /\ \A q \in queue : Behind(q.job, q.base)
    /\ \A q, r \in queue : q.job = r.job => q = r

Clocks ==
    /\ started <= now
    /\ \A j \in Jobs : fired[j].at <= now
    /\ daemon \in {"cycle", "submitted"} => \A j \in Jobs : fired[j].at <= started
    /\ daemon = "submitted" => current \in Jobs

Inv == TypeOK /\ Kept /\ Stamped /\ Listed /\ Clocks

-----------------------------------------------------------------------------
(* The type invariant in parts: the store, the daemon, what is told of     *)
(* them.                                                                   *)

TypeStore == /\ cache \in [Jobs -> Records]
             /\ path = None \/ path \in [Jobs -> Records]
             /\ bak = None \/ bak \in [Jobs -> Records]
             /\ flush \in {"none", "written", "moved"}
             /\ writer \in {None, "tool", "daemon"}

Listing == [job : Jobs, base : 0..MaxTime]

TypeDaemon == /\ now \in 0..MaxTime
              /\ daemon \in {"down", "off", "waiting", "cycle", "submitted", "ended"}
              /\ stop \in BOOLEAN
              /\ started \in 0..MaxTime
              /\ queue \subseteq Listing
              /\ current \in Jobs \cup {None}

Fires == [due : 0..MaxTime, at : 0..MaxTime, lost : BOOLEAN]

TypeTold == /\ fired \in [Jobs -> Fires]
            /\ promised \in [Jobs -> SUBSET States]
            /\ cut \in BOOLEAN
            /\ ops \in 0..MaxOps
            /\ faults \in 0..MaxFaults

LEMMA Types == TypeOK <=> TypeStore /\ TypeDaemon /\ TypeTold
BY Zenon DEF TypeOK, TypeStore, TypeDaemon, TypeTold, Listing, Fires

LEMMA TypesPrimed == ASSUME TypeStore', TypeDaemon', TypeTold' PROVE TypeOK'
BY Zenon DEF TypeOK, TypeStore, TypeDaemon, TypeTold, Listing, Fires

LEMMA Facts ==
    ASSUME Inv
    PROVE  TypeStore /\ TypeDaemon /\ TypeTold /\ Kept /\ Stamped /\ Listed /\ Clocks
BY Types DEF Inv

LEMMA Together ==
    ASSUME TypeStore', TypeDaemon', TypeTold', Kept', Stamped', Listed', Clocks'
    PROVE  Inv'
BY TypesPrimed DEF Inv

(* The next time of a schedule is later than where it counts from.         *)
LEMMA Later ==
    ASSUME NEW j \in Jobs, NEW base \in Nat
    PROVE  NextFire(j, base) \in Nat /\ NextFire(j, base) > base
<1>1. Period[j] \in Nat \ {0}
  BY CronAssumption
<1>2. base % Period[j] \in Nat /\ base % Period[j] < Period[j]
  BY <1>1
<1> QED BY <1>1, <1>2 DEF NextFire

(* Parts no variable of which moves.                                       *)
LEMMA KeptStays ==
    ASSUME Inv, UNCHANGED <<cache, path, bak, promised, cut>>, Up' = Up
    PROVE  Kept'
BY DEF Inv, Kept

LEMMA StampedStays ==
    ASSUME Inv, UNCHANGED <<cache, path, fired>>, Up, Up', daemon # "submitted"
    PROVE  Stamped'
BY DEF Inv, Stamped, Behind

LEMMA ListedStays ==
    ASSUME Inv, UNCHANGED <<queue, fired>>
    PROVE  Listed'
BY DEF Inv, Listed, Behind

LEMMA InitInv == Init => Inv
<1> SUFFICES ASSUME Init PROVE Inv
  OBVIOUS
<1>a. Absent \in Records /\ Absent.state = "absent"
  BY CronAssumption DEF Absent, Records, States
<1>1. TypeStore
  BY <1>a DEF Init, TypeStore
<1>2. TypeDaemon
  <2>1. now \in 0..MaxTime /\ started \in 0..MaxTime
    BY CronAssumption DEF Init
  <2>2. daemon = "off" /\ stop \in BOOLEAN /\ queue = {} /\ current = None
    BY DEF Init
  <2> QED BY <2>1, <2>2, Zenon DEF TypeDaemon
<1>3. TypeTold
  <2>1. [due |-> 0, at |-> 0, lost |-> FALSE] \in Fires
    <3>1. 0 \in 0..MaxTime
      BY CronAssumption
    <3> QED BY <3>1, Zenon DEF Fires
  <2>2. fired \in [Jobs -> Fires]
    BY <2>1 DEF Init
  <2>3. promised \in [Jobs -> SUBSET States]
    BY DEF Init, States
  <2>4. ops \in 0..MaxOps /\ faults \in 0..MaxFaults
    BY CronAssumption DEF Init
  <2>5. cut \in BOOLEAN
    BY DEF Init
  <2> QED BY <2>2, <2>3, <2>4, <2>5 DEF TypeTold
<1>4. Kept
  BY <1>a DEF Init, Kept, Up
<1>5. Stamped
  BY <1>a DEF Init, Stamped, Up
<1>6. Listed
  BY DEF Init, Listed
<1>7. Clocks
  <2>1. \A j \in Jobs : fired[j].at = 0
    BY DEF Init
  <2> QED BY <2>1 DEF Init, Clocks
<1> QED BY <1>1, <1>2, <1>3, <1>4, <1>5, <1>6, <1>7, Types DEF Inv

LEMMA InvTick == ASSUME Inv, Tick PROVE Inv'
<1> USE Facts
<1>1. TypeStore' /\ TypeTold'
  BY DEF Tick, TypeStore, TypeTold, files, bounds
<1>2. TypeDaemon'
  BY CronAssumption DEF Tick, TypeDaemon, cycle
<1>3. Kept' /\ Listed'
  BY KeptStays, ListedStays DEF Tick, files, cycle, Up
<1>4. Stamped'
  BY DEF Tick, Stamped, Behind, Up, files, cycle
<1>5. Clocks'
  <2>1. now' = now + 1 /\ now \in Nat /\ started \in Nat
    BY CronAssumption DEF Tick, TypeDaemon
  <2>2. \A j \in Jobs : fired[j].at \in Nat
    BY CronAssumption DEF TypeTold, Fires
  <2> QED BY <2>1, <2>2 DEF Tick, Clocks, cycle
<1> QED BY <1>1, <1>2, <1>3, <1>4, <1>5, Together

-----------------------------------------------------------------------------
(* The store.                                                              *)

LEMMA InvPut ==
    ASSUME Inv, NEW j \in Jobs, NEW r \in Records, Put(j, r),
           r.state # "absent" => r.base = now \/ (cache[j].state # "absent" /\ r.base = cache[j].base)
    PROVE  Inv'
<1> USE Facts
<1>0. /\ Up /\ Up' /\ cache' = [cache EXCEPT ![j] = r]
      /\ promised' = [promised EXCEPT ![j] = @ \cup {r.state}]
      /\ flush' = "written" /\ writer' = "tool"
      /\ UNCHANGED <<now, path, bak, daemon, stop, cycle, fired, cut, faults>>
  BY DEF Put, Free, Up, Write
<1>1. TypeStore'
  BY <1>0 DEF TypeStore
<1>2. TypeDaemon'
  BY <1>0 DEF TypeDaemon, cycle
<1>3. TypeTold'
  <2>1. ops' \in 0..MaxOps
    BY CronAssumption DEF Put, TypeTold
  <2>2. r.state \in States
    BY DEF Records
  <2> QED BY <1>0, <2>1, <2>2 DEF TypeTold
<1>4. Kept'
  <2>1. \A k \in Jobs : promised[k] \subseteq promised'[k]
    BY <1>0 DEF TypeTold
  <2>2. r.state \in promised'[j]
    BY <1>0 DEF TypeTold
  <2> QED BY <1>0, <2>1, <2>2 DEF Kept, TypeStore
<1>5. Stamped'
  <2>1. r.state # "absent" => Behind(j, r.base) \/ (daemon = "submitted" /\ current = j)
    BY <1>0 DEF Stamped, Behind, Clocks
  <2> QED BY <1>0, <2>1 DEF Stamped, Behind, TypeStore, cycle
<1>6. Listed' /\ Clocks'
  BY <1>0, ListedStays DEF cycle, Clocks
<1> QED BY <1>1, <1>2, <1>3, <1>4, <1>5, <1>6, Together

LEMMA InvTool ==
    ASSUME Inv, NEW j \in Jobs, Create(j) \/ UpdateStatus(j) \/ Delete(j)
    PROVE  Inv'
<1> USE Facts
<1>1. ASSUME Create(j) PROVE Inv'
  <2>1. [state |-> "on", base |-> now] \in Records
    BY DEF Records, States, TypeDaemon
  <2> QED BY <1>1, <2>1, InvPut DEF Create
<1>2. ASSUME UpdateStatus(j) PROVE Inv'
  <2>1. PICK s \in {"on", "off"} :
            cache[j].state \notin {"absent", s} /\ Put(j, [cache[j] EXCEPT !.state = s])
    BY <1>2 DEF UpdateStatus
  <2>2. /\ [cache[j] EXCEPT !.state = s] \in Records
        /\ [cache[j] EXCEPT !.state = s].base = cache[j].base
    BY DEF TypeStore, Records, States
  <2> QED BY <2>1, <2>2, InvPut
<1>3. ASSUME Delete(j) PROVE Inv'
  <2>1. Absent \in Records /\ Absent.state = "absent"
    BY CronAssumption DEF Absent, Records, States
  <2> QED BY <1>3, <2>1, InvPut DEF Delete
<1> QED BY <1>1, <1>2, <1>3

LEMMA InvMoveAway == ASSUME Inv, MoveAway PROVE Inv'
<1> USE Facts
<1>0. /\ Up /\ Up' /\ path' = None /\ flush' = "moved"
      /\ bak' = (IF path = None THEN bak ELSE path)
      /\ UNCHANGED <<now, cache, writer, daemon, stop, cycle, fired, promised, cut, bounds>>
  BY DEF MoveAway, Up
<1>1. TypeStore'
  BY <1>0 DEF TypeStore
<1>2. TypeDaemon' /\ TypeTold'
  BY <1>0 DEF TypeDaemon, TypeTold, cycle, bounds
<1>3. Kept'
  BY <1>0 DEF Kept
<1>4. Stamped'
  BY <1>0 DEF Stamped, Behind, cycle
<1>5. Listed' /\ Clocks'
  BY <1>0, ListedStays DEF cycle, Clocks
<1> QED BY <1>1, <1>2, <1>3, <1>4, <1>5, Together

LEMMA InvMoveInto == ASSUME Inv, MoveInto PROVE Inv'
<1> USE Facts
<1>0. /\ Up /\ Up' /\ path' = cache /\ flush' = "none" /\ writer' = None /\ Settled
      /\ UNCHANGED <<now, cache, bak, daemon, stop, cycle, fired, cut, bounds>>
  BY DEF MoveInto, Up
<1>n. path' # None
  BY <1>0, CronAssumption DEF TypeStore
<1>1. TypeStore'
  BY <1>0 DEF TypeStore
<1>2. TypeDaemon'
  BY <1>0 DEF TypeDaemon, cycle
<1>p. /\ promised' \in [Jobs -> SUBSET States]
      /\ \A j \in Jobs : cache[j].state \in promised[j] => cache[j].state \in promised'[j]
  <2>1. CASE writer = "tool"
    <3>1. promised' = [j \in Jobs |-> IF cache[j].state \in promised[j]
                                      THEN {cache[j].state} ELSE promised[j]]
      BY <1>0, <2>1 DEF Settled
    <3>2. \A j \in Jobs : cache[j].state \in States
      BY DEF TypeStore, Records
    <3> QED BY <3>1, <3>2 DEF TypeTold
  <2>2. CASE writer # "tool"
    BY <1>0, <2>2 DEF Settled, TypeTold
  <2> QED BY <2>1, <2>2
<1>3. TypeTold'
  BY <1>0, <1>p DEF TypeTold, bounds
<1>4. Kept'
  BY <1>0, <1>n, <1>p DEF Kept
<1>5. Stamped'
  BY <1>0 DEF Stamped, Behind, cycle
<1>6. Listed' /\ Clocks'
  BY <1>0, ListedStays DEF cycle, Clocks
<1> QED BY <1>1, <1>2, <1>3, <1>4, <1>5, <1>6, Together

LEMMA InvWriteFails == ASSUME Inv, WriteFails PROVE Inv'
<1> USE Facts
<1>0. /\ Up' = Up /\ flush' = "none" /\ writer' = None
      /\ UNCHANGED <<now, cache, path, bak, daemon, stop, cycle, fired, promised, cut, ops>>
  BY DEF WriteFails, Up
<1>1. TypeStore' /\ TypeDaemon'
  BY <1>0 DEF TypeStore, TypeDaemon, cycle
<1>2. TypeTold'
  <2>1. faults' \in 0..MaxFaults
    BY CronAssumption DEF WriteFails, TypeTold
  <2> QED BY <1>0, <2>1 DEF TypeTold
<1>3. Kept' /\ Listed'
  BY <1>0, KeptStays, ListedStays DEF cycle
<1>4. Stamped' /\ Clocks'
  BY <1>0 DEF Stamped, Behind, Clocks, cycle
<1> QED BY <1>1, <1>2, <1>3, <1>4, Together

-----------------------------------------------------------------------------
(* The daemon.                                                             *)

(* Steps of the daemon that touch neither the store nor the submissions.   *)
LEMMA InvDaemonMoves ==
    ASSUME Inv, Up, Up', daemon # "submitted", TypeDaemon', Listed', Clocks',
           UNCHANGED <<cache, files, fired, promised, cut, bounds>>
    PROVE  Inv'
<1>1. TypeStore' /\ TypeTold'
  BY Facts DEF TypeStore, TypeTold, files, bounds
<1>2. Kept' /\ Stamped'
  BY KeptStays, StampedStays DEF files
<1> QED BY <1>1, <1>2, Together

LEMMA InvStart == ASSUME Inv, Start PROVE Inv'
<1> USE Facts
<1>0. Up /\ Up' /\ daemon = "off" /\ daemon' = "waiting" /\ ~stop'
      /\ UNCHANGED <<now, cache, files, cycle, fired, promised, cut, bounds>>
  BY DEF Start, Free, Up
<1>1. TypeDaemon'
  <2>1. stop' \in BOOLEAN
    BY DEF Start
  <2> QED BY <1>0, <2>1 DEF TypeDaemon, cycle
<1>2. Listed' /\ Clocks'
  BY <1>0, ListedStays DEF cycle, Clocks
<1> QED BY <1>0, <1>1, <1>2, InvDaemonMoves

LEMMA InvShutdown == ASSUME Inv, Shutdown PROVE Inv'
<1> USE Facts
<1>0. Up' = Up /\ UNCHANGED <<now, cache, files, daemon, cycle, fired, promised, cut, faults>>
  BY DEF Shutdown, Up
<1>1. TypeStore'
  BY <1>0 DEF TypeStore, files
<1>2. TypeDaemon'
  <2>1. stop' \in BOOLEAN
    BY DEF Shutdown
  <2> QED BY <1>0, <2>1 DEF TypeDaemon, cycle
<1>3. TypeTold'
  <2>1. ops' \in 0..MaxOps
    BY CronAssumption DEF Shutdown, TypeTold
  <2> QED BY <1>0, <2>1 DEF TypeTold
<1>4. Kept' /\ Listed'
  BY <1>0, KeptStays, ListedStays DEF cycle, files
<1>5. Stamped' /\ Clocks'
  BY <1>0 DEF Stamped, Behind, Clocks, cycle, files
<1> QED BY <1>1, <1>2, <1>3, <1>4, <1>5, Together

LEMMA InvCancelDaemon == ASSUME Inv, CancelDaemon PROVE Inv'
<1> USE Facts
<1>0. /\ Up /\ Up' /\ daemon' = "off" /\ daemon \in {"waiting", "cycle", "submitted"}
      /\ started' = 0 /\ queue' = {} /\ current' = None
      /\ UNCHANGED <<now, cache, files, stop, promised, cut, bounds>>
  BY DEF CancelDaemon, Free, Up
<1>f. /\ fired' \in [Jobs -> Fires]
      /\ \A j \in Jobs : fired'[j].at = fired[j].at /\ (fired[j].lost => fired'[j].lost)
      /\ daemon = "submitted" => fired'[current].lost
  <2>1. CASE daemon = "submitted"
    <3>1. fired' = [fired EXCEPT ![current].lost = TRUE] /\ current \in Jobs
      BY <2>1 DEF CancelDaemon, Lost, Clocks
    <3>2. /\ fired' \in [Jobs -> Fires]
          /\ \A j \in Jobs : fired'[j].at = fired[j].at
      BY <3>1 DEF TypeTold, Fires
    <3>3. fired'[current].lost /\ \A j \in Jobs : fired[j].lost => fired'[j].lost
      BY <3>1 DEF TypeTold, Fires
    <3> QED BY <3>2, <3>3
  <2>2. CASE daemon # "submitted"
    BY <2>2 DEF CancelDaemon, TypeTold
  <2> QED BY <2>1, <2>2
<1>1. TypeStore'
  BY <1>0 DEF TypeStore, files
<1>2. TypeDaemon'
  BY <1>0, CronAssumption DEF TypeDaemon
<1>3. TypeTold'
  BY <1>0, <1>f DEF TypeTold, bounds
<1>4. Kept'
  BY <1>0, KeptStays DEF files
<1>5. Stamped'
  BY <1>0, <1>f DEF Stamped, Behind, files
<1>6. Listed'
  BY <1>0 DEF Listed
<1>7. Clocks'
  BY <1>0, <1>f, CronAssumption DEF Clocks, TypeDaemon
<1> QED BY <1>1, <1>2, <1>3, <1>4, <1>5, <1>6, <1>7, Together

LEMMA InvEndOfLoop == ASSUME Inv, EndOfLoop PROVE Inv'
<1> USE Facts
<1>0. Up /\ Up' /\ daemon = "waiting" /\ daemon' = "off"
      /\ UNCHANGED <<now, cache, files, stop, cycle, fired, promised, cut, bounds>>
  BY DEF EndOfLoop, Free, Up
<1>1. TypeDaemon' /\ Listed' /\ Clocks'
  BY <1>0, ListedStays DEF TypeDaemon, cycle, Clocks
<1> QED BY <1>0, <1>1, InvDaemonMoves

LEMMA InvWake == ASSUME Inv, Wake PROVE Inv'
<1> USE Facts
<1>0. Up /\ Up' /\ daemon = "waiting" /\ daemon' = "cycle" /\ started' = now
      /\ UNCHANGED <<now, cache, files, stop, current, fired, promised, cut, bounds>>
  BY DEF Wake, Free, Up
<1>q. queue' = {[job |-> j, base |-> cache[j].base] : j \in {k \in Jobs : cache[k].state = "on"}}
  BY DEF Wake
<1>1. TypeDaemon'
  <2>1. queue' \subseteq Listing
    BY <1>q DEF Listing, TypeStore, Records
  <2> QED BY <1>0, <2>1 DEF TypeDaemon
<1>2. Listed'
  <2>1. ASSUME NEW q \in queue' PROVE Behind(q.job, q.base)'
    <3>1. PICK j \in Jobs : cache[j].state = "on" /\ q.job = j /\ q.base = cache[j].base
      BY <1>q
    <3>2. Behind(j, cache[j].base)
      BY <1>0, <3>1 DEF Stamped
    <3> QED BY <1>0, <3>1, <3>2 DEF Behind
  <2>2. \A q, r \in queue' : q.job = r.job => q = r
    BY <1>q
  <2> QED BY <2>1, <2>2 DEF Listed
<1>3. Clocks'
  BY <1>0, CronAssumption DEF Clocks, TypeDaemon
<1> QED BY <1>0, <1>1, <1>2, <1>3, InvDaemonMoves

LEMMA InvSkip == ASSUME Inv, Skip PROVE Inv'
<1> USE Facts
<1>0. Up /\ Up' /\ daemon = "cycle" /\ queue' \subseteq queue
      /\ UNCHANGED <<now, cache, files, daemon, stop, started, current, fired, promised, cut, bounds>>
  BY DEF Skip, Free, Up
<1>1. TypeDaemon' /\ Listed' /\ Clocks'
  BY <1>0 DEF TypeDaemon, Listed, Behind, Clocks
<1> QED BY <1>0, <1>1, InvDaemonMoves

LEMMA InvEndCycle == ASSUME Inv, EndCycle PROVE Inv'
<1> USE Facts
<1>0. Up /\ Up' /\ daemon = "cycle" /\ daemon' = "waiting" /\ started' = 0
      /\ UNCHANGED <<now, cache, files, stop, queue, current, fired, promised, cut, bounds>>
  BY DEF EndCycle, Free, Up
<1>1. TypeDaemon'
  BY <1>0, CronAssumption DEF TypeDaemon
<1>2. Listed'
  BY <1>0, ListedStays
<1>3. Clocks'
  BY <1>0, CronAssumption DEF Clocks, TypeDaemon
<1> QED BY <1>0, <1>1, <1>2, <1>3, InvDaemonMoves

(* A submission is for a time after the clock of the one before, unless    *)
(* the stamp of that one was lost.                                         *)
LEMMA SubmitFacts ==
    ASSUME Inv, Submit
    PROVE  \E q \in queue :
              /\ q.job \in Jobs /\ queue' = queue \ {q} /\ current' = q.job
              /\ \/ fired' = fired
                 \/ /\ fired' = [fired EXCEPT ![q.job] =
                                  [due |-> NextFire(q.job, q.base), at |-> started,
                                   lost |-> FALSE]]
                    /\ NextFire(q.job, q.base) \in 0..MaxTime
                    /\ fired[q.job].lost \/ NextFire(q.job, q.base) > fired[q.job].at
<1> USE Facts
<1>1. PICK q \in queue : /\ IsDue(q) /\ queue' = queue \ {q} /\ current' = q.job
                         /\ Fired(q) \/ fired' = fired
  BY DEF Submit
<1>2. q.job \in Jobs /\ q.base \in Nat
  BY CronAssumption DEF TypeDaemon, Listing
<1>3. NextFire(q.job, q.base) \in Nat /\ NextFire(q.job, q.base) > q.base
  BY <1>2, Later
<1>4. NextFire(q.job, q.base) \in 0..MaxTime
  BY <1>1, <1>3, CronAssumption DEF IsDue, TypeDaemon
<1>5. fired[q.job].at \in Nat
  BY <1>2, CronAssumption DEF TypeTold, Fires
<1>6. fired[q.job].lost \/ NextFire(q.job, q.base) > fired[q.job].at
  BY <1>2, <1>3, <1>5 DEF Listed, Behind
<1> QED BY <1>1, <1>2, <1>4, <1>6 DEF Fired

LEMMA InvSubmit == ASSUME Inv, Submit PROVE Inv'
<1> USE Facts
<1>0. Up /\ Up' /\ daemon = "cycle" /\ daemon' = "submitted"
      /\ UNCHANGED <<now, cache, files, stop, started, promised, cut, ops>>
  BY DEF Submit, Free, Up
<1>1. PICK q \in queue :
          /\ q.job \in Jobs /\ queue' = queue \ {q} /\ current' = q.job
          /\ \/ fired' = fired
             \/ /\ fired' = [fired EXCEPT ![q.job] =
                              [due |-> NextFire(q.job, q.base), at |-> started,
                               lost |-> FALSE]]
                /\ NextFire(q.job, q.base) \in 0..MaxTime
  BY SubmitFacts
<1>2. TypeStore'
  BY <1>0 DEF TypeStore, files
<1>3. TypeDaemon'
  BY <1>0, <1>1 DEF TypeDaemon
<1>f. fired' \in [Jobs -> Fires]
  <2>1. CASE fired' = fired
    BY <2>1 DEF TypeTold
  <2>2. CASE fired' # fired
    <3>1. [due |-> NextFire(q.job, q.base), at |-> started, lost |-> FALSE] \in Fires
      <4>1. NextFire(q.job, q.base) \in 0..MaxTime /\ started \in 0..MaxTime
        BY <1>1, <2>2 DEF TypeDaemon
      <4> QED BY <4>1, Zenon DEF Fires
    <3> QED BY <1>1, <2>2, <3>1 DEF TypeTold
  <2> QED BY <2>1, <2>2
<1>4. TypeTold'
  <2>1. faults' \in 0..MaxFaults
    BY CronAssumption DEF Submit, TypeTold
  <2> QED BY <1>0, <1>f, <2>1 DEF TypeTold
<1>g. /\ \A j \in Jobs \ {q.job} : fired'[j] = fired[j]
      /\ fired'[q.job].at \in {started, fired[q.job].at}
  BY <1>1 DEF TypeTold
<1>5. Kept'
  BY <1>0, KeptStays DEF files
<1>6. Stamped'
  BY <1>0, <1>1, <1>g DEF Stamped, Behind
<1>7. Listed'
  <2>1. \A r \in queue' : r \in queue /\ r.job \in Jobs \ {q.job}
    BY <1>1 DEF Listed, TypeDaemon, Listing
  <2> QED BY <1>g, <2>1 DEF Listed, Behind
<1>8. Clocks'
  <2>1. \A j \in Jobs : fired'[j].at \in {started, fired[j].at}
    BY <1>g
  <2>2. \A j \in Jobs : fired'[j].at <= started
    <3>1. started \in Nat
      BY CronAssumption DEF TypeDaemon
    <3> QED BY <1>0, <2>1, <3>1 DEF Clocks
  <2>3. \A j \in Jobs : fired'[j].at <= now
    BY <2>1 DEF Clocks
  <2> QED BY <1>0, <1>1, <2>2, <2>3 DEF Clocks
<1> QED BY <1>2, <1>3, <1>4, <1>5, <1>6, <1>7, <1>8, Together

LEMMA InvStamp == ASSUME Inv, Stamp PROVE Inv'
<1> USE Facts
<1>0. /\ Up /\ Up' /\ daemon = "submitted" /\ daemon' = "cycle" /\ current \in Jobs
      /\ current' = None
      /\ UNCHANGED <<now, stop, started, queue, fired, promised, cut, bounds, path, bak>>
  BY DEF Stamp, Free, Up, Clocks, files, Write
<1>1. /\ cache' \in [Jobs -> Records]
      /\ \A j \in Jobs : cache'[j].state = cache[j].state
      /\ \A j \in Jobs \ {current} : cache'[j] = cache[j]
      /\ cache[current].state # "absent" => cache'[current].base = started
  <2>1. CASE cache[current].state = "absent"
    BY <2>1 DEF Stamp, TypeStore
  <2>2. CASE cache[current].state # "absent"
    <3>1. cache' = [cache EXCEPT ![current].base = started]
      BY <2>2 DEF Stamp
    <3> QED BY <1>0, <3>1 DEF TypeStore, TypeDaemon, Records
  <2> QED BY <2>1, <2>2
<1>2. TypeStore'
  <2>1. flush' \in {"none", "written", "moved"} /\ writer' \in {None, "tool", "daemon"}
    BY DEF Stamp, TypeStore, Write, files
  <2> QED BY <1>0, <1>1, <2>1 DEF TypeStore
<1>3. TypeDaemon' /\ TypeTold'
  BY <1>0 DEF TypeDaemon, TypeTold, bounds
<1>4. Kept'
  BY <1>0, <1>1 DEF Kept
<1>5. Stamped'
  BY <1>0, <1>1 DEF Stamped, Behind, Clocks
<1>6. Listed' /\ Clocks'
  BY <1>0, ListedStays DEF Clocks
<1> QED BY <1>2, <1>3, <1>4, <1>5, <1>6, Together

-----------------------------------------------------------------------------
(* The process.                                                            *)

LEMMA InvCrash == ASSUME Inv, Crash PROVE Inv'
<1> USE Facts
<1>0. /\ Up /\ ~Up' /\ daemon' = "down" /\ flush' = "none" /\ writer' = None
      /\ started' = 0 /\ queue' = {} /\ current' = None
      /\ UNCHANGED <<now, cache, path, bak, promised, ops>>
  BY DEF Crash, Up
<1>c. cut' = (cut \/ (path = None /\ bak # None)) /\ cut' \in BOOLEAN
  <2>1. cut' = (cut \/ (path = None /\ bak # None))
    BY DEF Crash
  <2> QED BY <2>1, Zenon
<1>f. /\ fired' \in [Jobs -> Fires]
      /\ \A j \in Jobs : /\ fired'[j].at = fired[j].at
                         /\ path # None => fired'[j].lost \/ ~(fired[j].at > path[j].base)
  <2>1. fired' = [j \in Jobs |->
                   [fired[j] EXCEPT !.lost = @ \/ (path # None /\ fired[j].at > path[j].base)]]
    BY DEF Crash
  <2>2. ASSUME NEW j \in Jobs
        PROVE  /\ fired'[j] \in Fires /\ fired'[j].at = fired[j].at
               /\ fired'[j].lost = (fired[j].lost \/ (path # None /\ fired[j].at > path[j].base))
    <3>1. fired'[j] = [fired[j] EXCEPT !.lost =
                         fired[j].lost \/ (path # None /\ fired[j].at > path[j].base)]
      BY <2>1
    <3>2. fired[j] \in Fires
      BY DEF TypeTold
    <3>3. (fired[j].lost \/ (path # None /\ fired[j].at > path[j].base)) \in BOOLEAN
      BY Zenon
    <3> QED BY <3>1, <3>2, <3>3, Zenon DEF Fires
  <2> QED BY <2>1, <2>2
<1>1. TypeStore'
  BY <1>0 DEF TypeStore
<1>2. TypeDaemon'
  <2>1. stop' \in BOOLEAN
    BY DEF Crash
  <2> QED BY <1>0, <2>1, CronAssumption DEF TypeDaemon
<1>3. TypeTold'
  <2>1. faults' \in 0..MaxFaults
    BY CronAssumption DEF Crash, TypeTold
  <2> QED BY <1>0, <1>c, <1>f, <2>1 DEF TypeTold
<1>4. Kept'
  BY <1>0, <1>c DEF Kept
<1>5. Stamped'
  <2>1. ASSUME path # None, NEW j \in Jobs PROVE fired[j].at \in Nat /\ path[j].base \in Nat
    BY <2>1, CronAssumption DEF TypeTold, Fires, TypeStore, Records
  <2> QED BY <1>0, <1>f, <2>1 DEF Stamped, Behind
<1>6. Listed'
  BY <1>0 DEF Listed
<1>7. Clocks'
  BY <1>0, <1>f, CronAssumption DEF Clocks, TypeDaemon
<1> QED BY <1>1, <1>2, <1>3, <1>4, <1>5, <1>6, <1>7, Together

LEMMA InvRestart == ASSUME Inv, Restart PROVE Inv'
<1> USE Facts
<1>0. /\ ~Up /\ Up' /\ daemon = "down" /\ daemon' = "off"
      /\ cache' = (IF path = None THEN [j \in Jobs |-> Absent] ELSE path)
      /\ UNCHANGED <<now, files, stop, cycle, fired, promised, cut, bounds>>
  BY DEF Restart, Up
<1>a. Absent \in Records /\ Absent.state = "absent"
  BY CronAssumption DEF Absent, Records, States
<1>1. TypeStore'
  BY <1>0, <1>a DEF TypeStore, files
<1>2. TypeDaemon' /\ TypeTold'
  BY <1>0 DEF TypeDaemon, TypeTold, cycle, bounds
<1>3. Kept'
  BY <1>0, <1>a DEF Kept, files
<1>4. Stamped'
  BY <1>0, <1>a DEF Stamped, Behind, files
<1>5. Listed' /\ Clocks'
  BY <1>0, ListedStays DEF cycle, Clocks
<1> QED BY <1>1, <1>2, <1>3, <1>4, <1>5, Together

LEMMA InvStutter == ASSUME Inv, UNCHANGED vars PROVE Inv'
<1> USE Facts
<1>1. TypeStore' /\ TypeDaemon' /\ TypeTold'
  BY DEF vars, files, cycle, bounds, TypeStore, TypeDaemon, TypeTold
<1>2. Kept' /\ Listed'
  BY KeptStays, ListedStays DEF vars, files, cycle, Up
<1>3. Stamped' /\ Clocks'
  BY DEF vars, files, cycle, Stamped, Behind, Clocks, Up
<1> QED BY <1>1, <1>2, <1>3, Together

LEMMA InvStep == Inv /\ [Next]_vars => Inv'
<1> SUFFICES ASSUME Inv, [Next]_vars PROVE Inv'
  OBVIOUS
<1>1. CASE Tick \/ Start \/ Shutdown \/ CancelDaemon
  BY <1>1, InvTick, InvStart, InvShutdown, InvCancelDaemon
<1>2. CASE Daemon
  BY <1>2, InvWake, InvSkip, InvEndCycle, InvSubmit, InvStamp, InvEndOfLoop,
     InvMoveAway, InvMoveInto DEF Daemon
<1>3. ASSUME NEW j \in Jobs, Create(j) \/ UpdateStatus(j) \/ Delete(j) PROVE Inv'
  BY <1>3, InvTool
<1>4. CASE WriteFails \/ Crash \/ Restart
  BY <1>4, InvWriteFails, InvCrash, InvRestart
<1>5. CASE UNCHANGED vars
  BY <1>5, InvStutter
<1> QED BY <1>1, <1>2, <1>3, <1>4, <1>5 DEF Next

-----------------------------------------------------------------------------
(* The theorems.                                                           *)

THEOREM Invariance == Spec => []Inv
BY InitInv, InvStep, PTL DEF Spec

(* Every variable keeps its type.                                          *)
THEOREM TypeCorrect == Spec => []TypeOK
BY Invariance, PTL DEF Inv

(* A job is what the tools were told it is, but after a process that died  *)
(* with jobs.json moved away (FileBackedCronJobStore._flush).              *)
THEOREM JobsKeptUnlessCutAlways == Spec => []JobsKeptUnlessCut
<1>1. Inv => JobsKeptUnlessCut
  BY DEF Inv, Kept, JobsKeptUnlessCut, JobsKept
<1> QED BY <1>1, Invariance, PTL

(* No time is served twice, and an outage is not caught up on fire by      *)
(* fire, unless the stamp of a submission was lost                         *)
(* (CronRunner._fire_due_jobs, mark_fired).                                *)
THEOREM FiresOnceAlways == Spec => FiresOnce
<1> DEFINE Served == \A j \in Jobs :
               fired'[j].at # fired[j].at \/ fired'[j].due # fired[j].due
                 => fired[j].lost \/ fired'[j].due > fired[j].at
<1>1. Inv /\ [Next]_vars => [Served]_fired
  <2> SUFFICES ASSUME Inv, [Next]_vars, fired' # fired PROVE Served
    OBVIOUS
  <2> USE Facts
  <2>1. CASE Submit
    <3>1. PICK q \in queue :
              /\ q.job \in Jobs
              /\ \/ fired' = fired
                 \/ /\ fired' = [fired EXCEPT ![q.job] =
                                  [due |-> NextFire(q.job, q.base), at |-> started,
                                   lost |-> FALSE]]
                    /\ fired[q.job].lost \/ NextFire(q.job, q.base) > fired[q.job].at
      BY <2>1, SubmitFacts
    <3>2. \A j \in Jobs \ {q.job} : fired'[j] = fired[j]
      BY <3>1 DEF TypeTold
    <3>3. fired'[q.job].due = NextFire(q.job, q.base)
      BY <3>1 DEF TypeTold
    <3> QED BY <3>1, <3>2, <3>3
  <2>2. CASE CancelDaemon
    <3>1. current \in Jobs /\ fired' = [fired EXCEPT ![current].lost = TRUE]
      BY <2>2 DEF CancelDaemon, Lost, Clocks
    <3>2. \A j \in Jobs : fired'[j].at = fired[j].at /\ fired'[j].due = fired[j].due
      BY <3>1 DEF TypeTold, Fires
    <3> QED BY <3>2
  <2>3. CASE Crash
    <3>1. \A j \in Jobs : fired'[j].at = fired[j].at /\ fired'[j].due = fired[j].due
      BY <2>3 DEF Crash, TypeTold, Fires
    <3> QED BY <3>1
  <2> QED BY <2>1, <2>2, <2>3
      DEF Next, Daemon, vars, Tick, Start, Shutdown, Wake, Skip, EndCycle, Stamp, EndOfLoop,
          MoveAway, MoveInto, Create, UpdateStatus, Delete, Put, WriteFails, Restart, bounds
<1> QED BY <1>1, Invariance, PTL DEF Spec, FiresOnce

-----------------------------------------------------------------------------
(* The connections to MCP servers.                                         *)

Work == {"opening", "handshake", "listing", "exitSession", "exitTransport"} \cup Steps
Undoing == {"cleaning", "leaving", "exitSession", "exitTransport", "cleaned"}

(* What is open for a name, and stays so.                                  *)
Opened(n) == OpenFor(n) \ halfCut

(* Whatever a name leads to is the name's.                                 *)
NamesInv ==
    /\ \A n \in Names : Known(n) => Name(servers[n]) = n
    /\ \A t \in Tasks : Name(of[t]) = Name(t) /\ Name(closing[t]) = Name(t)
    /\ \A k \in Conns : conn[k].transport # Nothing => Name(conn[k].transport) = Name(k)

(* What a name should be like when no task works on it.                    *)
InOrder(n) ==
    /\ Opened(n) = (IF Live(n) THEN {conn[servers[n]].transport} ELSE {}) \ halfCut
    /\ Live(n) => conn[servers[n]].transport # Nothing

TableInv == \A n \in Names : (\A c \in Callers : at[<<c, n>>] \notin Work) => InOrder(n)

(* The connection t makes is not the name's yet.                           *)
Uncommitted(t) ==
    IF Enabling(t) THEN servers[Name(t)] = of[t] /\ conn[of[t]].state # "CONNECTED"
                   ELSE servers[Name(t)] = Nothing

(* What t cleans a connection up for, and what the table says meanwhile.   *)
Purpose(t) ==
    /\ why[t] = "fail" => Uncommitted(t)
    /\ why[t] = "replace" => ~Enabling(t)
    /\ why[t] \in {"replace", "disconnect"} => servers[Name(t)] = Nothing
    /\ why[t] = "disable" =>
          /\ servers[Name(t)] = of[t]
          /\ at[t] # "cleaned" /\ conn[of[t]].state = "CONNECTED"
                => conn[of[t]].transport # Nothing

(* What is open for its name at each place of a task's work.               *)
TaskInv(t) ==
    /\ at[t] \notin Work => of[t] = t
    /\ at[t] \in {"dialing", "opening", "handshake", "listing"} => Uncommitted(t)
    /\ at[t] \in {"opening", "handshake", "listing"} => conn[of[t]].transport = t
    /\ at[t] \in {"dialing", "opening", "cleaned"} => Opened(Name(t)) = {}
    /\ at[t] \in {"handshake", "listing"} => Opened(Name(t)) = {t} \ halfCut
    /\ at[t] \in Undoing => Purpose(t)
    /\ at[t] \in Undoing \ {"cleaned"} => Opened(Name(t)) \subseteq {conn[of[t]].transport}
    /\ at[t] = "exitTransport" =>
          closing[t] = conn[of[t]].transport /\ conn[of[t]].transport # Nothing

Local(t) == TaskInv(t) /\ (at[t] \notin Work => InOrder(Name(t)))

(* A step of t, on t's name.                                               *)
Touches(t) ==
    /\ \A u \in Tasks : u # t =>
          at'[u] = at[u] /\ of'[u] = of[u] /\ why'[u] = why[u] /\ closing'[u] = closing[u]
    /\ \A m \in Names : m # Name(t) => servers'[m] = servers[m]
    /\ \A k \in Conns : Name(k) # Name(t) =>
          conn'[k] = conn[k] /\ chan'[k] = chan[k] /\ (k \in halfCut' <=> k \in halfCut)

(* The others who might work on t's name do not.                           *)
Alone1(t) == \A u \in Tasks : u # t /\ Name(u) = Name(t) => at[u] \notin Work

LEMMA TasksAre ==
    /\ Tasks \subseteq Conns
    /\ \A t \in Tasks : Caller(t) \in Callers /\ Name(t) \in Names /\ t = <<Caller(t), Name(t)>>
    /\ \A c \in Callers, n \in Names :
          <<c, n>> \in Tasks /\ Caller(<<c, n>>) = c /\ Name(<<c, n>>) = n
    /\ \A k \in Conns : Name(k) \in Names /\ k # Nothing
    /\ \A n \in Names : Founded(n) \in Conns /\ Name(Founded(n)) = n
BY CallersAssumption DEF Tasks, Conns, Caller, Name, Founded

LEMMA OpenedIs ==
    \A n, k : k \in Opened(n) <=> k \in Conns /\ Name(k) = n /\ chan[k] = "open" /\ k \notin halfCut
BY DEF Opened, OpenFor

LEMMA OpenedFrame ==
    ASSUME NEW t \in Tasks, Touches(t), NEW m \in Names, m # Name(t)
    PROVE  Opened(m)' = Opened(m)
BY DEF Opened, OpenFor, Touches

LEMMA InOrderFrame ==
    ASSUME ManagerTypeOK, NamesInv, NEW t \in Tasks, Touches(t),
           NEW m \in Names, m # Name(t), InOrder(m)
    PROVE  InOrder(m)'
<1>1. Opened(m)' = Opened(m) /\ servers'[m] = servers[m]
  BY OpenedFrame DEF Touches
<1>2. CASE Known(m)
  <2>1. servers[m] \in Conns /\ Name(servers[m]) = m
    BY <1>2 DEF Known, ManagerTypeOK, NamesInv
  <2>2. conn'[servers[m]] = conn[servers[m]]
    BY <2>1 DEF Touches
  <2>3. Live(m)' <=> Live(m)
    BY <1>1, <2>2 DEF Live, Known
  <2> DEFINE x == conn[servers[m]].transport
  <2>4. conn'[servers'[m]].transport = x
    BY <1>1, <2>2
  <2>5. Live(m) => x \in Conns /\ Name(x) = m /\ (x \in halfCut' <=> x \in halfCut)
    <3>1. Live(m) => x # Nothing
      BY DEF InOrder
    <3>2. conn[servers[m]].transport \in Conns \cup {Nothing}
      BY <2>1 DEF ManagerTypeOK
    <3> QED BY <2>1, <3>1, <3>2 DEF NamesInv, Touches
  <2> HIDE DEF x
  <2>6. InOrder(m)' <=>
           /\ Opened(m)' = (IF Live(m)' THEN {x} ELSE {}) \ halfCut'
           /\ Live(m)' => x # Nothing
    BY <2>4 DEF InOrder
  <2>7. /\ Opened(m) = (IF Live(m) THEN {x} ELSE {}) \ halfCut
        /\ Live(m) => x # Nothing
    BY DEF InOrder, x
  <2> QED BY <1>1, <2>3, <2>5, <2>6, <2>7
<1>3. CASE ~Known(m)
  BY <1>1, <1>3 DEF InOrder, Live, Known
<1> QED BY <1>2, <1>3

LEMMA TaskFrame ==
    ASSUME ManagerTypeOK, NamesInv, NEW t \in Tasks, Touches(t),
           NEW u \in Tasks, u # t, TaskInv(u),
           Name(u) = Name(t) => at[u] \notin Work,
           at[u] \in Work => op'[Caller(u)] = op[Caller(u)]
    PROVE  TaskInv(u)'
<1>1. at'[u] = at[u] /\ of'[u] = of[u] /\ why'[u] = why[u] /\ closing'[u] = closing[u]
  BY DEF Touches
<1>2. CASE at[u] \notin Work
  BY <1>1, <1>2 DEF TaskInv, Work, Undoing, Steps
<1>3. CASE at[u] \in Work
  <2>1. Name(u) # Name(t) /\ Name(u) \in Names
    BY <1>3, TasksAre
  <2>2. of[u] \in Conns /\ Name(of[u]) = Name(u)
    BY DEF ManagerTypeOK, NamesInv
  <2>3. servers'[Name(u)] = servers[Name(u)] /\ conn'[of[u]] = conn[of[u]]
        /\ Opened(Name(u))' = Opened(Name(u)) /\ (u \in halfCut' <=> u \in halfCut)
    BY <2>1, <2>2, OpenedFrame, TasksAre DEF Touches
  <2>4. Enabling(u)' <=> Enabling(u)
    BY <1>3 DEF Enabling
  <2>5. Uncommitted(u)' <=> Uncommitted(u)
    BY <1>1, <2>3, <2>4 DEF Uncommitted
  <2>6. Purpose(u)' <=> Purpose(u)
    BY <1>1, <2>3, <2>4, <2>5 DEF Purpose
  <2>7. {u} \ halfCut' = {u} \ halfCut
    BY <2>3
  <2> QED BY <1>1, <2>3, <2>5, <2>6, <2>7 DEF TaskInv
<1> QED BY <1>2, <1>3

(* A step on one name leaves the others as they are.                       *)
LEMMA LocalStep ==
    ASSUME ManagerTypeOK, NamesInv, TableInv, \A u \in Tasks : TaskInv(u),
           NEW t \in Tasks, Touches(t), Alone1(t), Local(t)',
           \A u \in Tasks : at[u] \in Work => op'[Caller(u)] = op[Caller(u)]
    PROVE  TableInv' /\ \A u \in Tasks : TaskInv(u)'
<1>1. ASSUME NEW u \in Tasks PROVE TaskInv(u)'
  <2>1. CASE u = t
    BY <2>1 DEF Local
  <2>2. CASE u # t
    BY <2>2, TaskFrame DEF Alone1
  <2> QED BY <2>1, <2>2
<1>2. ASSUME NEW m \in Names, \A c \in Callers : at'[<<c, m>>] \notin Work
      PROVE  InOrder(m)'
  <2>1. CASE m = Name(t)
    <3>1. at'[t] \notin Work
      BY <1>2, <2>1, TasksAre
    <3> QED BY <2>1, <3>1 DEF Local
  <2>2. CASE m # Name(t)
    <3>1. \A c \in Callers : at'[<<c, m>>] = at[<<c, m>>]
      BY <2>2, TasksAre DEF Touches
    <3>2. InOrder(m)
      BY <1>2, <3>1 DEF TableInv
    <3> QED BY <2>2, <3>2, InOrderFrame
  <2> QED BY <2>1, <2>2
<1> QED BY <1>1, <1>2 DEF TableInv

(* Before its step the name of a task no other works on is in order.       *)
LEMMA LocalBefore ==
    ASSUME TableInv, \A u \in Tasks : TaskInv(u), NEW t \in Tasks, Alone1(t)
    PROVE  Local(t)
<1> SUFFICES ASSUME at[t] \notin Work PROVE InOrder(Name(t))
  BY DEF Local
<1>1. ASSUME NEW c \in Callers PROVE at[<<c, Name(t)>>] \notin Work
  BY TasksAre DEF Alone1
<1> QED BY <1>1, TasksAre DEF TableInv

(* What writing one field of one connection changes, and starting it anew. *)
Rest1(k) == \A j \in Conns : j # k => conn'[j] = conn[j]

LEMMA WritesTransport ==
    ASSUME ManagerTypeOK, NEW k \in Conns, NEW x,
           conn' = [conn EXCEPT ![k].transport = x]
    PROVE  conn'[k].transport = x /\ conn'[k].state = conn[k].state /\ Rest1(k)
BY DEF ManagerTypeOK, Rest1

LEMMA WritesState ==
    ASSUME ManagerTypeOK, NEW k \in Conns, NEW x, conn' = [conn EXCEPT ![k].state = x]
    PROVE  conn'[k].transport = conn[k].transport /\ conn'[k].state = x /\ Rest1(k)
BY DEF ManagerTypeOK, Rest1

LEMMA WritesSession ==
    ASSUME ManagerTypeOK, NEW k \in Conns, NEW x, conn' = [conn EXCEPT ![k].session = x]
    PROVE  /\ conn'[k].transport = conn[k].transport /\ conn'[k].state = conn[k].state
           /\ Rest1(k)
BY DEF ManagerTypeOK, Rest1

LEMMA StartsAnew ==
    ASSUME ManagerTypeOK, NEW k \in Conns, conn' = [conn EXCEPT ![k] = New]
    PROVE  conn'[k].transport = Nothing /\ conn'[k].state = "PENDING" /\ Rest1(k)
BY DEF ManagerTypeOK, New, Rest1

(* What a step may do to the names.                                        *)
LEMMA NamesStep ==
    ASSUME ManagerTypeOK, NamesInv, NEW t \in Tasks, Touches(t),
           Name(of'[t]) = Name(t), Name(closing'[t]) = Name(t),
           servers'[Name(t)] = Nothing \/ Name(servers'[Name(t)]) = Name(t),
           \A k \in Conns : \/ conn'[k].transport = Nothing
                            \/ conn'[k].transport = conn[k].transport
                            \/ Name(k) = Name(t) /\ conn'[k].transport = t
    PROVE  NamesInv'
<1>1. \A n \in Names : Known(n)' => Name(servers'[n]) = n
  BY DEF Known, Touches, NamesInv
<1>2. \A u \in Tasks : Name(of'[u]) = Name(u) /\ Name(closing'[u]) = Name(u)
  BY DEF Touches, NamesInv
<1>3. \A k \in Conns : conn'[k].transport # Nothing => Name(conn'[k].transport) = Name(k)
  BY DEF NamesInv
<1> QED BY <1>1, <1>2, <1>3 DEF NamesInv

Frame == UNCHANGED <<op, halfCut>>

LEMMA OfTask ==
    ASSUME ManagerTypeOK, NamesInv, NEW t \in Tasks
    PROVE  /\ of[t] \in Conns /\ Name(of[t]) = Name(t)
           /\ closing[t] \in Conns /\ Name(closing[t]) = Name(t)
           /\ t \in Conns /\ Name(t) \in Names /\ t # Nothing
BY TasksAre DEF ManagerTypeOK, NamesInv

LEMMA DialLocal ==
    ASSUME ManagerTypeOK, NamesInv, NEW t \in Tasks, TaskInv(t), Dial(t), Frame
    PROVE  Touches(t) /\ NamesInv' /\ Local(t)'
<1>1. /\ at[t] = "dialing" /\ Uncommitted(t) /\ Opened(Name(t)) = {}
      /\ servers' = servers /\ op' = op /\ halfCut' = halfCut
  BY DEF Dial, TaskInv, Frame, Work, Steps
<1>2. CASE /\ conn' = [conn EXCEPT ![of[t]].transport = t]
           /\ chan' = [chan EXCEPT ![t] = "opening"]
           /\ Stops(t, "opening")
           /\ UNCHANGED <<of, why, closing>>
  <2>1. /\ conn'[of[t]].transport = t /\ conn'[of[t]].state = conn[of[t]].state
        /\ \A j \in Conns : j # of[t] => conn'[j] = conn[j]
    BY <1>2, OfTask, WritesTransport DEF Rest1
  <2>2. at'[t] = "opening" /\ \A u \in Tasks : u # t => at'[u] = at[u]
    BY <1>2 DEF Stops, ManagerTypeOK
  <2>3. chan'[t] = "opening" /\ \A k \in Conns : k # t => chan'[k] = chan[k]
    BY <1>2, OfTask DEF ManagerTypeOK
  <2>4. Touches(t)
    BY <1>1, <1>2, <2>1, <2>2, <2>3, OfTask DEF Touches
  <2>5. NamesInv'
    <3>1. servers'[Name(t)] = Nothing \/ Name(servers'[Name(t)]) = Name(t)
      BY <1>1, OfTask DEF NamesInv, Known
    <3> QED BY <1>2, <2>1, <2>4, <3>1, OfTask, NamesStep
  <2>6. Uncommitted(t)'
    BY <1>1, <1>2, <2>1 DEF Uncommitted, Enabling
  <2>7. Opened(Name(t))' = {}
    BY <1>1, <2>3 DEF Opened, OpenFor
  <2>8. TaskInv(t)'
    BY <1>2, <2>1, <2>2, <2>6, <2>7 DEF TaskInv, Work, Steps, Undoing
  <2> QED BY <2>2, <2>4, <2>5, <2>8 DEF Local, Work
<1>3. CASE Ends(t, "raised") /\ UNCHANGED <<conn, chan>>
  <2>1. /\ at'[t] = "raised" /\ of'[t] = t /\ closing'[t] = t
        /\ \A u \in Tasks : u # t => at'[u] = at[u] /\ of'[u] = of[u]
                                     /\ why'[u] = why[u] /\ closing'[u] = closing[u]
    BY <1>3 DEF Ends, Stops, ManagerTypeOK
  <2>2. Touches(t)
    BY <1>1, <1>3, <2>1 DEF Touches
  <2>3. NamesInv'
    <3>1. servers'[Name(t)] = Nothing \/ Name(servers'[Name(t)]) = Name(t)
      BY <1>1, OfTask DEF NamesInv, Known
    <3> QED BY <1>3, <2>1, <2>2, <3>1, NamesStep
  <2>4. ~Live(Name(t))'
    BY <1>1, <1>3 DEF Uncommitted, Live, Known
  <2>5. Opened(Name(t))' = {}
    BY <1>1, <1>3 DEF Opened, OpenFor
  <2> QED BY <2>1, <2>2, <2>3, <2>4, <2>5 DEF Local, TaskInv, InOrder, Work, Steps, Undoing
<1> QED BY <1>2, <1>3 DEF Dial

LEMMA Moves ==
    ASSUME ManagerTypeOK, NEW t \in Tasks, NEW next, at' = [at EXCEPT ![t] = next]
    PROVE  at'[t] = next /\ \A u \in Tasks : u # t => at'[u] = at[u]
BY DEF ManagerTypeOK

LEMMA EndsEffect ==
    ASSUME ManagerTypeOK, NEW t \in Tasks, NEW how, Ends(t, how)
    PROVE  /\ at'[t] = how /\ of'[t] = t /\ closing'[t] = t
           /\ \A u \in Tasks : u # t => at'[u] = at[u] /\ of'[u] = of[u]
                                        /\ why'[u] = why[u] /\ closing'[u] = closing[u]
BY DEF Ends, Stops, ManagerTypeOK

LEMMA CleanUpEffect ==
    ASSUME ManagerTypeOK, NEW t \in Tasks, NEW for, CleanUp(t, for)
    PROVE  /\ at'[t] = "cleaning" /\ why'[t] = for /\ closing' = closing
           /\ \A u \in Tasks : u # t => at'[u] = at[u] /\ why'[u] = why[u]
BY DEF CleanUp, Goes, ManagerTypeOK

(* Where the table stays as it is, so do its names.                        *)
LEMMA NamesKept ==
    ASSUME ManagerTypeOK, NamesInv, NEW t \in Tasks, Touches(t), servers' = servers,
           Name(of'[t]) = Name(t), Name(closing'[t]) = Name(t),
           \A k \in Conns : \/ conn'[k].transport = Nothing
                            \/ conn'[k].transport = conn[k].transport
    PROVE  NamesInv'
<1>1. servers'[Name(t)] = Nothing \/ Name(servers'[Name(t)]) = Name(t)
  BY OfTask DEF NamesInv, Known
<1> QED BY <1>1, NamesStep

LEMMA LeaveSessionLocal ==
    ASSUME ManagerTypeOK, NamesInv, NEW t \in Tasks, TaskInv(t), LeaveSession(t), Frame
    PROVE  Touches(t) /\ NamesInv' /\ Local(t)'
<1>1. /\ at[t] = "cleaning" /\ Purpose(t) /\ Opened(Name(t)) \subseteq {conn[of[t]].transport}
      /\ UNCHANGED <<table, conn, chan, of, why, closing, op, halfCut>>
  BY DEF LeaveSession, TaskInv, Frame, Undoing
<1>2. PICK next \in {"exitSession", "leaving"} : at' = [at EXCEPT ![t] = next]
  BY DEF LeaveSession, Stops, Goes
<1>3. at'[t] = next /\ \A u \in Tasks : u # t => at'[u] = at[u]
  BY <1>2, Moves
<1>4. Touches(t)
  BY <1>1, <1>3 DEF Touches, table
<1>5. NamesInv'
  BY <1>1, <1>4, OfTask, NamesKept DEF table
<1>6. Purpose(t)'
  BY <1>1, <1>3 DEF Purpose, Uncommitted, Enabling, table
<1>7. Opened(Name(t))' = Opened(Name(t))
  BY <1>1 DEF Opened, OpenFor
<1> QED BY <1>1, <1>3, <1>4, <1>5, <1>6, <1>7 DEF Local, TaskInv, Work, Steps, Undoing

LEMMA LeaveTransportLocal ==
    ASSUME ManagerTypeOK, NamesInv, NEW t \in Tasks, TaskInv(t), LeaveTransport(t), Frame
    PROVE  Touches(t) /\ NamesInv' /\ Local(t)'
<1> DEFINE x == conn[of[t]].transport
<1>1. /\ at[t] = "leaving" /\ Purpose(t) /\ Opened(Name(t)) \subseteq {x}
      /\ UNCHANGED <<table, chan, of, why, op, halfCut>>
  BY DEF LeaveTransport, TaskInv, Frame, Undoing
<1>2. CASE /\ x # Nothing /\ chan[x] = "open"
           /\ Stops(t, "exitTransport")
           /\ closing' = [closing EXCEPT ![t] = x]
           /\ UNCHANGED conn
  <2>1. at'[t] = "exitTransport" /\ \A u \in Tasks : u # t => at'[u] = at[u]
    BY <1>2, Moves DEF Stops
  <2>2. closing'[t] = x /\ \A u \in Tasks : u # t => closing'[u] = closing[u]
    BY <1>2 DEF ManagerTypeOK
  <2>3. Name(x) = Name(t)
    BY <1>2, OfTask DEF NamesInv
  <2>4. Touches(t)
    BY <1>1, <1>2, <2>1, <2>2 DEF Touches, table
  <2>5. NamesInv'
    BY <1>1, <1>2, <2>2, <2>3, <2>4, OfTask, NamesKept DEF table
  <2>6. Purpose(t)'
    BY <1>1, <1>2, <2>1 DEF Purpose, Uncommitted, Enabling, table
  <2>7. Opened(Name(t))' = Opened(Name(t))
    BY <1>1 DEF Opened, OpenFor
  <2> QED BY <1>1, <1>2, <2>1, <2>2, <2>4, <2>5, <2>6, <2>7
          DEF Local, TaskInv, Work, Steps, Undoing
<1>3. CASE /\ ~ (x # Nothing /\ chan[x] = "open")
           /\ Goes(t, "cleaned")
           /\ conn' = [conn EXCEPT ![of[t]].transport = Nothing]
           /\ UNCHANGED closing
  <2>1. at'[t] = "cleaned" /\ \A u \in Tasks : u # t => at'[u] = at[u]
    BY <1>3, Moves DEF Goes
  <2>2. /\ conn'[of[t]].transport = Nothing /\ conn'[of[t]].state = conn[of[t]].state
        /\ \A j \in Conns : j # of[t] => conn'[j] = conn[j]
    BY <1>3, OfTask, WritesTransport DEF Rest1
  <2>3. Touches(t)
    BY <1>1, <1>3, <2>1, <2>2, OfTask DEF Touches, table
  <2>4. NamesInv'
    BY <1>1, <1>3, <2>2, <2>3, OfTask, NamesKept DEF table
  <2>5. Purpose(t)'
    BY <1>1, <1>3, <2>1, <2>2 DEF Purpose, Uncommitted, Enabling, table
  <2>6. Opened(Name(t))' = {}
    <3>1. \A k \in Opened(Name(t)) : k # Nothing /\ chan[k] = "open"
      BY TasksAre, OpenedIs
    <3>2. Opened(Name(t)) = {}
      BY <1>1, <1>3, <3>1
    <3> QED BY <1>1, <3>2 DEF Opened, OpenFor
  <2> QED BY <1>1, <1>3, <2>1, <2>3, <2>4, <2>5, <2>6
          DEF Local, TaskInv, Work, Steps, Undoing
<1> QED BY <1>2, <1>3 DEF LeaveTransport

LEMMA SessionExitsLocal ==
    ASSUME ManagerTypeOK, NamesInv, NEW t \in Tasks, TaskInv(t), SessionExits(t), Frame
    PROVE  Touches(t) /\ NamesInv' /\ Local(t)'
<1>1. /\ at[t] = "exitSession" /\ Purpose(t)
      /\ Opened(Name(t)) \subseteq {conn[of[t]].transport}
      /\ UNCHANGED <<table, chan, of, why, closing, op, halfCut>>
      /\ conn' = [conn EXCEPT ![of[t]].session = Nothing]
      /\ at' = [at EXCEPT ![t] = "leaving"]
  BY DEF SessionExits, Resumes, Goes, TaskInv, Frame, Undoing
<1>2. at'[t] = "leaving" /\ \A u \in Tasks : u # t => at'[u] = at[u]
  BY <1>1, Moves
<1>3. /\ conn'[of[t]].transport = conn[of[t]].transport
      /\ conn'[of[t]].state = conn[of[t]].state
      /\ \A j \in Conns : j # of[t] => conn'[j] = conn[j]
  BY <1>1, OfTask, WritesSession DEF Rest1
<1>4. Touches(t)
  BY <1>1, <1>2, <1>3, OfTask DEF Touches, table
<1>5. NamesInv'
  BY <1>1, <1>3, <1>4, OfTask, NamesKept DEF table
<1>6. Purpose(t)'
  BY <1>1, <1>2, <1>3 DEF Purpose, Uncommitted, Enabling, table
<1>7. Opened(Name(t))' = Opened(Name(t))
  BY <1>1 DEF Opened, OpenFor
<1> QED BY <1>1, <1>2, <1>3, <1>4, <1>5, <1>6, <1>7 DEF Local, TaskInv, Work, Steps, Undoing

LEMMA TransportExitsLocal ==
    ASSUME ManagerTypeOK, NamesInv, NEW t \in Tasks, TaskInv(t), TransportExits(t), Frame
    PROVE  Touches(t) /\ NamesInv' /\ Local(t)'
<1> DEFINE x == closing[t]
<1>1. /\ at[t] = "exitTransport" /\ Purpose(t) /\ Opened(Name(t)) \subseteq {x}
      /\ UNCHANGED <<table, of, why, closing, op, halfCut>>
      /\ chan' = [chan EXCEPT ![x] = "shut"]
      /\ conn' = [conn EXCEPT ![of[t]].transport = Nothing]
      /\ at' = [at EXCEPT ![t] = "cleaned"]
  BY DEF TransportExits, Resumes, Goes, TaskInv, Frame, Undoing
<1>2. at'[t] = "cleaned" /\ \A u \in Tasks : u # t => at'[u] = at[u]
  BY <1>1, Moves
<1>3. /\ conn'[of[t]].transport = Nothing
      /\ conn'[of[t]].state = conn[of[t]].state
      /\ \A j \in Conns : j # of[t] => conn'[j] = conn[j]
  BY <1>1, OfTask, WritesTransport DEF Rest1
<1>4. x \in Conns /\ Name(x) = Name(t)
  BY OfTask
<1>5. chan'[x] = "shut" /\ \A k \in Conns : k # x => chan'[k] = chan[k]
  BY <1>1, <1>4 DEF ManagerTypeOK
<1>6. Touches(t)
  BY <1>1, <1>2, <1>3, <1>4, <1>5, OfTask DEF Touches, table
<1>7. NamesInv'
  BY <1>1, <1>3, <1>6, OfTask, NamesKept DEF table
<1>8. Purpose(t)'
  BY <1>1, <1>2, <1>3 DEF Purpose, Uncommitted, Enabling, table
<1>9. Opened(Name(t))' = {}
  BY <1>1, <1>5 DEF Opened, OpenFor
<1> QED BY <1>2, <1>6, <1>7, <1>8, <1>9 DEF Local, TaskInv, Work, Steps, Undoing

(* A task that ends and leaves its name in order.                          *)
LEMMA EndsLocal ==
    ASSUME NEW t \in Tasks, at'[t] \in {"raised", "returned"}, of'[t] = t, InOrder(Name(t))'
    PROVE  Local(t)'
BY DEF Local, TaskInv, Work, Steps, Undoing

LEMMA NothingInOrder ==
    ASSUME NEW n \in Names, ~Live(n)', Opened(n)' = {}
    PROVE  InOrder(n)'
BY DEF InOrder

LEMMA CleanedLocal ==
    ASSUME ManagerTypeOK, NamesInv, NEW t \in Tasks, TaskInv(t), Cleaned(t), Frame
    PROVE  Touches(t) /\ NamesInv' /\ Local(t)'
<1>1. /\ at[t] = "cleaned" /\ Purpose(t) /\ Opened(Name(t)) = {}
      /\ UNCHANGED <<servers, chan, op, halfCut>>
  BY DEF Cleaned, TaskInv, Frame, Undoing
<1>2. Opened(Name(t))' = {}
  BY <1>1 DEF Opened, OpenFor
<1>3. CASE CleanedToReplace(t)
  <2>1. /\ why[t] = "replace" /\ servers[Name(t)] = Nothing /\ ~Enabling(t)
        /\ conn' = [conn EXCEPT ![of[t]] = New]
        /\ of' = [of EXCEPT ![t] = t] /\ at' = [at EXCEPT ![t] = "dialing"]
        /\ UNCHANGED <<why, closing>>
    BY <1>1, <1>3 DEF CleanedToReplace, Dropped, Goes, Purpose
  <2>2. at'[t] = "dialing" /\ \A u \in Tasks : u # t => at'[u] = at[u]
    BY <2>1, Moves
  <2>3. of'[t] = t /\ \A u \in Tasks : u # t => of'[u] = of[u]
    BY <2>1 DEF ManagerTypeOK
  <2>4. /\ conn'[of[t]].transport = Nothing
        /\ \A j \in Conns : j # of[t] => conn'[j] = conn[j]
    BY <2>1, OfTask, StartsAnew DEF Rest1
  <2>5. Touches(t)
    BY <1>1, <2>1, <2>2, <2>3, <2>4, OfTask DEF Touches
  <2>6. NamesInv'
    BY <1>1, <2>1, <2>3, <2>4, <2>5, OfTask, NamesKept
  <2>7. Uncommitted(t)'
    BY <1>1, <2>1 DEF Uncommitted, Enabling
  <2> QED BY <1>2, <2>2, <2>5, <2>6, <2>7 DEF Local, TaskInv, Work, Steps, Undoing
<1>4. CASE CleanedAfterFailure(t)
  <2>1. /\ why[t] = "fail" /\ Uncommitted(t) /\ Ends(t, "raised")
        /\ IF Enabling(t) THEN conn' = [conn EXCEPT ![of[t]].state = "FAILED"]
                          ELSE conn' = [conn EXCEPT ![of[t]] = New]
    BY <1>1, <1>4 DEF CleanedAfterFailure, Dropped, Becomes, Purpose
  <2>2. /\ at'[t] = "raised" /\ of'[t] = t /\ closing'[t] = t
        /\ \A u \in Tasks : u # t => at'[u] = at[u] /\ of'[u] = of[u]
                                     /\ why'[u] = why[u] /\ closing'[u] = closing[u]
    BY <2>1, EndsEffect
  <2>3. /\ \A j \in Conns : j # of[t] => conn'[j] = conn[j]
        /\ conn'[of[t]].transport \in {Nothing, conn[of[t]].transport}
        /\ Enabling(t) => conn'[of[t]].state = "FAILED"
    <3>1. CASE Enabling(t)
      <4>1. conn' = [conn EXCEPT ![of[t]].state = "FAILED"]
        BY <2>1, <3>1
      <4> QED BY <3>1, <4>1, OfTask, WritesState DEF Rest1
    <3>2. CASE ~Enabling(t)
      BY <2>1, <3>2, OfTask, StartsAnew DEF Rest1
    <3> QED BY <3>1, <3>2
  <2>4. Touches(t)
    BY <1>1, <2>2, <2>3, OfTask DEF Touches
  <2>5. NamesInv'
    BY <1>1, <2>2, <2>3, <2>4, NamesKept
  <2>6. ~Live(Name(t))'
    BY <1>1, <2>1, <2>3 DEF Uncommitted, Live, Known
  <2> QED BY <1>2, <2>2, <2>4, <2>5, <2>6, OfTask, EndsLocal, NothingInOrder
<1>5. CASE CleanedForGood(t)
  <2>1. /\ why[t] \in {"disconnect", "disable"} /\ Ends(t, "returned")
        /\ IF why[t] = "disable" THEN conn' = [conn EXCEPT ![of[t]].state = "DISABLED"]
                                 ELSE conn' = [conn EXCEPT ![of[t]] = New]
    BY <1>5 DEF CleanedForGood, Dropped, Becomes
  <2>2. /\ at'[t] = "returned" /\ of'[t] = t /\ closing'[t] = t
        /\ \A u \in Tasks : u # t => at'[u] = at[u] /\ of'[u] = of[u]
                                     /\ why'[u] = why[u] /\ closing'[u] = closing[u]
    BY <2>1, EndsEffect
  <2>3. /\ \A j \in Conns : j # of[t] => conn'[j] = conn[j]
        /\ conn'[of[t]].transport \in {Nothing, conn[of[t]].transport}
        /\ why[t] = "disable" => conn'[of[t]].state = "DISABLED"
    <3>1. CASE why[t] = "disable"
      <4>1. conn' = [conn EXCEPT ![of[t]].state = "DISABLED"]
        BY <2>1, <3>1
      <4> QED BY <3>1, <4>1, OfTask, WritesState DEF Rest1
    <3>2. CASE why[t] # "disable"
      BY <2>1, <3>2, OfTask, StartsAnew DEF Rest1
    <3> QED BY <3>1, <3>2
  <2>4. Touches(t)
    BY <1>1, <2>2, <2>3, OfTask DEF Touches
  <2>5. NamesInv'
    BY <1>1, <2>2, <2>3, <2>4, NamesKept
  <2>6. ~Live(Name(t))'
    BY <1>1, <2>1, <2>3 DEF Purpose, Live, Known
  <2> QED BY <1>2, <2>2, <2>4, <2>5, <2>6, OfTask, EndsLocal, NothingInOrder
<1> QED BY <1>3, <1>4, <1>5 DEF Cleaned

(* A connection that fails is cleaned up: what is open is its transport.   *)
LEMMA FailsLocal ==
    ASSUME ManagerTypeOK, NamesInv, NEW t \in Tasks, Uncommitted(t), CleanUp(t, "fail"),
           UNCHANGED <<servers, conn, of, op>>,
           \A k \in Conns : Name(k) # Name(t) =>
              chan'[k] = chan[k] /\ (k \in halfCut' <=> k \in halfCut),
           Opened(Name(t))' \subseteq {conn[of[t]].transport}
    PROVE  Touches(t) /\ NamesInv' /\ Local(t)'
<1>1. /\ at'[t] = "cleaning" /\ why'[t] = "fail" /\ closing' = closing
      /\ \A u \in Tasks : u # t => at'[u] = at[u] /\ why'[u] = why[u]
  BY CleanUpEffect
<1>2. Touches(t)
  BY <1>1 DEF Touches
<1>3. NamesInv'
  BY <1>1, <1>2, OfTask, NamesKept
<1>4. Purpose(t)'
  <2>1. Uncommitted(t)'
    BY DEF Uncommitted, Enabling
  <2> QED BY <1>1, <2>1 DEF Purpose
<1> QED BY <1>1, <1>2, <1>3, <1>4 DEF Local, TaskInv, Work, Steps, Undoing

LEMMA OpensLocal ==
    ASSUME ManagerTypeOK, NamesInv, NEW t \in Tasks, TaskInv(t), Opens(t), Frame
    PROVE  Touches(t) /\ NamesInv' /\ Local(t)'
<1>1. /\ at[t] = "opening" /\ Uncommitted(t) /\ Opened(Name(t)) = {}
      /\ conn[of[t]].transport = t
      /\ UNCHANGED <<servers, of, op, halfCut>>
  BY DEF Opens, Resumes, TaskInv, Frame, table
<1>2. CASE /\ chan' = [chan EXCEPT ![t] = "open"]
           /\ conn' = [conn EXCEPT ![of[t]].session = t]
           /\ Stops(t, "handshake")
           /\ UNCHANGED <<why, closing>>
  <2>1. at'[t] = "handshake" /\ \A u \in Tasks : u # t => at'[u] = at[u]
    BY <1>2, Moves DEF Stops
  <2>2. /\ conn'[of[t]].transport = t /\ conn'[of[t]].state = conn[of[t]].state
        /\ \A j \in Conns : j # of[t] => conn'[j] = conn[j]
    BY <1>1, <1>2, OfTask, WritesSession DEF Rest1
  <2>3. chan'[t] = "open" /\ \A k \in Conns : k # t => chan'[k] = chan[k]
    BY <1>2, OfTask DEF ManagerTypeOK
  <2>4. Touches(t)
    BY <1>1, <1>2, <2>1, <2>2, <2>3, OfTask DEF Touches
  <2>5. NamesInv'
    BY <1>1, <1>2, <2>2, <2>4, OfTask, NamesKept
  <2>6. Uncommitted(t)'
    BY <1>1, <2>2 DEF Uncommitted, Enabling
  <2>7. Opened(Name(t))' = {t} \ halfCut'
    <3>1. \A k : k \in Opened(Name(t))' <=>
             k \in Conns /\ Name(k) = Name(t) /\ chan'[k] = "open" /\ k \notin halfCut'
      BY DEF Opened, OpenFor
    <3>2. \A k \in Conns : ~ (Name(k) = Name(t) /\ chan[k] = "open" /\ k \notin halfCut)
      BY <1>1, OpenedIs
    <3>3. \A k : k \in Opened(Name(t))' <=> k = t /\ k \notin halfCut'
      BY <1>1, <2>3, <3>1, <3>2, OfTask
    <3> QED BY <3>3
  <2> QED BY <1>1, <2>1, <2>2, <2>4, <2>5, <2>6, <2>7
          DEF Local, TaskInv, Work, Steps, Undoing
<1>3. CASE chan' = [chan EXCEPT ![t] = "shut"] /\ CleanUp(t, "fail") /\ UNCHANGED conn
  <2>1. chan'[t] = "shut" /\ \A k \in Conns : k # t => chan'[k] = chan[k]
    BY <1>3, OfTask DEF ManagerTypeOK
  <2>2. Opened(Name(t))' = {}
    BY <1>1, <2>1 DEF Opened, OpenFor
  <2> QED BY <1>1, <1>3, <2>1, <2>2, FailsLocal
<1> QED BY <1>2, <1>3 DEF Opens

LEMMA InitializesLocal ==
    ASSUME ManagerTypeOK, NamesInv, NEW t \in Tasks, TaskInv(t), Initializes(t), Frame
    PROVE  Touches(t) /\ NamesInv' /\ Local(t)'
<1>1. /\ at[t] = "handshake" /\ Uncommitted(t) /\ Opened(Name(t)) = {t} \ halfCut
      /\ conn[of[t]].transport = t
      /\ UNCHANGED <<servers, conn, chan, of, op, halfCut>>
  BY DEF Initializes, Resumes, TaskInv, Frame, table
<1>2. Opened(Name(t))' = {t} \ halfCut'
  BY <1>1 DEF Opened, OpenFor
<1>3. CASE Stops(t, "listing") /\ UNCHANGED <<why, closing>>
  <2>1. at'[t] = "listing" /\ \A u \in Tasks : u # t => at'[u] = at[u]
    BY <1>3, Moves DEF Stops
  <2>2. Touches(t)
    BY <1>1, <1>3, <2>1 DEF Touches
  <2>3. NamesInv'
    BY <1>1, <1>3, <2>2, OfTask, NamesKept
  <2>4. Uncommitted(t)'
    BY <1>1 DEF Uncommitted, Enabling
  <2> QED BY <1>1, <1>2, <2>1, <2>2, <2>3, <2>4 DEF Local, TaskInv, Work, Steps, Undoing
<1>4. CASE CleanUp(t, "fail")
  <2>1. Opened(Name(t))' \subseteq {conn[of[t]].transport}
    BY <1>1, <1>2
  <2> QED BY <1>1, <1>4, <2>1, FailsLocal
<1> QED BY <1>3, <1>4 DEF Initializes

LEMMA ListsLocal ==
    ASSUME ManagerTypeOK, NamesInv, NEW t \in Tasks, TaskInv(t), Lists(t), Frame
    PROVE  Touches(t) /\ NamesInv' /\ Local(t)'
<1>1. /\ at[t] = "listing" /\ Uncommitted(t) /\ Opened(Name(t)) = {t} \ halfCut
      /\ conn[of[t]].transport = t
      /\ UNCHANGED <<chan, op, halfCut>>
  BY DEF Lists, Resumes, TaskInv, Frame
<1>2. Opened(Name(t))' = {t} \ halfCut'
  BY <1>1 DEF Opened, OpenFor
<1>3. CASE /\ Becomes(t, "CONNECTED")
           /\ Ends(t, "returned")
           /\ servers' = IF Enabling(t) THEN servers
                         ELSE [servers EXCEPT ![Name(t)] = of[t]]
  <2>1. /\ at'[t] = "returned" /\ of'[t] = t /\ closing'[t] = t
        /\ \A u \in Tasks : u # t => at'[u] = at[u] /\ of'[u] = of[u]
                                     /\ why'[u] = why[u] /\ closing'[u] = closing[u]
    BY <1>3, EndsEffect
  <2>2. /\ conn'[of[t]].transport = t /\ conn'[of[t]].state = "CONNECTED"
        /\ \A j \in Conns : j # of[t] => conn'[j] = conn[j]
    BY <1>1, <1>3, OfTask, WritesState DEF Rest1, Becomes
  <2>3. /\ servers'[Name(t)] = of[t]
        /\ \A m \in Names : m # Name(t) => servers'[m] = servers[m]
    BY <1>1, <1>3, OfTask DEF Uncommitted, ManagerTypeOK
  <2>4. Touches(t)
    BY <1>1, <2>1, <2>2, <2>3, OfTask DEF Touches
  <2>5. NamesInv'
    BY <1>1, <2>1, <2>2, <2>3, <2>4, OfTask, NamesStep
  <2>6. of[t] # Nothing
    BY OfTask, TasksAre
  <2>7. InOrder(Name(t))'
    BY <1>2, <2>2, <2>3, <2>6, OfTask DEF InOrder, Live, Known
  <2> QED BY <2>1, <2>4, <2>5, <2>7, EndsLocal
<1>4. CASE CleanUp(t, "fail") /\ UNCHANGED <<servers, conn, of>>
  <2>1. Opened(Name(t))' \subseteq {conn[of[t]].transport}
    BY <1>1, <1>2
  <2> QED BY <1>1, <1>4, <2>1, FailsLocal
<1> QED BY <1>3, <1>4 DEF Lists

(* The names are in order after a step that left their things alone.       *)
LEMMA InOrderKept ==
    ASSUME NEW n \in Names, InOrder(n), UNCHANGED <<servers, conn, chan, halfCut>>
    PROVE  InOrder(n)'
BY DEF InOrder, Opened, OpenFor, Live, Known

(* A cancellation, wherever it reaches a task.                             *)
LEMMA InterruptedLocal ==
    ASSUME ManagerTypeOK, NamesInv, NEW t \in Tasks, Local(t), Interrupted(t)
    PROVE  Touches(t) /\ NamesInv' /\ Local(t)'
<1>1. TaskInv(t) /\ UNCHANGED <<servers, conn, op>>
  BY DEF Local, Interrupted, table, calls
<1>2. CASE /\ at[t] \in {"created", "consent"} /\ Ends(t, "raised")
           /\ UNCHANGED <<chan, halfCut>>
  <2>1. /\ at'[t] = "raised" /\ of'[t] = t /\ closing'[t] = t
        /\ \A u \in Tasks : u # t => at'[u] = at[u] /\ of'[u] = of[u]
                                     /\ why'[u] = why[u] /\ closing'[u] = closing[u]
    BY <1>2, EndsEffect
  <2>2. Touches(t)
    BY <1>1, <1>2, <2>1 DEF Touches
  <2>3. NamesInv'
    BY <1>1, <2>1, <2>2, NamesKept
  <2>4. InOrder(Name(t))'
    BY <1>1, <1>2, OfTask, InOrderKept DEF Local, Work, Steps
  <2> QED BY <2>1, <2>2, <2>3, <2>4, EndsLocal
<1>3. CASE /\ at[t] = "opening" /\ chan' = [chan EXCEPT ![t] = "shut"]
           /\ CleanUp(t, "fail") /\ UNCHANGED <<of, halfCut>>
  <2>1. Uncommitted(t) /\ Opened(Name(t)) = {}
    BY <1>1, <1>3 DEF TaskInv
  <2>2. chan'[t] = "shut" /\ \A k \in Conns : k # t => chan'[k] = chan[k]
    BY <1>3, OfTask DEF ManagerTypeOK
  <2>3. Opened(Name(t))' = {}
    BY <1>3, <2>1, <2>2 DEF Opened, OpenFor
  <2> QED BY <1>1, <1>3, <2>1, <2>2, <2>3, FailsLocal
<1>4. CASE /\ at[t] \in {"handshake", "listing"}
           /\ CleanUp(t, "fail") /\ UNCHANGED <<chan, of, halfCut>>
  <2>1. Uncommitted(t) /\ Opened(Name(t)) = {t} \ halfCut /\ conn[of[t]].transport = t
    BY <1>1, <1>4 DEF TaskInv
  <2>2. Opened(Name(t))' \subseteq {conn[of[t]].transport}
    BY <1>4, <2>1 DEF Opened, OpenFor
  <2> QED BY <1>1, <1>4, <2>1, <2>2, FailsLocal
<1> DEFINE x == conn[of[t]].transport
           z == IF at[t] = "exitTransport" THEN closing[t] ELSE x
<1>5. CASE /\ at[t] \in {"exitSession", "exitTransport"}
           /\ IF why[t] = "fail"
              THEN Goes(t, "cleaned") /\ UNCHANGED <<of, why, closing>>
              ELSE Ends(t, "raised")
           /\ halfCut' = halfCut \cup ({z} \ {Nothing})
           /\ \/ UNCHANGED chan
              \/ chan' = [chan EXCEPT ![z] = "shut"]
  <2>1. /\ Purpose(t) /\ Opened(Name(t)) \subseteq {x}
        /\ at[t] = "exitTransport" => closing[t] = x
    BY <1>1, <1>5 DEF TaskInv, Undoing
  <2>2. z = x
    BY <2>1
  <2>3. x # Nothing => x \in Conns /\ Name(x) = Name(t)
    BY OfTask DEF ManagerTypeOK, NamesInv
  <2> HIDE DEF x, z
  <2>4. \A k \in Conns : k # x => chan'[k] = chan[k] /\ (k \in halfCut' <=> k \in halfCut)
    BY <1>5, <2>2 DEF ManagerTypeOK
  <2>8. \A k \in Conns : Name(k) # Name(t) =>
           conn'[k] = conn[k] /\ chan'[k] = chan[k] /\ (k \in halfCut' <=> k \in halfCut)
    BY <1>1, <2>3, <2>4, TasksAre
  <2>5. Opened(Name(t))' = {}
    <3>1. \A k : k \in Opened(Name(t))' <=>
             k \in Conns /\ Name(k) = Name(t) /\ chan'[k] = "open" /\ k \notin halfCut'
      BY DEF Opened, OpenFor
    <3>2. \A k \in Conns : k # x => ~ (Name(k) = Name(t) /\ chan[k] = "open" /\ k \notin halfCut)
      BY <2>1, OpenedIs
    <3>3. x \in Conns => x \in halfCut'
      BY <1>5, <2>2, TasksAre
    <3> QED BY <2>4, <3>1, <3>2, <3>3
  <2>6. CASE why[t] = "fail"
    <3>1. at' = [at EXCEPT ![t] = "cleaned"] /\ UNCHANGED <<of, why, closing>>
      BY <1>5, <2>6 DEF Goes
    <3>2. at'[t] = "cleaned" /\ \A u \in Tasks : u # t => at'[u] = at[u]
      BY <3>1, Moves
    <3>3. Touches(t)
      BY <1>1, <2>8, <3>1, <3>2 DEF Touches
    <3>4. NamesInv'
      BY <1>1, <3>1, <3>3, OfTask, NamesKept
    <3>5. Purpose(t)'
      BY <1>1, <2>1, <2>6, <3>1, <3>2 DEF Purpose, Uncommitted, Enabling
    <3> QED BY <2>5, <3>2, <3>3, <3>4, <3>5 DEF Local, TaskInv, Work, Steps, Undoing
  <2>7. CASE why[t] # "fail"
    <3>0. Ends(t, "raised")
      BY <1>5, <2>7
    <3>1. /\ at'[t] = "raised" /\ of'[t] = t /\ closing'[t] = t
          /\ \A u \in Tasks : u # t => at'[u] = at[u] /\ of'[u] = of[u]
                                       /\ why'[u] = why[u] /\ closing'[u] = closing[u]
      BY <3>0, EndsEffect
    <3>2. Touches(t)
      BY <1>1, <2>8, <3>1 DEF Touches
    <3>3. NamesInv'
      BY <1>1, <3>1, <3>2, NamesKept
    <3>4. CASE why[t] = "disable"
      <4>1. servers[Name(t)] = of[t] /\ (conn[of[t]].state = "CONNECTED" => x # Nothing)
        BY <1>5, <2>1, <3>4 DEF Purpose, x
      <4>2. x # Nothing => x \in halfCut'
        BY <1>5, <2>2
      <4>3. Live(Name(t))' => x # Nothing
        BY <1>1, <4>1 DEF Live
      <4>4. conn'[servers'[Name(t)]].transport = x
        BY <1>1, <4>1 DEF x
      <4>5. InOrder(Name(t))'
        BY <2>5, <4>2, <4>3, <4>4 DEF InOrder
      <4> QED BY <3>1, <3>2, <3>3, <4>5, EndsLocal
    <3>5. CASE why[t] # "disable"
      <4>1. servers[Name(t)] = Nothing
        BY <2>1, <2>7, <3>5 DEF Purpose, ManagerTypeOK
      <4>2. ~Live(Name(t))'
        BY <1>1, <4>1 DEF Live, Known
      <4> QED BY <2>5, <3>1, <3>2, <3>3, <4>2, OfTask, NothingInOrder, EndsLocal
    <3> QED BY <3>4, <3>5
  <2> QED BY <2>6, <2>7
<1> QED BY <1>2, <1>3, <1>4, <1>5 DEF Interrupted

(* A task that has not begun takes its server out of the table, connects   *)
(* it, mutes it or unmutes it.                                             *)
LEMMA EvictLocal ==
    ASSUME ManagerTypeOK, NamesInv, NEW t \in Tasks, Local(t), at[t] \notin Work,
           NEW for \in {"replace", "disconnect"}, Evict(t, for), halfCut' = halfCut,
           ~Enabling(t)'
    PROVE  Touches(t) /\ NamesInv' /\ Local(t)'
<1>1. InOrder(Name(t)) /\ of[t] = t /\ UNCHANGED <<conn, chan, halfCut>>
  BY DEF Local, TaskInv, Evict
<1>2. /\ servers'[Name(t)] = Nothing
      /\ \A m \in Names : m # Name(t) => servers'[m] = servers[m]
  BY OfTask DEF Evict, ManagerTypeOK
<1>3. Opened(Name(t))' = Opened(Name(t))
  BY <1>1 DEF Opened, OpenFor
<1>4. CASE Known(Name(t))
  <2>0. of' = [of EXCEPT ![t] = servers[Name(t)]] /\ CleanUp(t, for)
    BY <1>4 DEF Evict
  <2>1. of'[t] = servers[Name(t)] /\ \A u \in Tasks : u # t => of'[u] = of[u]
    BY <2>0 DEF ManagerTypeOK
  <2>2. /\ at'[t] = "cleaning" /\ why'[t] = for /\ closing' = closing
        /\ \A u \in Tasks : u # t => at'[u] = at[u] /\ why'[u] = why[u]
    BY <2>0, CleanUpEffect
  <2>3. Name(of'[t]) = Name(t)
    BY <1>4, <2>1, OfTask DEF NamesInv
  <2>4. Touches(t)
    BY <1>1, <1>2, <2>1, <2>2 DEF Touches
  <2>5. NamesInv'
    BY <1>1, <1>2, <2>2, <2>3, <2>4, OfTask, NamesStep
  <2>6. Purpose(t)'
    BY <1>2, <2>2 DEF Purpose
  <2>7. Opened(Name(t)) \subseteq {conn[servers[Name(t)]].transport}
    BY <1>1 DEF InOrder
  <2>8. Opened(Name(t))' \subseteq {conn'[of'[t]].transport}
    BY <1>1, <1>3, <2>1, <2>7
  <2> QED BY <2>2, <2>4, <2>5, <2>6, <2>8 DEF Local, TaskInv, Work, Steps, Undoing
<1>5. CASE ~Known(Name(t))
  <2>1. at' = [at EXCEPT ![t] = "returned"] /\ UNCHANGED <<of, why, closing>>
    BY <1>5 DEF Evict
  <2>2. at'[t] = "returned" /\ \A u \in Tasks : u # t => at'[u] = at[u]
    BY <2>1, Moves
  <2>3. Touches(t)
    BY <1>1, <1>2, <2>1, <2>2 DEF Touches
  <2>4. NamesInv'
    BY <1>1, <1>2, <2>1, <2>3, OfTask, NamesStep
  <2>5. Opened(Name(t))' = {}
    BY <1>1, <1>3, <1>5 DEF InOrder, Live
  <2>6. ~Live(Name(t))'
    BY <1>2 DEF Live, Known
  <2> QED BY <1>1, <2>1, <2>2, <2>3, <2>4, <2>5, <2>6, OfTask, NothingInOrder, EndsLocal
<1> QED BY <1>4, <1>5

LEMMA ConnectsLocal ==
    ASSUME ManagerTypeOK, NamesInv, NEW t \in Tasks, Local(t), at[t] \notin Work,
           Connects(t), halfCut' = halfCut, ~Enabling(t)'
    PROVE  Touches(t) /\ NamesInv' /\ Local(t)'
<1>1. CASE Known(Name(t))
  BY <1>1, EvictLocal DEF Connects
<1>2. CASE ~Known(Name(t))
  <2>1. /\ at' = [at EXCEPT ![t] = "dialing"] /\ of' = [of EXCEPT ![t] = t]
        /\ UNCHANGED <<servers, conn, chan, why, closing>>
    BY <1>2 DEF Connects, Goes, table
  <2>2. at'[t] = "dialing" /\ \A u \in Tasks : u # t => at'[u] = at[u]
    BY <2>1, Moves
  <2>3. of'[t] = t /\ \A u \in Tasks : u # t => of'[u] = of[u]
    BY <2>1 DEF ManagerTypeOK
  <2>4. Touches(t)
    BY <2>1, <2>2, <2>3 DEF Touches
  <2>5. NamesInv'
    BY <2>1, <2>3, <2>4, OfTask, NamesKept
  <2>6. Uncommitted(t)'
    BY <1>2, <2>1 DEF Uncommitted, Known
  <2>7. Opened(Name(t))' = {}
    <3>1. Opened(Name(t)) = {}
      BY <1>2 DEF Local, InOrder, Live
    <3> QED BY <2>1, <3>1 DEF Opened, OpenFor
  <2> QED BY <2>2, <2>4, <2>5, <2>6, <2>7 DEF Local, TaskInv, Work, Steps, Undoing
<1> QED BY <1>1, <1>2

LEMMA ConsentsLocal ==
    ASSUME ManagerTypeOK, NamesInv, NEW t \in Tasks, Local(t), Consents(t), Frame,
           ~Enabling(t)
    PROVE  Touches(t) /\ NamesInv' /\ Local(t)'
<1>1. at[t] = "consent" /\ at[t] \notin Work /\ halfCut' = halfCut /\ ~Enabling(t)'
  BY DEF Consents, Resumes, Work, Steps, Frame, Enabling
<1>2. CASE Connects(t)
  BY <1>1, <1>2, ConnectsLocal
<1>3. CASE Ends(t, "returned") /\ UNCHANGED <<table, conn, chan>>
  <2>1. /\ at'[t] = "returned" /\ of'[t] = t /\ closing'[t] = t
        /\ \A u \in Tasks : u # t => at'[u] = at[u] /\ of'[u] = of[u]
                                     /\ why'[u] = why[u] /\ closing'[u] = closing[u]
    BY <1>3, EndsEffect
  <2>2. Touches(t)
    BY <1>1, <1>3, <2>1 DEF Touches, table
  <2>3. NamesInv'
    BY <1>3, <2>1, <2>2, NamesKept DEF table
  <2>4. InOrder(Name(t))'
    BY <1>1, <1>3, OfTask, InOrderKept DEF Local, table
  <2> QED BY <2>1, <2>2, <2>3, <2>4, EndsLocal
<1> QED BY <1>2, <1>3 DEF Consents

LEMMA MutesLocal ==
    ASSUME ManagerTypeOK, NamesInv, NEW c \in Callers, NEW n \in Names,
           Local(<<c, n>>), at[<<c, n>>] \notin Work, DisableServer(c, n)
    PROVE  Touches(<<c, n>>) /\ NamesInv' /\ Local(<<c, n>>)'
<1> DEFINE t == <<c, n>>
<1>0. t \in Tasks /\ Name(t) = n
  BY TasksAre
<1>1. /\ Known(n) /\ InOrder(n) /\ CleanUp(t, "disable")
      /\ of' = [of EXCEPT ![t] = servers[n]]
      /\ UNCHANGED <<servers, conn, chan, halfCut>>
  BY <1>0 DEF DisableServer, Local, table, Asks
<1> HIDE DEF t
<1>2. of'[t] = servers[n] /\ \A u \in Tasks : u # t => of'[u] = of[u]
  BY <1>0, <1>1 DEF ManagerTypeOK
<1>3. /\ at'[t] = "cleaning" /\ why'[t] = "disable" /\ closing' = closing
      /\ \A u \in Tasks : u # t => at'[u] = at[u] /\ why'[u] = why[u]
  BY <1>0, <1>1, CleanUpEffect
<1>4. Name(of'[t]) = n
  BY <1>1, <1>2 DEF NamesInv
<1>5. Touches(t)
  BY <1>1, <1>2, <1>3 DEF Touches
<1>6. NamesInv'
  BY <1>0, <1>1, <1>3, <1>4, <1>5, OfTask, NamesKept
<1>7. /\ conn[servers[n]].state = "CONNECTED" => conn[servers[n]].transport # Nothing
      /\ Opened(n) \subseteq {conn[servers[n]].transport}
  BY <1>1 DEF InOrder, Live
<1>8. Purpose(t)'
  BY <1>0, <1>1, <1>2, <1>3, <1>7 DEF Purpose
<1>9. Opened(n)' \subseteq {conn'[of'[t]].transport}
  <2>1. Opened(n)' = Opened(n)
    BY <1>1 DEF Opened, OpenFor
  <2> QED BY <1>1, <1>2, <1>7, <2>1
<1>10. Local(t)'
  BY <1>0, <1>3, <1>8, <1>9 DEF Local, TaskInv, Work, Steps, Undoing
<1> QED BY <1>5, <1>6, <1>10 DEF t

LEMMA UnmutesLocal ==
    ASSUME ManagerTypeOK, NamesInv, NEW c \in Callers, NEW n \in Names,
           Local(<<c, n>>), at[<<c, n>>] \notin Work, EnableServer(c, n)
    PROVE  Touches(<<c, n>>) /\ NamesInv' /\ Local(<<c, n>>)'
<1> DEFINE t == <<c, n>>
<1>0. t \in Tasks /\ Name(t) = n /\ Caller(t) = c
  BY TasksAre
<1>1. /\ Known(n) /\ InOrder(n) /\ conn[servers[n]].state = "DISABLED"
      /\ of' = [of EXCEPT ![t] = servers[n]]
      /\ conn' = [conn EXCEPT ![servers[n]].state = "PENDING"]
      /\ at' = [at EXCEPT ![t] = "dialing"]
      /\ op' = [op EXCEPT ![c] = "enable"]
      /\ UNCHANGED <<servers, chan, halfCut, why, closing>>
  BY <1>0 DEF EnableServer, Local, table, Asks, Goes
<1> HIDE DEF t
<1>2. of'[t] = servers[n] /\ \A u \in Tasks : u # t => of'[u] = of[u]
  BY <1>0, <1>1 DEF ManagerTypeOK
<1>3. at'[t] = "dialing" /\ \A u \in Tasks : u # t => at'[u] = at[u]
  BY <1>0, <1>1, Moves
<1>4. servers[n] \in Conns /\ Name(servers[n]) = n
  BY <1>1 DEF Known, NamesInv, ManagerTypeOK
<1>5. /\ conn'[servers[n]].transport = conn[servers[n]].transport
      /\ conn'[servers[n]].state = "PENDING"
      /\ \A j \in Conns : j # servers[n] => conn'[j] = conn[j]
  BY <1>1, <1>4, WritesState DEF Rest1
<1>6. Touches(t)
  BY <1>0, <1>1, <1>2, <1>3, <1>4, <1>5 DEF Touches
<1>7. NamesInv'
  BY <1>0, <1>1, <1>2, <1>4, <1>5, <1>6, OfTask, NamesKept
<1>8. op'[c] = "enable"
  BY <1>1 DEF ManagerTypeOK
<1>9. Uncommitted(t)'
  BY <1>0, <1>1, <1>2, <1>5, <1>8 DEF Uncommitted, Enabling
<1>10. Opened(n)' = {}
  <2>1. Opened(n) = {}
    BY <1>1 DEF InOrder, Live
  <2> QED BY <1>1, <2>1 DEF Opened, OpenFor
<1>11. Local(t)'
  BY <1>0, <1>3, <1>9, <1>10 DEF Local, TaskInv, Work, Steps, Undoing
<1> QED BY <1>6, <1>7, <1>11 DEF t

(* What a caller's tasks may be doing, by its call and where that is.      *)
CallInv ==
    /\ \A c \in Callers :
          /\ op[c] = "none" => phase[c] = "none" /\ \A t \in Of(c) : at[t] = "none"
          /\ op[c] \in Single => phase[c] = "none"
          /\ op[c] = "connect_all" => phase[c] # "none"
          /\ op[c] = "disconnect_all" => phase[c] \in {"drop", "returned", "raised"}
          /\ phase[c] \in {"returned", "raised"} => \A t \in Of(c) : ~Active(t)
    /\ \A t \in Tasks : /\ at[t] = "consent" => op[Caller(t)] = "oauth"
                        /\ at[t] = "created" => op[Caller(t)] = "connect_all"

(* Two calls under way work on servers of their own.                       *)
ApartInv ==
    \A c, d \in Callers : c # d /\ Busy(c) /\ Busy(d) =>
       /\ op[c] \in Single /\ op[d] \in Single
       /\ \A n \in Names : ~ (Active(<<c, n>>) /\ Active(<<d, n>>))

LEMMA OfCaller ==
    \A c, t : t \in Of(c) <=> t \in Tasks /\ Caller(t) = c
BY DEF Of

LEMMA ActiveBusy ==
    ASSUME CallInv, NEW t \in Tasks, Active(t)
    PROVE  Busy(Caller(t))
<1> DEFINE c == Caller(t)
<1>1. c \in Callers /\ t \in Of(c)
  BY TasksAre, OfCaller
<1>2. op[c] # "none"
  BY <1>1 DEF CallInv, Active, Waits, Steps
<1>3. phase[c] \notin {"returned", "raised"}
  BY <1>1 DEF CallInv
<1> QED BY <1>1, <1>2, <1>3 DEF Busy, Over

LEMMA TaskAlone ==
    ASSUME CallInv, ApartInv, NEW t \in Tasks, Active(t)
    PROVE  Alone1(t)
<1> SUFFICES ASSUME NEW u \in Tasks, u # t, Name(u) = Name(t), at[u] \in Work PROVE FALSE
  BY DEF Alone1
<1>1. Active(u)
  BY DEF Active, Work, Waits, Steps
<1>2. Busy(Caller(t)) /\ Busy(Caller(u))
  BY <1>1, ActiveBusy
<1>3. /\ Caller(t) \in Callers /\ Caller(u) \in Callers /\ Name(t) \in Names
      /\ t = <<Caller(t), Name(t)>> /\ u = <<Caller(u), Name(t)>>
  BY TasksAre
<1>4. Caller(u) # Caller(t)
  BY <1>3
<1>5. ~ (Active(<<Caller(t), Name(t)>>) /\ Active(<<Caller(u), Name(t)>>))
  BY <1>2, <1>3, <1>4 DEF ApartInv
<1> QED BY <1>1, <1>3, <1>5

(* A step of a task begins no call and ends none that counts its steps.    *)
LEMMA TaskCalls ==
    ASSUME CallInv, ApartInv, NEW t \in Tasks, Active(t), UNCHANGED <<op, phase>>,
           \A u \in Tasks : u # t => at'[u] = at[u],
           at'[t] \notin {"consent", "created"}
    PROVE  CallInv' /\ ApartInv'
<1>1. \A u \in Tasks : Active(u)' => Active(u)
  BY DEF Active
<1>2. Caller(t) \in Callers /\ op[Caller(t)] # "none"
  BY ActiveBusy, TasksAre DEF Busy
<1>3. CallInv'
  <2>1. ASSUME NEW c \in Callers, op'[c] = "none"
        PROVE  phase'[c] = "none" /\ \A u \in Of(c) : at'[u] = "none"
    <3>1. \A u \in Of(c) : u \in Tasks /\ u # t
      BY <1>2, <2>1, OfCaller
    <3> QED BY <2>1, <3>1 DEF CallInv
  <2>2. ASSUME NEW c \in Callers, phase'[c] \in {"returned", "raised"}
        PROVE  \A u \in Of(c) : ~Active(u)'
    BY <1>1, <2>2, OfCaller DEF CallInv
  <2>3. \A u \in Tasks : /\ at'[u] = "consent" => op'[Caller(u)] = "oauth"
                         /\ at'[u] = "created" => op'[Caller(u)] = "connect_all"
    BY DEF CallInv
  <2>4. \A c \in Callers :
          /\ op'[c] \in Single => phase'[c] = "none"
          /\ op'[c] = "connect_all" => phase'[c] # "none"
          /\ op'[c] = "disconnect_all" => phase'[c] \in {"drop", "returned", "raised"}
    BY DEF CallInv
  <2> QED BY <2>1, <2>2, <2>3, <2>4 DEF CallInv
<1>4. \A c \in Callers : Busy(c)' => Busy(c)
  <2>1. \A c \in Callers : Over(c) => Over(c)'
    BY <1>1, OfCaller DEF Over
  <2> QED BY <2>1 DEF Busy
<1>5. ApartInv'
  <2> SUFFICES ASSUME NEW c \in Callers, NEW d \in Callers, c # d, Busy(c)', Busy(d)'
               PROVE  /\ op'[c] \in Single /\ op'[d] \in Single
                      /\ \A n \in Names : ~ (Active(<<c, n>>)' /\ Active(<<d, n>>)')
    BY DEF ApartInv
  <2>1. /\ op[c] \in Single /\ op[d] \in Single
        /\ \A n \in Names : ~ (Active(<<c, n>>) /\ Active(<<d, n>>))
    BY <1>4 DEF ApartInv
  <2>2. \A n \in Names : <<c, n>> \in Tasks /\ <<d, n>> \in Tasks
    BY TasksAre
  <2> QED BY <1>1, <2>1, <2>2
<1> QED BY <1>3, <1>5

(* A call that begins keeps off the servers of the calls under way.        *)
LEMMA AskedAlone ==
    ASSUME ManagerTypeOK, CallInv, ~Overlap, NEW c \in Callers, NEW what, NEW S,
           Asks(c, what, S)
    PROVE  /\ op[c] = "none" /\ \A t \in Of(c) : at[t] = "none"
           /\ op'[c] = what /\ \A d \in Callers : d # c => op'[d] = op[d]
           /\ \A d \in Callers : d # c /\ Busy(d) =>
                 op[d] \in Single /\ \A n \in S : ~Active(<<d, n>>)
           /\ \A u \in Tasks : at[u] \in Work => op'[Caller(u)] = op[Caller(u)]
<1>1. op[c] = "none" /\ \A t \in Of(c) : at[t] = "none"
  BY DEF Asks, CallInv
<1>2. op'[c] = what /\ \A d \in Callers : d # c => op'[d] = op[d]
  BY DEF Asks, ManagerTypeOK
<1>3. \A d \in Callers : d # c /\ Busy(d) => op[d] \in Single /\ \A n \in S : ~Active(<<d, n>>)
  BY DEF Asks, Alone
<1>4. \A u \in Tasks : at[u] \in Work => op'[Caller(u)] = op[Caller(u)]
  <2> SUFFICES ASSUME NEW u \in Tasks, at[u] \in Work PROVE Caller(u) # c
    BY <1>2, TasksAre
  <2>1. at[u] # "none"
    BY DEF Work, Steps
  <2> QED BY <1>1, <2>1, OfCaller
<1> QED BY <1>1, <1>2, <1>3, <1>4

(* A call on one server.                                                   *)
LEMMA AskCalls ==
    ASSUME ManagerTypeOK, CallInv, ApartInv, ~Overlap, NEW c \in Callers, NEW n \in Names,
           NEW what \in Single, Asks(c, what, {n}), phase' = phase,
           \A u \in Tasks : u # <<c, n>> => at'[u] = at[u],
           at'[<<c, n>>] # "created", at'[<<c, n>>] = "consent" => what = "oauth"
    PROVE  /\ CallInv' /\ ApartInv' /\ Alone1(<<c, n>>) /\ at[<<c, n>>] \notin Work
           /\ \A u \in Tasks : at[u] \in Work => op'[Caller(u)] = op[Caller(u)]
<1> DEFINE t == <<c, n>>
<1>1. /\ op[c] = "none" /\ \A u \in Of(c) : at[u] = "none"
      /\ op'[c] = what /\ \A d \in Callers : d # c => op'[d] = op[d]
      /\ \A d \in Callers : d # c /\ Busy(d) => op[d] \in Single /\ ~Active(<<d, n>>)
      /\ \A u \in Tasks : at[u] \in Work => op'[Caller(u)] = op[Caller(u)]
  BY AskedAlone
<1>2. t \in Tasks /\ Caller(t) = c /\ Name(t) = n /\ t \in Of(c)
  BY TasksAre, OfCaller
<1>3. at[t] = "none" /\ phase[c] = "none"
  BY <1>1, <1>2 DEF CallInv
<1>4. at[t] \notin Work
  BY <1>3 DEF Work, Steps
<1>5. \A u \in Tasks : Caller(u) # c => at'[u] = at[u]
  BY <1>2
<1>6. \A u \in Tasks : Caller(u) = c /\ u # t => at'[u] = "none"
  BY <1>1, OfCaller
<1>7. Alone1(t)
  <2> SUFFICES ASSUME NEW u \in Tasks, u # t, Name(u) = n, at[u] \in Work PROVE FALSE
    BY <1>2 DEF Alone1
  <2>1. Active(u) /\ at[u] # "none"
    BY DEF Active, Work, Waits, Steps
  <2>2. u = <<Caller(u), n>> /\ Caller(u) \in Callers
    BY TasksAre
  <2>3. Busy(Caller(u))
    BY <2>1, ActiveBusy
  <2> QED BY <1>1, <2>1, <2>2, <2>3
<1>8. CallInv'
  <2>1. ASSUME NEW d \in Callers
        PROVE  /\ op'[d] = "none" => phase'[d] = "none" /\ \A u \in Of(d) : at'[u] = "none"
               /\ op'[d] \in Single => phase'[d] = "none"
               /\ op'[d] = "connect_all" => phase'[d] # "none"
               /\ op'[d] = "disconnect_all" => phase'[d] \in {"drop", "returned", "raised"}
               /\ phase'[d] \in {"returned", "raised"} => \A u \in Of(d) : ~Active(u)'
    <3>1. CASE d = c
      BY <1>1, <1>3, <3>1 DEF Single
    <3>2. CASE d # c
      <4>1. op'[d] = op[d] /\ \A u \in Of(d) : at'[u] = at[u]
        BY <1>1, <1>5, <3>2, OfCaller
      <4> QED BY <4>1 DEF CallInv, Active
    <3> QED BY <3>1, <3>2
  <2>2. ASSUME NEW u \in Tasks
        PROVE  /\ at'[u] = "consent" => op'[Caller(u)] = "oauth"
               /\ at'[u] = "created" => op'[Caller(u)] = "connect_all"
    <3>1. CASE u = t
      BY <1>1, <1>2, <3>1
    <3>2. CASE u # t /\ Caller(u) = c
      BY <1>6, <3>2
    <3>3. CASE Caller(u) # c
      <4>1. Caller(u) \in Callers /\ at'[u] = at[u]
        BY <1>5, <3>3, TasksAre
      <4> QED BY <1>1, <3>3, <4>1 DEF CallInv
    <3> QED BY <3>1, <3>2, <3>3
  <2> QED BY <2>1, <2>2 DEF CallInv
<1>9. ApartInv'
  <2>1. \A d \in Callers : d # c => (Busy(d)' <=> Busy(d)) /\ op'[d] = op[d]
    BY <1>1, <1>5, OfCaller DEF Busy, Over, Active
  <2>2. \A d \in Callers, m \in Names : d # c => (Active(<<d, m>>)' <=> Active(<<d, m>>))
    BY <1>5, TasksAre DEF Active
  <2>3. \A m \in Names : Active(<<c, m>>)' => m = n
    <3> SUFFICES ASSUME NEW m \in Names, m # n PROVE at'[<<c, m>>] = "none"
      BY DEF Active, Waits, Steps
    <3> QED BY <1>6, TasksAre
  <2>4. \A d \in Callers : d # c /\ Busy(d)' =>
           /\ op'[c] \in Single /\ op'[d] \in Single
           /\ \A m \in Names : ~ (Active(<<c, m>>)' /\ Active(<<d, m>>)')
    BY <1>1, <2>1, <2>2, <2>3
  <2> QED BY <2>1, <2>2, <2>4 DEF ApartInv
<1> QED BY <1>1, <1>4, <1>7, <1>8, <1>9

(* A call on every server begins when no other call is under way.          *)
LEMMA AskAllAlone ==
    ASSUME ManagerTypeOK, CallInv, ~Overlap, NEW c \in Callers, NEW what,
           Asks(c, what, Names)
    PROVE  \A d \in Callers : d # c => ~Busy(d)
<1> SUFFICES ASSUME NEW d \in Callers, d # c, Busy(d) PROVE FALSE
  OBVIOUS
<1>1. op[d] \in Single /\ \A n \in Names : ~Active(<<d, n>>)
  BY AskedAlone
<1>2. PICK t \in Of(d) : Active(t)
  BY <1>1 DEF Busy, Over
<1>3. t = <<d, Name(t)>> /\ Name(t) \in Names
  BY TasksAre, OfCaller
<1> QED BY <1>1, <1>2, <1>3

LEMMA AskAllCalls ==
    ASSUME ManagerTypeOK, CallInv, ApartInv, ~Overlap, NEW c \in Callers,
           NEW what, NEW next, Asks(c, what, Names),
           <<what, next>> \in {<<"connect_all", "gather">>, <<"disconnect_all", "drop">>},
           phase' = [phase EXCEPT ![c] = next],
           \A u \in Tasks : at'[u] = at[u] \/ (Caller(u) = c /\ at'[u] = "created"),
           what = "disconnect_all" => at' = at
    PROVE  /\ CallInv' /\ ApartInv'
           /\ \A u \in Tasks : at[u] \in Work => op'[Caller(u)] = op[Caller(u)]
<1>1. /\ op[c] = "none" /\ \A u \in Of(c) : at[u] = "none"
      /\ op'[c] = what /\ \A d \in Callers : d # c => op'[d] = op[d]
      /\ \A u \in Tasks : at[u] \in Work => op'[Caller(u)] = op[Caller(u)]
  BY AskedAlone
<1>2. phase'[c] = next /\ \A d \in Callers : d # c => phase'[d] = phase[d]
  BY DEF ManagerTypeOK
<1>3. what \in {"connect_all", "disconnect_all"} /\ next \in {"gather", "drop"}
      /\ (what = "disconnect_all" => next = "drop")
  OBVIOUS
<1>4. CallInv'
  <2>1. ASSUME NEW d \in Callers
        PROVE  /\ op'[d] = "none" => phase'[d] = "none" /\ \A u \in Of(d) : at'[u] = "none"
               /\ op'[d] \in Single => phase'[d] = "none"
               /\ op'[d] = "connect_all" => phase'[d] # "none"
               /\ op'[d] = "disconnect_all" => phase'[d] \in {"drop", "returned", "raised"}
               /\ phase'[d] \in {"returned", "raised"} => \A u \in Of(d) : ~Active(u)'
    <3>1. CASE d = c
      BY <1>1, <1>2, <1>3, <3>1 DEF Single
    <3>2. CASE d # c
      <4>1. op'[d] = op[d] /\ phase'[d] = phase[d] /\ \A u \in Of(d) : at'[u] = at[u]
        BY <1>1, <1>2, <3>2, OfCaller
      <4> QED BY <4>1 DEF CallInv, Active
    <3> QED BY <3>1, <3>2
  <2>2. ASSUME NEW u \in Tasks
        PROVE  /\ at'[u] = "consent" => op'[Caller(u)] = "oauth"
               /\ at'[u] = "created" => op'[Caller(u)] = "connect_all"
    <3>1. CASE Caller(u) = c
      <4>1. at[u] = "none"
        BY <1>1, <3>1, OfCaller
      <4> QED BY <1>1, <1>3, <3>1, <4>1
    <3>2. CASE Caller(u) # c
      <4>1. Caller(u) \in Callers /\ at'[u] = at[u]
        BY <3>2, TasksAre
      <4> QED BY <1>1, <3>2, <4>1 DEF CallInv
    <3> QED BY <3>1, <3>2
  <2> QED BY <2>1, <2>2 DEF CallInv
<1>5. ApartInv'
  <2>1. \A d \in Callers : d # c => ~Busy(d)
    BY AskAllAlone
  <2>2. \A d \in Callers : d # c => ~Busy(d)'
    <3> SUFFICES ASSUME NEW d \in Callers, d # c PROVE Busy(d)' <=> Busy(d)
      BY <2>1
    <3>1. op'[d] = op[d] /\ phase'[d] = phase[d] /\ \A u \in Of(d) : at'[u] = at[u]
      BY <1>1, <1>2, OfCaller
    <3> QED BY <3>1 DEF Busy, Over, Active
  <2> QED BY <2>2 DEF ApartInv
<1> QED BY <1>1, <1>4, <1>5

(* A call moves on, and no task with it.                                   *)
LEMMA SettlesCalls ==
    ASSUME ManagerTypeOK, CallInv, ApartInv, NEW c \in Callers, NEW next,
           phase' = [phase EXCEPT ![c] = next], UNCHANGED <<op, at>>,
           phase[c] \in {"gather", "drain", "drop"},
           next \in {"drain", "drop", "returned", "raised"},
           next = "drain" => phase[c] = "gather",
           next \in {"returned", "raised"} => \A t \in Of(c) : ~Active(t)
    PROVE  CallInv' /\ ApartInv'
<1>1. phase'[c] = next /\ \A d \in Callers : d # c => phase'[d] = phase[d]
  BY DEF ManagerTypeOK
<1>2. op[c] \notin Single \cup {"none"}
  BY DEF CallInv
<1>3. CallInv'
  <2>1. ASSUME NEW d \in Callers
        PROVE  /\ op'[d] = "none" => phase'[d] = "none" /\ \A u \in Of(d) : at'[u] = "none"
               /\ op'[d] \in Single => phase'[d] = "none"
               /\ op'[d] = "connect_all" => phase'[d] # "none"
               /\ op'[d] = "disconnect_all" => phase'[d] \in {"drop", "returned", "raised"}
               /\ phase'[d] \in {"returned", "raised"} => \A u \in Of(d) : ~Active(u)'
    <3>1. CASE d = c
      BY <1>1, <1>2, <3>1 DEF CallInv, Active
    <3>2. CASE d # c
      BY <1>1, <3>2 DEF CallInv, Active
    <3> QED BY <3>1, <3>2
  <2>2. \A u \in Tasks : /\ at'[u] = "consent" => op'[Caller(u)] = "oauth"
                         /\ at'[u] = "created" => op'[Caller(u)] = "connect_all"
    BY DEF CallInv
  <2> QED BY <2>1, <2>2 DEF CallInv
<1>4. \A d \in Callers : Busy(d)' => Busy(d)
  <2>1. Busy(c)
    BY <1>2 DEF Busy, Over
  <2>2. \A d \in Callers : d # c => (Busy(d)' <=> Busy(d))
    BY <1>1 DEF Busy, Over, Active
  <2> QED BY <2>1, <2>2
<1>5. \A u : Active(u)' <=> Active(u)
  BY DEF Active
<1> QED BY <1>3, <1>4, <1>5 DEF ApartInv

(* A caller that drops servers one by one takes the next.                  *)
LEMMA DropCalls ==
    ASSUME CallInv, ApartInv, NEW c \in Callers, NEW n \in Names,
           phase[c] = "drop", UNCHANGED <<op, phase>>,
           \A u \in Tasks : u # <<c, n>> => at'[u] = at[u],
           at'[<<c, n>>] \notin {"consent", "created"}
    PROVE  CallInv' /\ ApartInv' /\ Alone1(<<c, n>>)
<1> DEFINE t == <<c, n>>
<1>1. t \in Tasks /\ Caller(t) = c /\ Name(t) = n
  BY TasksAre
<1>2. op[c] \notin Single \cup {"none"} /\ Busy(c)
  BY DEF CallInv, Busy, Over
<1>3. \A d \in Callers : d # c => ~Busy(d)
  BY <1>2 DEF ApartInv
<1>4. \A u \in Tasks : Caller(u) # c => at'[u] = at[u]
  BY <1>1
<1>5. CallInv'
  <2>1. ASSUME NEW d \in Callers
        PROVE  /\ op'[d] = "none" => phase'[d] = "none" /\ \A u \in Of(d) : at'[u] = "none"
               /\ op'[d] \in Single => phase'[d] = "none"
               /\ op'[d] = "connect_all" => phase'[d] # "none"
               /\ op'[d] = "disconnect_all" => phase'[d] \in {"drop", "returned", "raised"}
               /\ phase'[d] \in {"returned", "raised"} => \A u \in Of(d) : ~Active(u)'
    <3>1. CASE d = c
      BY <1>2, <3>1
         DEF CallInv
    <3>2. CASE d # c
      <4>1. \A u \in Of(d) : at'[u] = at[u]
        BY <1>4, <3>2, OfCaller
      <4> QED BY <4>1 DEF CallInv, Active
    <3> QED BY <3>1, <3>2
  <2>2. \A u \in Tasks : /\ at'[u] = "consent" => op'[Caller(u)] = "oauth"
                         /\ at'[u] = "created" => op'[Caller(u)] = "connect_all"
    BY DEF CallInv
  <2> QED BY <2>1, <2>2 DEF CallInv
<1>6. \A d \in Callers : d # c => ~Busy(d)'
  <2> SUFFICES ASSUME NEW d \in Callers, d # c PROVE Busy(d)' <=> Busy(d)
    BY <1>3
  <2>1. \A u \in Of(d) : at'[u] = at[u]
    BY <1>4, OfCaller
  <2> QED BY <2>1 DEF Busy, Over, Active
<1>7. ApartInv'
  BY <1>6 DEF ApartInv
<1>8. Alone1(t)
  <2> SUFFICES ASSUME NEW u \in Tasks, u # t, Name(u) = n, at[u] \in Work PROVE FALSE
    BY <1>1 DEF Alone1
  <2>1. Active(u)
    BY DEF Active, Work, Waits, Steps
  <2>2. u = <<Caller(u), n>> /\ Caller(u) \in Callers /\ Busy(Caller(u))
    BY <2>1, TasksAre, ActiveBusy
  <2> QED BY <1>3, <2>2
<1> QED BY <1>5, <1>7, <1>8

(* Every step of the manager keeps types.                                  *)
LEMMA ConnTyped ==
    ASSUME ManagerTypeOK, NEW k \in Conns
    PROVE  /\ \A x \in Conns \cup {Nothing} :
                 /\ [conn EXCEPT ![k].transport = x] \in
                       [Conns -> [state : ConnStates, transport : Conns \cup {Nothing},
                                  session : Conns \cup {Nothing}]]
                 /\ [conn EXCEPT ![k].session = x] \in
                       [Conns -> [state : ConnStates, transport : Conns \cup {Nothing},
                                  session : Conns \cup {Nothing}]]
           /\ \A s \in ConnStates :
                 [conn EXCEPT ![k].state = s] \in
                       [Conns -> [state : ConnStates, transport : Conns \cup {Nothing},
                                  session : Conns \cup {Nothing}]]
           /\ [conn EXCEPT ![k] = New] \in
                       [Conns -> [state : ConnStates, transport : Conns \cup {Nothing},
                                  session : Conns \cup {Nothing}]]
BY DEF ManagerTypeOK, New, ConnStates

(* The types of a task's own variables, of the table and of the servers,   *)
(* and of the calls.                                                       *)
TaskTypes ==
    /\ at \in [Tasks -> Waits \cup Steps \cup {"none", "created", "returned", "raised"}]
    /\ of \in [Tasks -> Conns]
    /\ why \in [Tasks -> {"replace", "fail", "disconnect", "disable"}]
    /\ closing \in [Tasks -> Conns]
    /\ running \in Tasks \cup {Nothing}

ServerTypes ==
    /\ servers \in [Names -> Conns \cup {Nothing}]
    /\ configs \subseteq Names
    /\ conn \in [Conns -> [state : ConnStates, transport : Conns \cup {Nothing},
                           session : Conns \cup {Nothing}]]
    /\ chan \in [Conns -> {"shut", "opening", "open"}]

CallTypes ==
    /\ op \in [Callers -> Single \cup {"none", "connect_all", "disconnect_all"}]
    /\ phase \in [Callers -> {"none", "gather", "drain", "drop", "returned", "raised"}]
    /\ left \in [Callers -> SUBSET Names]
    /\ stopping \subseteq Tasks
    /\ cancels \in 0..MaxCancels
    /\ late \subseteq Callers /\ halfCut \subseteq Conns

LEMMA TypesAre == ManagerTypeOK <=> TaskTypes /\ ServerTypes /\ CallTypes
BY DEF ManagerTypeOK, TaskTypes, ServerTypes, CallTypes

LEMMA EvictTypes ==
    ASSUME ManagerTypeOK, NEW t \in Tasks,
           NEW for \in {"replace", "fail", "disconnect", "disable"}, Evict(t, for)
    PROVE  TaskTypes' /\ ServerTypes'
<1>1. Name(t) \in Names
  BY TasksAre
<1>2. ServerTypes'
  BY <1>1 DEF ManagerTypeOK, ServerTypes, Evict
<1>3. CASE Known(Name(t))
  <2>1. of' \in [Tasks -> Conns] /\ CleanUp(t, for)
    <3>1. servers[Name(t)] \in Conns
      BY <1>1, <1>3 DEF Known, ManagerTypeOK
    <3>2. of' = [of EXCEPT ![t] = servers[Name(t)]] /\ CleanUp(t, for)
      BY <1>3 DEF Evict
    <3> QED BY <3>1, <3>2 DEF ManagerTypeOK
  <2>2. TaskTypes'
    BY <2>1 DEF CleanUp, Goes, ManagerTypeOK, TaskTypes, Steps
  <2> QED BY <1>2, <2>2
<1>4. CASE ~Known(Name(t))
  <2>1. at' = [at EXCEPT ![t] = "returned"] /\ UNCHANGED <<of, why, closing, running>>
    BY <1>4 DEF Evict
  <2>2. TaskTypes'
    BY <2>1 DEF ManagerTypeOK, TaskTypes
  <2> QED BY <1>2, <2>2
<1> QED BY <1>2, <1>3, <1>4

LEMMA ConnectsTypes ==
    ASSUME ManagerTypeOK, NEW t \in Tasks, Connects(t)
    PROVE  TaskTypes' /\ ServerTypes'
<1>1. CASE Known(Name(t))
  BY <1>1, EvictTypes DEF Connects
<1>2. CASE ~Known(Name(t))
  <2>1. /\ at' = [at EXCEPT ![t] = "dialing"] /\ running' = t
        /\ of' = [of EXCEPT ![t] = t]
        /\ UNCHANGED <<servers, configs, conn, chan, why, closing>>
    BY <1>2 DEF Connects, Goes, table
  <2>2. TaskTypes'
    BY <2>1, TasksAre DEF ManagerTypeOK, TaskTypes, Steps
  <2>3. ServerTypes'
    BY <2>1 DEF ManagerTypeOK, ServerTypes
  <2> QED BY <2>2, <2>3
<1> QED BY <1>1, <1>2

LEMMA EndsTypes ==
    ASSUME ManagerTypeOK, NEW t \in Tasks, NEW how \in {"returned", "raised"}, Ends(t, how)
    PROVE  TaskTypes'
BY TasksAre DEF Ends, Stops, ManagerTypeOK, TaskTypes

LEMMA CleanUpTypes ==
    ASSUME ManagerTypeOK, NEW t \in Tasks,
           NEW for \in {"replace", "fail", "disconnect", "disable"}, CleanUp(t, for),
           of' \in [Tasks -> Conns]
    PROVE  TaskTypes'
BY DEF CleanUp, Goes, ManagerTypeOK, TaskTypes, Steps

LEMMA RunsTypes ==
    ASSUME ManagerTypeOK, NEW t \in Tasks,
           LeaveSession(t) \/ LeaveTransport(t) \/ Cleaned(t) \/ Dial(t)
    PROVE  TaskTypes' /\ ServerTypes'
<1>0. /\ of[t] \in Conns /\ t \in Conns /\ Name(t) \in Names /\ closing[t] \in Conns
      /\ conn[of[t]].transport \in Conns \cup {Nothing}
  BY TasksAre DEF ManagerTypeOK
<1>1. CASE LeaveSession(t)
  <2>1. TaskTypes'
    BY <1>1 DEF LeaveSession, Stops, Goes, ManagerTypeOK, TaskTypes, Waits, Steps
  <2>2. ServerTypes'
    BY <1>1 DEF LeaveSession, ManagerTypeOK, ServerTypes, table
  <2> QED BY <2>1, <2>2
<1>2. CASE LeaveTransport(t)
  <2>1. CASE /\ conn[of[t]].transport # Nothing
             /\ Stops(t, "exitTransport")
             /\ closing' = [closing EXCEPT ![t] = conn[of[t]].transport]
             /\ UNCHANGED conn
    <3>1. UNCHANGED <<servers, configs, chan, of, why, conn>>
      BY <1>2, <2>1 DEF LeaveTransport, table
    <3> QED BY <1>0, <2>1, <3>1
            DEF Stops, ManagerTypeOK, TaskTypes, ServerTypes, Waits
  <2>2. CASE /\ Goes(t, "cleaned")
             /\ conn' = [conn EXCEPT ![of[t]].transport = Nothing]
             /\ UNCHANGED closing
    <3>1. UNCHANGED <<servers, configs, chan, of, why, closing>>
      BY <1>2, <2>2 DEF LeaveTransport, table
    <3>2. TaskTypes'
      BY <2>2, <3>1 DEF Goes, ManagerTypeOK, TaskTypes, Steps
    <3>3. ServerTypes'
      BY <1>0, <2>2, <3>1, ConnTyped DEF ManagerTypeOK, ServerTypes
    <3> QED BY <3>2, <3>3
  <2> QED BY <1>2, <2>1, <2>2 DEF LeaveTransport
<1>3. CASE Cleaned(t)
  <2>1. UNCHANGED <<servers, chan>>
    BY <1>3 DEF Cleaned
  <2>2. CASE CleanedToReplace(t)
    <3>1. TaskTypes'
      BY <1>0, <2>2 DEF CleanedToReplace, Goes, ManagerTypeOK, TaskTypes, Steps
    <3>2. ServerTypes'
      BY <1>0, <2>1, <2>2, ConnTyped
         DEF CleanedToReplace, Dropped, ManagerTypeOK, ServerTypes
    <3> QED BY <3>1, <3>2
  <2>3. CASE CleanedAfterFailure(t)
    <3>1. TaskTypes'
      BY <2>3, EndsTypes DEF CleanedAfterFailure
    <3>2. \/ conn' = [conn EXCEPT ![of[t]].state = "FAILED"]
          \/ conn' = [conn EXCEPT ![of[t]] = New]
      BY <2>3 DEF CleanedAfterFailure, Becomes, Dropped
    <3>3. configs' \subseteq Names
      BY <2>3 DEF CleanedAfterFailure, ManagerTypeOK
    <3>4. conn' \in [Conns -> [state : ConnStates, transport : Conns \cup {Nothing},
                               session : Conns \cup {Nothing}]]
      <4>1. "FAILED" \in ConnStates /\ "DISABLED" \in ConnStates
        BY DEF ConnStates
      <4>2. CASE conn' = [conn EXCEPT ![of[t]] = New]
        BY <1>0, <4>2, ConnTyped
      <4>3. CASE conn' # [conn EXCEPT ![of[t]] = New]
        BY <1>0, <3>2, <4>1, <4>3, ConnTyped
      <4> QED BY <4>2, <4>3
    <3> QED BY <2>1, <3>1, <3>3, <3>4 DEF ManagerTypeOK, ServerTypes
  <2>4. CASE CleanedForGood(t)
    <3>1. TaskTypes' /\ configs' = configs
      BY <2>4, EndsTypes DEF CleanedForGood
    <3>2. \/ conn' = [conn EXCEPT ![of[t]].state = "DISABLED"]
          \/ conn' = [conn EXCEPT ![of[t]] = New]
      BY <2>4 DEF CleanedForGood, Becomes, Dropped
    <3>4. conn' \in [Conns -> [state : ConnStates, transport : Conns \cup {Nothing},
                               session : Conns \cup {Nothing}]]
      <4>1. "FAILED" \in ConnStates /\ "DISABLED" \in ConnStates
        BY DEF ConnStates
      <4>2. CASE conn' = [conn EXCEPT ![of[t]] = New]
        BY <1>0, <4>2, ConnTyped
      <4>3. CASE conn' # [conn EXCEPT ![of[t]] = New]
        BY <1>0, <3>2, <4>1, <4>3, ConnTyped
      <4> QED BY <4>2, <4>3
    <3> QED BY <2>1, <3>1, <3>4 DEF ManagerTypeOK, ServerTypes
  <2> QED BY <1>3, <2>2, <2>3, <2>4 DEF Cleaned
<1>4. CASE Dial(t)
  <2>1. servers' = servers
    BY <1>4 DEF Dial
  <2>2. CASE /\ conn' = [conn EXCEPT ![of[t]].transport = t]
             /\ chan' = [chan EXCEPT ![t] = "opening"]
             /\ configs' = IF Enabling(t) THEN configs ELSE configs \cup {Name(t)}
             /\ Stops(t, "opening")
             /\ UNCHANGED <<of, why, closing>>
    <3>1. TaskTypes'
      BY <2>2 DEF Stops, ManagerTypeOK, TaskTypes, Waits
    <3>2. conn' \in [Conns -> [state : ConnStates, transport : Conns \cup {Nothing},
                               session : Conns \cup {Nothing}]]
      BY <1>0, <2>2, ConnTyped
    <3>3. configs' \subseteq Names /\ chan' \in [Conns -> {"shut", "opening", "open"}]
      BY <1>0, <2>2 DEF ManagerTypeOK
    <3> QED BY <2>1, <3>1, <3>2, <3>3 DEF ManagerTypeOK, ServerTypes
  <2>3. CASE /\ configs' = IF Enabling(t) THEN configs ELSE configs \ {Name(t)}
             /\ Ends(t, "raised")
             /\ UNCHANGED <<conn, chan>>
    <3>1. TaskTypes'
      BY <2>3, EndsTypes
    <3>2. configs' \subseteq Names
      BY <2>3 DEF ManagerTypeOK
    <3> QED BY <2>1, <2>3, <3>1, <3>2 DEF ManagerTypeOK, ServerTypes
  <2> QED BY <1>4, <2>2, <2>3 DEF Dial
<1> QED BY <1>1, <1>2, <1>3, <1>4

LEMMA AnsweredTypes ==
    ASSUME ManagerTypeOK, NEW t \in Tasks,
           \/ SessionExits(t) \/ TransportExits(t) \/ Initializes(t) \/ Lists(t)
           \/ ChildStarts(t) \/ Opens(t) \/ Consents(t)
    PROVE  TaskTypes' /\ ServerTypes'
<1>0. /\ of[t] \in Conns /\ t \in Conns /\ Name(t) \in Names /\ closing[t] \in Conns
      /\ of \in [Tasks -> Conns]
  BY TasksAre DEF ManagerTypeOK
<1>1. CASE SessionExits(t)
  <2>1. TaskTypes'
    BY <1>1 DEF SessionExits, Goes, ManagerTypeOK, TaskTypes, Steps
  <2>2. ServerTypes'
    BY <1>0, <1>1, ConnTyped DEF SessionExits, ManagerTypeOK, ServerTypes, table
  <2> QED BY <2>1, <2>2
<1>2. CASE TransportExits(t)
  <2>1. TaskTypes'
    BY <1>2 DEF TransportExits, Goes, ManagerTypeOK, TaskTypes, Steps
  <2>2. /\ conn' \in [Conns -> [state : ConnStates, transport : Conns \cup {Nothing},
                                session : Conns \cup {Nothing}]]
        /\ chan' \in [Conns -> {"shut", "opening", "open"}]
        /\ servers' = servers /\ configs' = configs
    BY <1>0, <1>2, ConnTyped DEF TransportExits, ManagerTypeOK, table
  <2> QED BY <2>1, <2>2 DEF ManagerTypeOK, ServerTypes
<1>3. CASE Initializes(t)
  <2>1. ServerTypes'
    BY <1>3 DEF Initializes, ManagerTypeOK, ServerTypes, table
  <2>2. CASE Stops(t, "listing") /\ UNCHANGED <<why, closing>>
    BY <1>3, <2>1, <2>2 DEF Initializes, Stops, ManagerTypeOK, TaskTypes, Waits
  <2>3. CASE CleanUp(t, "fail")
    BY <1>0, <1>3, <2>1, <2>3, CleanUpTypes DEF Initializes
  <2> QED BY <1>3, <2>2, <2>3 DEF Initializes
<1>4. CASE Lists(t)
  <2>1. configs' = configs /\ chan' = chan
    BY <1>4 DEF Lists
  <2>2. CASE /\ Becomes(t, "CONNECTED")
             /\ Ends(t, "returned")
             /\ servers' = IF Enabling(t) THEN servers
                           ELSE [servers EXCEPT ![Name(t)] = of[t]]
    <3>1. TaskTypes'
      BY <2>2, EndsTypes
    <3>2. conn' \in [Conns -> [state : ConnStates, transport : Conns \cup {Nothing},
                               session : Conns \cup {Nothing}]]
      BY <1>0, <2>2, ConnTyped DEF Becomes, ConnStates
    <3>3. servers' \in [Names -> Conns \cup {Nothing}]
      BY <1>0, <2>2 DEF ManagerTypeOK
    <3> QED BY <2>1, <3>1, <3>2, <3>3 DEF ManagerTypeOK, ServerTypes
  <2>3. CASE CleanUp(t, "fail") /\ UNCHANGED <<servers, conn, of>>
    <3>1. TaskTypes'
      BY <1>0, <2>3, CleanUpTypes
    <3> QED BY <2>1, <2>3, <3>1 DEF ManagerTypeOK, ServerTypes
  <2> QED BY <1>4, <2>2, <2>3 DEF Lists
<1>5. CASE ChildStarts(t)
  BY <1>5, ConnectsTypes DEF ChildStarts
<1>6. CASE Opens(t)
  <2>1. servers' = servers /\ configs' = configs /\ of' = of
    BY <1>6 DEF Opens, table
  <2>2. CASE /\ chan' = [chan EXCEPT ![t] = "open"]
             /\ conn' = [conn EXCEPT ![of[t]].session = t]
             /\ Stops(t, "handshake")
             /\ UNCHANGED <<why, closing>>
    <3>1. TaskTypes'
      BY <2>1, <2>2 DEF Stops, ManagerTypeOK, TaskTypes, Waits
    <3>2. conn' \in [Conns -> [state : ConnStates, transport : Conns \cup {Nothing},
                               session : Conns \cup {Nothing}]]
      BY <1>0, <2>2, ConnTyped
    <3>3. chan' \in [Conns -> {"shut", "opening", "open"}]
      BY <2>2 DEF ManagerTypeOK
    <3> QED BY <2>1, <3>1, <3>2, <3>3 DEF ManagerTypeOK, ServerTypes
  <2>3. CASE /\ chan' = [chan EXCEPT ![t] = "shut"]
             /\ CleanUp(t, "fail")
             /\ UNCHANGED conn
    <3>1. TaskTypes'
      BY <1>0, <2>1, <2>3, CleanUpTypes
    <3> QED BY <2>1, <2>3, <3>1 DEF ManagerTypeOK, ServerTypes
  <2> QED BY <1>6, <2>2, <2>3 DEF Opens
<1>7. CASE Consents(t)
  <2>1. CASE Connects(t)
    BY <2>1, ConnectsTypes
  <2>2. CASE Ends(t, "returned") /\ UNCHANGED <<table, conn, chan>>
    BY <2>2, EndsTypes DEF ManagerTypeOK, ServerTypes, table
  <2> QED BY <1>7, <2>1, <2>2 DEF Consents
<1> QED BY <1>1, <1>2, <1>3, <1>4, <1>5, <1>6, <1>7

LEMMA InterruptedTypes ==
    ASSUME ManagerTypeOK, NEW t \in Tasks, Interrupted(t)
    PROVE  ManagerTypeOK'
<1>0. /\ of[t] \in Conns /\ closing[t] \in Conns /\ of \in [Tasks -> Conns]
      /\ conn[of[t]].transport \in Conns \cup {Nothing}
  BY DEF ManagerTypeOK
<1>1. /\ UNCHANGED <<servers, configs, conn, op, phase, left, cancels, late>>
      /\ stopping' \subseteq Tasks
  BY DEF Interrupted, table, calls, ManagerTypeOK
<1>2. TaskTypes'
  <2>1. CASE \E how \in {"raised"} : Ends(t, how)
    BY <2>1, EndsTypes
  <2>2. CASE CleanUp(t, "fail") /\ UNCHANGED of
    BY <1>0, <2>2, CleanUpTypes
  <2>3. CASE Goes(t, "cleaned") /\ UNCHANGED <<of, why, closing>>
    BY <2>3 DEF Goes, ManagerTypeOK, TaskTypes, Steps
  <2> QED BY <2>1, <2>2, <2>3 DEF Interrupted
<1> DEFINE x == IF at[t] = "exitTransport" THEN closing[t] ELSE conn[of[t]].transport
<1>3. halfCut' \subseteq Conns
  <2>1. x \in Conns \cup {Nothing}
    BY <1>0
  <2>2. halfCut' = halfCut \/ halfCut' = halfCut \cup ({x} \ {Nothing})
    BY DEF Interrupted
  <2> QED BY <2>1, <2>2 DEF ManagerTypeOK
<1>4. chan' \in [Conns -> {"shut", "opening", "open"}]
  <2>1. \/ UNCHANGED chan
        \/ chan' = [chan EXCEPT ![t] = "shut"]
        \/ chan' = [chan EXCEPT ![x] = "shut"]
    BY DEF Interrupted
  <2> QED BY <2>1 DEF ManagerTypeOK
<1> QED BY <1>1, <1>2, <1>3, <1>4 DEF ManagerTypeOK, TaskTypes

LEMMA CallTypesStep ==
    ASSUME ManagerTypeOK, NEW c \in Callers, HostCancels(c) \/ Settle(c) \/ Call(c)
    PROVE  ManagerTypeOK'
<1>1. CASE HostCancels(c)
  <2>1. cancels' \in 0 .. MaxCancels
    BY <1>1, CallersAssumption DEF HostCancels, ManagerTypeOK
  <2>2. stopping' \subseteq Tasks /\ late' \subseteq Callers
    BY <1>1 DEF HostCancels, ManagerTypeOK, StillConnecting, Of
  <2>3. phase' \in [Callers -> {"none", "gather", "drain", "drop", "returned", "raised"}]
    BY <1>1 DEF HostCancels, ManagerTypeOK
  <2>4. UNCHANGED <<servers, configs, conn, chan, tasks, op, left, halfCut>>
    BY <1>1 DEF HostCancels, table
  <2> QED BY <2>1, <2>2, <2>3, <2>4 DEF ManagerTypeOK, tasks
<1>2. CASE AllConnected(c) \/ OneFailed(c) \/ Drained(c) \/ DroppedAll(c)
  <2>1. PICK next \in {"drain", "drop", "returned", "raised"} : Settles(c, next)
    BY <1>2 DEF AllConnected, OneFailed, Drained, DroppedAll
  <2>2. /\ phase' \in [Callers -> {"none", "gather", "drain", "drop", "returned", "raised"}]
        /\ UNCHANGED <<servers, configs, conn, chan, tasks, op, cancels, late, halfCut>>
    BY <2>1 DEF Settles, ManagerTypeOK, table
  <2>3. left' \in [Callers -> SUBSET Names]
    <3>1. left' = left \/ left' = [left EXCEPT ![c] = {n \in Names : Known(n)}]
      BY <1>2 DEF AllConnected, OneFailed, Drained, DroppedAll
    <3> QED BY <3>1 DEF ManagerTypeOK
  <2>4. stopping' \subseteq Tasks
    BY <1>2 DEF AllConnected, OneFailed, Drained, DroppedAll, ManagerTypeOK,
                StillConnecting, Of
  <2> QED BY <2>2, <2>3, <2>4 DEF ManagerTypeOK, tasks
<1>3. CASE DropNext(c)
  <2>1. PICK n \in left[c] : /\ left' = [left EXCEPT ![c] = @ \ {n}]
                             /\ Evict(<<c, n>>, "disconnect")
    BY <1>3 DEF DropNext
  <2>2. n \in Names /\ <<c, n>> \in Tasks
    BY TasksAre DEF ManagerTypeOK
  <2>3. left' \in [Callers -> SUBSET Names]
    BY <2>1 DEF ManagerTypeOK
  <2>4. UNCHANGED <<op, phase, stopping, cancels, late, halfCut>>
    BY <1>3 DEF DropNext, ghosts
  <2>5. TaskTypes' /\ ServerTypes'
    BY <2>1, <2>2, EvictTypes
  <2> QED BY <2>3, <2>4, <2>5 DEF ManagerTypeOK, TaskTypes, ServerTypes
<1>4. CASE Call(c)
  <2>0. ASSUME NEW what \in Single \cup {"connect_all", "disconnect_all"}, NEW S, Asks(c, what, S)
        PROVE  /\ op' \in [Callers -> Single \cup {"none", "connect_all", "disconnect_all"}]
               /\ UNCHANGED <<stopping, cancels, late, halfCut>>
    BY <2>0 DEF Asks, ManagerTypeOK
  <2>1. ASSUME NEW n \in Names,
               \/ Connect(c, n) \/ StartOAuth(c, n) \/ Disconnect(c, n)
               \/ DisableServer(c, n) \/ EnableServer(c, n)
        PROVE  ManagerTypeOK'
    <3>0. <<c, n>> \in Tasks
      BY TasksAre
    <3>1. phase' = phase /\ left' = left
      BY <2>1 DEF Connect, StartOAuth, Disconnect, DisableServer, EnableServer
    <3>2. \E what \in Single : Asks(c, what, {n})
      BY <2>1 DEF Connect, StartOAuth, Disconnect, DisableServer, EnableServer, Single
    <3>3. CallTypes'
      BY <2>0, <3>1, <3>2 DEF CallTypes, ManagerTypeOK
    <3>4. TaskTypes' /\ ServerTypes'
      <4>1. CASE Connect(c, n)
        BY <3>0, <4>1, ConnectsTypes DEF Connect
      <4>2. CASE StartOAuth(c, n)
        BY <3>0, <4>2 DEF StartOAuth, Stops, ManagerTypeOK, TaskTypes, ServerTypes, Waits, table
      <4>3. CASE Disconnect(c, n)
        BY <3>0, <4>3, EvictTypes DEF Disconnect
      <4>4. CASE DisableServer(c, n)
        <5>1. of' \in [Tasks -> Conns]
          <6>1. servers[n] \in Conns
            BY <4>4 DEF DisableServer, ManagerTypeOK, Known
          <6>2. of' = [of EXCEPT ![<<c, n>>] = servers[n]]
            BY <4>4 DEF DisableServer
          <6> QED BY <6>1, <6>2 DEF ManagerTypeOK
        <5>2. TaskTypes'
          BY <3>0, <4>4, <5>1, CleanUpTypes DEF DisableServer
        <5> QED BY <4>4, <5>2 DEF DisableServer, ManagerTypeOK, ServerTypes, table
      <4>5. CASE EnableServer(c, n)
        <5>1. servers[n] \in Conns
          BY <4>5 DEF EnableServer, ManagerTypeOK, Known
        <5>2. conn' \in [Conns -> [state : ConnStates, transport : Conns \cup {Nothing},
                                   session : Conns \cup {Nothing}]]
          BY <4>5, <5>1, ConnTyped DEF EnableServer, ConnStates
        <5>3. TaskTypes'
          BY <3>0, <4>5, <5>1 DEF EnableServer, Goes, ManagerTypeOK, TaskTypes, Steps
        <5> QED BY <4>5, <5>2, <5>3 DEF EnableServer, ManagerTypeOK, ServerTypes, table
      <4> QED BY <2>1, <4>1, <4>2, <4>3, <4>4, <4>5
    <3> QED BY <3>3, <3>4 DEF ManagerTypeOK, TaskTypes, ServerTypes, CallTypes
  <2>2. CASE DisconnectAll(c)
    <3>1. /\ phase' \in [Callers -> {"none", "gather", "drain", "drop", "returned", "raised"}]
          /\ left' \in [Callers -> SUBSET Names]
      BY <2>2 DEF DisconnectAll, ManagerTypeOK
    <3>2. CallTypes'
      BY <2>0, <2>2, <3>1 DEF DisconnectAll, CallTypes, ManagerTypeOK
    <3> QED BY <2>2, <3>2 DEF DisconnectAll, ManagerTypeOK, CallTypes, table, tasks
  <2>3. ASSUME NEW S \in SUBSET Names, ConnectAll(c, S) PROVE ManagerTypeOK'
    <3>1. phase' \in [Callers -> {"none", "gather", "drain", "drop", "returned", "raised"}]
      BY <2>3 DEF ConnectAll, ManagerTypeOK
    <3>2. CallTypes'
      BY <2>0, <2>3, <3>1 DEF ConnectAll, CallTypes, ManagerTypeOK
    <3>3. at' \in [Tasks -> Waits \cup Steps \cup {"none", "created", "returned", "raised"}]
      BY <2>3 DEF ConnectAll, ManagerTypeOK
    <3> QED BY <2>3, <3>2, <3>3 DEF ConnectAll, ManagerTypeOK, CallTypes, table
  <2> QED BY <1>4, <2>1, <2>2, <2>3 DEF Call
<1> QED BY <1>1, <1>2, <1>3, <1>4 DEF Settle

LEMMA TypesStep ==
    ASSUME ManagerTypeOK, [ManagerNext]_managerVars
    PROVE  ManagerTypeOK'
<1>1. ASSUME NEW t \in Tasks, Task(t) PROVE ManagerTypeOK'
  <2>1. CASE Interrupted(t)
    BY <2>1, InterruptedTypes
  <2>2. CASE ~Interrupted(t)
    <3>1. TaskTypes' /\ ServerTypes'
      BY <1>1, <2>2, RunsTypes, AnsweredTypes DEF Task, Runs, Answered
    <3>2. UNCHANGED <<op, phase, left, stopping, cancels, late, halfCut>>
      BY <1>1, <2>2 DEF Task, Runs, Answered, Others, calls, ghosts
    <3> QED BY <3>1, <3>2 DEF ManagerTypeOK, TaskTypes, ServerTypes
  <2> QED BY <2>1, <2>2
<1>2. CASE UNCHANGED managerVars
  BY <1>2 DEF managerVars, table, calls, tasks, ghosts, ManagerTypeOK
<1> QED BY <1>1, <1>2, CallTypesStep DEF ManagerNext, Rest

LEMMA TypesInit == ManagerInit => ManagerTypeOK
<1> SUFFICES ASSUME ManagerInit PROVE ManagerTypeOK
  OBVIOUS
<1>1. PICK live \in SUBSET Names, muted \in SUBSET Names :
        /\ servers = [n \in Names |->
                        IF n \in live \cup muted THEN Founded(n) ELSE Nothing]
        /\ configs = live \cup muted
        /\ conn = [k \in Conns |->
                     CASE k \in {Founded(n) : n \in live} ->
                            [state |-> "CONNECTED", transport |-> k, session |-> k]
                       [] k \in {Founded(n) : n \in muted} ->
                            [New EXCEPT !.state = "DISABLED"]
                       [] OTHER -> New]
        /\ chan = [k \in Conns |->
                     IF k \in {Founded(n) : n \in live} THEN "open" ELSE "shut"]
  BY DEF ManagerInit
<1>2. servers \in [Names -> Conns \cup {Nothing}]
  BY <1>1, TasksAre
<1>3. conn \in [Conns -> [state : ConnStates, transport : Conns \cup {Nothing},
                          session : Conns \cup {Nothing}]]
  <2> SUFFICES ASSUME NEW k \in Conns
               PROVE  conn[k] \in [state : ConnStates, transport : Conns \cup {Nothing},
                                   session : Conns \cup {Nothing}]
    BY <1>1
  <2>1. \/ conn[k] = [state |-> "CONNECTED", transport |-> k, session |-> k]
        \/ conn[k] = [New EXCEPT !.state = "DISABLED"]
        \/ conn[k] = New
    BY <1>1
  <2> QED BY <2>1 DEF New, ConnStates
<1>4. configs \subseteq Names /\ chan \in [Conns -> {"shut", "opening", "open"}]
  BY <1>1
<1>5. /\ op = [c \in Callers |-> "none"]
      /\ phase = [c \in Callers |-> "none"]
      /\ left = [c \in Callers |-> {}]
      /\ at = [t \in Tasks |-> "none"]
      /\ of = [t \in Tasks |-> t]
      /\ why = [t \in Tasks |-> "fail"]
      /\ closing = [t \in Tasks |-> t]
      /\ running = Nothing
      /\ stopping = {} /\ cancels = 0
      /\ late = {} /\ halfCut = {}
  BY DEF ManagerInit
<1>6. TaskTypes
  BY <1>5, TasksAre DEF TaskTypes
<1>7. CallTypes
  BY <1>5, CallersAssumption DEF CallTypes
<1> QED BY <1>2, <1>3, <1>4, <1>6, <1>7, TypesAre DEF ServerTypes

(* A connect_all connects; the clean-ups of its gathering are of failures  *)
(* or before a new connection, those of its dropping are for good, and     *)
(* what it has yet to drop is all there is.                                *)
GatherInv(c) ==
    \A t \in Of(c) : /\ at[t] = "returned" => Live(Name(t))
                     /\ at[t] \in Undoing => why[t] \in {"replace", "fail"}

DropInv(c) ==
    /\ \A n \in Names : Known(n) => n \in left[c]
    /\ \A t \in Of(c) : Active(t) => at[t] \in Undoing /\ why[t] = "disconnect"

AllInv ==
    \A c \in Callers : op[c] = "connect_all" =>
       /\ phase[c] = "gather" => GatherInv(c)
       /\ phase[c] = "drop" /\ c \notin late => DropInv(c)

TableOrder == NamesInv /\ TableInv /\ \A t \in Tasks : TaskInv(t)

ManagerInv == ManagerTypeOK /\ TableOrder /\ CallInv /\ ApartInv

-----------------------------------------------------------------------------
(* The table, step by step.                                                *)

(* A task's step, on its own name.                                         *)
LEMMA TaskLocal ==
    ASSUME ManagerInv, NEW t \in Tasks, Task(t)
    PROVE  /\ Active(t) /\ Alone1(t) /\ Touches(t) /\ NamesInv' /\ Local(t)'
           /\ UNCHANGED <<op, phase, left, late>>
           /\ at'[t] \notin {"consent", "created"}
<1>1. Active(t)
  BY DEF Task, Runs, Answered, Interrupted, LeaveSession, LeaveTransport, Cleaned, Dial,
         SessionExits, TransportExits, Initializes, Lists, ChildStarts, Opens, Consents,
         Resumes, Active, Waits, Steps
<1>2. Alone1(t) /\ Local(t) /\ TaskInv(t) /\ ManagerTypeOK /\ NamesInv
  BY <1>1, TaskAlone, LocalBefore DEF ManagerInv, TableOrder
<1>3. at[t] = "consent" => op[Caller(t)] = "oauth"
  BY DEF ManagerInv, CallInv
<1>4. at[t] = "created" => op[Caller(t)] = "connect_all"
  BY DEF ManagerInv, CallInv
<1>5. UNCHANGED <<op, phase, left, late>>
  BY DEF Task, Runs, Answered, Others, Interrupted, calls, ghosts
<1>6. Touches(t) /\ NamesInv' /\ Local(t)'
  <2>1. CASE Interrupted(t)
    BY <1>2, <2>1, InterruptedLocal
  <2>2. CASE ~Interrupted(t)
    <3>1. Frame
      BY <2>2 DEF Task, Runs, Answered, Others, calls, ghosts, Frame
    <3>2. CASE LeaveSession(t) \/ LeaveTransport(t) \/ Cleaned(t) \/ Dial(t)
      BY <1>2, <3>1, <3>2, LeaveSessionLocal, LeaveTransportLocal, CleanedLocal, DialLocal
    <3>3. CASE SessionExits(t) \/ TransportExits(t) \/ Initializes(t) \/ Lists(t) \/ Opens(t)
      BY <1>2, <3>1, <3>3, SessionExitsLocal, TransportExitsLocal, InitializesLocal,
         ListsLocal, OpensLocal
    <3>4. CASE ChildStarts(t)
      <4>1. at[t] = "created" /\ Connects(t)
        BY <3>4 DEF ChildStarts, Resumes
      <4>2. at[t] \notin Work /\ ~Enabling(t)' /\ halfCut' = halfCut
        BY <1>4, <1>5, <3>1, <4>1 DEF Work, Steps, Enabling, Frame
      <4> QED BY <1>2, <4>1, <4>2, ConnectsLocal
    <3>5. CASE Consents(t)
      <4>1. ~Enabling(t)
        BY <1>3, <3>5 DEF Consents, Resumes, Enabling
      <4> QED BY <1>2, <3>1, <3>5, <4>1, ConsentsLocal
    <3> QED BY <2>2, <3>2, <3>3, <3>4, <3>5 DEF Task, Runs, Answered
  <2> QED BY <2>1, <2>2
<1>7. at'[t] \notin {"consent", "created"}
  <2>1. \E next : /\ at' = [at EXCEPT ![t] = next]
                  /\ next \notin {"consent", "created"}
    BY DEF Task, Runs, Answered, Interrupted, LeaveSession, LeaveTransport, Cleaned, Dial,
           CleanedToReplace, CleanedAfterFailure, CleanedForGood,
           SessionExits, TransportExits, Initializes, Lists, ChildStarts, Opens, Consents,
           Connects, Evict, CleanUp, Goes, Stops, Ends
  <2> QED BY <2>1, Moves DEF ManagerInv
<1> QED BY <1>1, <1>2, <1>5, <1>6, <1>7

LEMMA TaskTableStep ==
    ASSUME ManagerInv, NEW t \in Tasks, Task(t)
    PROVE  TableOrder' /\ CallInv' /\ ApartInv'
<1>1. /\ Active(t) /\ Alone1(t) /\ Touches(t) /\ NamesInv' /\ Local(t)'
      /\ UNCHANGED <<op, phase>> /\ at'[t] \notin {"consent", "created"}
  BY TaskLocal
<1>2. TableInv' /\ \A u \in Tasks : TaskInv(u)'
  BY <1>1, LocalStep DEF ManagerInv, TableOrder
<1>3. \A u \in Tasks : u # t => at'[u] = at[u]
  BY <1>1 DEF Touches
<1>4. CallInv' /\ ApartInv'
  BY <1>1, <1>3, TaskCalls DEF ManagerInv
<1> QED BY <1>1, <1>2, <1>4 DEF TableOrder

(* A call on one server begins.                                            *)
LEMMA CallTableStep ==
    ASSUME ManagerInv, ~Overlap, NEW c \in Callers, NEW n \in Names,
           \/ Connect(c, n) \/ StartOAuth(c, n) \/ Disconnect(c, n)
           \/ DisableServer(c, n) \/ EnableServer(c, n)
    PROVE  /\ TableOrder' /\ CallInv' /\ ApartInv'
           /\ Touches(<<c, n>>) /\ Alone1(<<c, n>>) /\ at[<<c, n>>] = "none"
<1> DEFINE t == <<c, n>>
<1>1. t \in Tasks /\ Caller(t) = c /\ Name(t) = n
  BY TasksAre
<1>2. /\ ManagerTypeOK /\ NamesInv /\ TableInv /\ CallInv /\ ApartInv
      /\ \A u \in Tasks : TaskInv(u)
  BY DEF ManagerInv, TableOrder
<1>3. PICK what \in Single, next \in {"cleaning", "dialing", "returned", "consent"} :
        /\ Asks(c, what, {n}) /\ phase' = phase
        /\ at' = [at EXCEPT ![t] = next]
        /\ what = "enable" <=> EnableServer(c, n)
        /\ next = "consent" => what = "oauth"
  <2>1. CASE Connect(c, n)
    <3>1. \E next \in {"cleaning", "dialing", "returned"} : at' = [at EXCEPT ![t] = next]
      BY <2>1 DEF Connect, Connects, Evict, CleanUp, Goes
    <3>2. Asks(c, "connect", {n}) /\ phase' = phase
      BY <2>1 DEF Connect
    <3>3. ~EnableServer(c, n)
      BY <1>2, <3>2 DEF EnableServer, Asks, ManagerTypeOK
    <3> QED BY <3>1, <3>2, <3>3 DEF Single
  <2>2. CASE StartOAuth(c, n)
    <3>1. at' = [at EXCEPT ![t] = "consent"]
      BY <2>2 DEF StartOAuth, Stops
    <3>2. Asks(c, "oauth", {n}) /\ phase' = phase
      BY <2>2 DEF StartOAuth
    <3>3. ~EnableServer(c, n)
      BY <1>2, <3>2 DEF EnableServer, Asks, ManagerTypeOK
    <3> QED BY <3>1, <3>2, <3>3 DEF Single
  <2>3. CASE Disconnect(c, n)
    <3>1. \E next \in {"cleaning", "dialing", "returned"} : at' = [at EXCEPT ![t] = next]
      BY <2>3 DEF Disconnect, Evict, CleanUp, Goes
    <3>2. Asks(c, "disconnect", {n}) /\ phase' = phase
      BY <2>3 DEF Disconnect
    <3>3. ~EnableServer(c, n)
      BY <1>2, <3>2 DEF EnableServer, Asks, ManagerTypeOK
    <3> QED BY <3>1, <3>2, <3>3 DEF Single
  <2>4. CASE DisableServer(c, n)
    <3>1. at' = [at EXCEPT ![t] = "cleaning"]
      BY <2>4 DEF DisableServer, CleanUp, Goes
    <3>2. Asks(c, "disable", {n}) /\ phase' = phase
      BY <2>4 DEF DisableServer
    <3>3. ~EnableServer(c, n)
      BY <1>2, <3>2 DEF EnableServer, Asks, ManagerTypeOK
    <3> QED BY <3>1, <3>2, <3>3 DEF Single
  <2>5. CASE EnableServer(c, n)
    BY <2>5 DEF EnableServer, Goes, Single
  <2> QED BY <2>1, <2>2, <2>3, <2>4, <2>5
<1>4. at'[t] = next /\ \A u \in Tasks : u # t => at'[u] = at[u]
  BY <1>1, <1>2, <1>3, Moves
<1>5. /\ CallInv' /\ ApartInv' /\ Alone1(t) /\ at[t] \notin Work
      /\ \A u \in Tasks : at[u] \in Work => op'[Caller(u)] = op[Caller(u)]
  BY <1>2, <1>3, <1>4, AskCalls
<1>6. Local(t)
  BY <1>1, <1>2, <1>5, LocalBefore
<1>7. halfCut' = halfCut /\ op'[c] = what
  BY <1>2, <1>3 DEF Asks, ManagerTypeOK
<1>8. ~EnableServer(c, n) => ~Enabling(t)'
  BY <1>1, <1>3, <1>7 DEF Enabling
<1>9. Touches(t) /\ NamesInv' /\ Local(t)'
  <2>1. CASE Connect(c, n) /\ ~EnableServer(c, n)
    BY <1>1, <1>2, <1>5, <1>6, <1>7, <1>8, <2>1, ConnectsLocal DEF Connect
  <2>2. CASE Disconnect(c, n) /\ ~EnableServer(c, n)
    <3>1. Evict(t, "disconnect")
      BY <2>2 DEF Disconnect
    <3> QED BY <1>1, <1>2, <1>5, <1>6, <1>7, <1>8, <2>2, <3>1, EvictLocal
  <2>3. CASE DisableServer(c, n)
    BY <1>2, <1>5, <1>6, <2>3, MutesLocal
  <2>4. CASE EnableServer(c, n)
    BY <1>2, <1>5, <1>6, <2>4, UnmutesLocal
  <2>5. CASE StartOAuth(c, n)
    <3>1. UNCHANGED <<servers, conn, chan, of, why, closing>> /\ at' = [at EXCEPT ![t] = "consent"]
      BY <2>5 DEF StartOAuth, table, Stops
    <3>2. at'[t] = "consent"
      BY <1>1, <1>2, <3>1, Moves
    <3>3. Touches(t)
      BY <1>4, <1>7, <3>1 DEF Touches
    <3>4. NamesInv'
      BY <1>1, <1>2, <3>1, <3>3, OfTask, NamesKept
    <3>5. InOrder(n)'
      BY <1>1, <1>5, <1>6, <1>7, <3>1, InOrderKept DEF Local
    <3>6. of[t] = t
      BY <1>1, <1>2, <1>5 DEF TaskInv
    <3> QED BY <1>1, <3>1, <3>2, <3>3, <3>4, <3>5, <3>6 DEF Local, TaskInv, Work, Steps, Undoing
  <2> QED BY <2>1, <2>2, <2>3, <2>4, <2>5
<1>10. TableInv' /\ \A u \in Tasks : TaskInv(u)'
  BY <1>1, <1>2, <1>5, <1>9, LocalStep
<1>11. at[t] = "none"
  BY <1>1, <1>2, <1>3, AskedAlone, OfCaller
<1> QED BY <1>5, <1>9, <1>10, <1>11 DEF TableOrder

(* Steps that leave the table, the connections and the tasks' places be.   *)
LEMMA QuietTable ==
    ASSUME TableOrder, UNCHANGED <<servers, conn, chan, of, why, closing, halfCut>>,
           \A u \in Tasks : at'[u] = at[u] \/ (at[u] \notin Work /\ at'[u] = "created"),
           \A u \in Tasks : at[u] \in Work => op'[Caller(u)] = op[Caller(u)]
    PROVE  TableOrder'
<1>1. NamesInv'
  BY DEF TableOrder, NamesInv, Known
<1>2. \A u \in Tasks : at'[u] \in Work <=> at[u] \in Work
  BY DEF Work, Steps
<1>3. TableInv'
  <2> SUFFICES ASSUME NEW n \in Names, \A c \in Callers : at'[<<c, n>>] \notin Work
               PROVE  InOrder(n)'
    BY DEF TableInv
  <2>1. \A c \in Callers : at[<<c, n>>] \notin Work
    BY <1>2, TasksAre
  <2> QED BY <2>1, InOrderKept DEF TableOrder, TableInv
<1>4. ASSUME NEW u \in Tasks PROVE TaskInv(u)'
  <2>1. TaskInv(u)
    BY DEF TableOrder
  <2>2. CASE at[u] \notin Work
    BY <1>2, <2>1, <2>2 DEF TaskInv, Work, Steps, Undoing
  <2>3. CASE at[u] \in Work
    <3>1. at'[u] = at[u] /\ op'[Caller(u)] = op[Caller(u)]
      BY <2>3
    <3>2. Opened(Name(u))' = Opened(Name(u))
      BY DEF Opened, OpenFor
    <3>3. (Enabling(u)' <=> Enabling(u)) /\ (Uncommitted(u)' <=> Uncommitted(u))
      BY <3>1 DEF Enabling, Uncommitted
    <3>4. Purpose(u)' <=> Purpose(u)
      BY <3>1, <3>3 DEF Purpose
    <3> QED BY <2>1, <3>1, <3>2, <3>3, <3>4 DEF TaskInv
  <2> QED BY <2>2, <2>3
<1> QED BY <1>1, <1>3, <1>4 DEF TableOrder

LEMMA SameTable ==
    ASSUME TableOrder, UNCHANGED <<servers, conn, chan, at, of, why, closing, op, halfCut>>
    PROVE  TableOrder'
<1>1. /\ \A u \in Tasks : at'[u] = at[u] \/ (at[u] \notin Work /\ at'[u] = "created")
      /\ \A u \in Tasks : at[u] \in Work => op'[Caller(u)] = op[Caller(u)]
  OBVIOUS
<1> QED BY <1>1, QuietTable

(* A call on all the servers begins, goes on or ends.                      *)
LEMMA AllTableStep ==
    ASSUME ManagerInv, ~Overlap, NEW c \in Callers,
           DisconnectAll(c) \/ \E S \in (SUBSET Names) \ {{}} : ConnectAll(c, S)
    PROVE  TableOrder' /\ CallInv' /\ ApartInv'
<1> DEFINE Begins(what, next) ==
        /\ <<what, next>> \in {<<"connect_all", "gather">>, <<"disconnect_all", "drop">>}
        /\ Asks(c, what, Names) /\ phase' = [phase EXCEPT ![c] = next]
        /\ \A u \in Tasks : at'[u] = at[u] \/ (Caller(u) = c /\ at'[u] = "created")
        /\ what = "disconnect_all" => at' = at
        /\ UNCHANGED <<servers, conn, chan, of, why, closing, halfCut>>
<1>0. \E what, next : Begins(what, next)
  <2>1. CASE DisconnectAll(c)
    <3>1. /\ Asks(c, "disconnect_all", Names) /\ phase' = [phase EXCEPT ![c] = "drop"]
          /\ UNCHANGED <<servers, conn, chan, at, of, why, closing, halfCut>>
      BY <2>1 DEF DisconnectAll, Asks, table, tasks
    <3>2. Begins("disconnect_all", "drop")
      BY <3>1
    <3> HIDE DEF Begins
    <3> QED BY <3>2
  <2>2. ASSUME NEW S \in SUBSET Names, ConnectAll(c, S)
        PROVE  /\ Asks(c, "connect_all", Names) /\ phase' = [phase EXCEPT ![c] = "gather"]
               /\ \A u \in Tasks : at'[u] = at[u] \/ (Caller(u) = c /\ at'[u] = "created")
               /\ UNCHANGED <<servers, conn, chan, of, why, closing, halfCut>>
    <3>1. /\ Asks(c, "connect_all", Names) /\ phase' = [phase EXCEPT ![c] = "gather"]
          /\ at' = [t \in Tasks |-> IF t \in {c} \X S THEN "created" ELSE at[t]]
          /\ UNCHANGED <<servers, conn, chan, of, why, closing, halfCut>>
      BY <2>2 DEF ConnectAll, Asks, table
    <3>2. \A u \in Tasks : u \in {c} \X S => Caller(u) = c
      BY DEF Caller
    <3> QED BY <3>1, <3>2
  <2>3. CASE \E S \in (SUBSET Names) \ {{}} : ConnectAll(c, S)
    <3>1. Begins("connect_all", "gather")
      BY <2>2, <2>3
    <3> HIDE DEF Begins
    <3> QED BY <3>1
  <2> QED BY <2>1, <2>3
<1> PICK what, next : Begins(what, next)
  BY <1>0
<1>1. /\ <<what, next>> \in {<<"connect_all", "gather">>, <<"disconnect_all", "drop">>}
      /\ Asks(c, what, Names) /\ phase' = [phase EXCEPT ![c] = next]
      /\ \A u \in Tasks : at'[u] = at[u] \/ (Caller(u) = c /\ at'[u] = "created")
      /\ what = "disconnect_all" => at' = at
      /\ UNCHANGED <<servers, conn, chan, of, why, closing, halfCut>>
  OBVIOUS
<1> HIDE DEF Begins
<1>2. /\ CallInv' /\ ApartInv'
      /\ \A u \in Tasks : at[u] \in Work => op'[Caller(u)] = op[Caller(u)]
  BY <1>1, AskAllCalls DEF ManagerInv
<1>3. \A u \in Tasks : Caller(u) = c => at[u] = "none"
  BY <1>1, AskedAlone, OfCaller DEF ManagerInv
<1>4. \A u \in Tasks : at'[u] = at[u] \/ (at[u] \notin Work /\ at'[u] = "created")
  BY <1>1, <1>3 DEF Work, Steps
<1>5. TableOrder'
  BY <1>1, <1>2, <1>4, QuietTable DEF ManagerInv
<1> QED BY <1>2, <1>5

LEMMA SettleTableStep ==
    ASSUME ManagerInv, NEW c \in Callers,
           AllConnected(c) \/ OneFailed(c) \/ Drained(c) \/ DroppedAll(c)
    PROVE  TableOrder' /\ CallInv' /\ ApartInv'
<1>1. /\ UNCHANGED <<servers, conn, chan, at, of, why, closing, op, halfCut>>
      /\ \E next \in {"drain", "drop", "returned", "raised"} :
            /\ phase' = [phase EXCEPT ![c] = next]
            /\ phase[c] \in {"gather", "drain", "drop"}
            /\ next = "drain" => phase[c] = "gather"
            /\ next \in {"returned", "raised"} => \A t \in Of(c) : ~Active(t)
  <2>1. UNCHANGED <<servers, conn, chan, at, of, why, closing, op, halfCut>>
    BY DEF AllConnected, OneFailed, Drained, DroppedAll, Settles, table, tasks
  <2>2. CASE AllConnected(c)
    BY <2>1, <2>2 DEF AllConnected, Settles, Active, Waits, Steps
  <2>3. CASE OneFailed(c)
    BY <2>1, <2>3 DEF OneFailed, Settles
  <2>4. CASE Drained(c)
    BY <2>1, <2>4 DEF Drained, Settles, StillConnecting
  <2>5. CASE DroppedAll(c)
    BY <2>1, <2>5 DEF DroppedAll, Settles, StillConnecting
  <2> QED BY <2>1, <2>2, <2>3, <2>4, <2>5
<1>2. CallInv' /\ ApartInv'
  BY <1>1, SettlesCalls DEF ManagerInv
<1>3. TableOrder'
  BY <1>1, SameTable DEF ManagerInv
<1> QED BY <1>2, <1>3

LEMMA CancelTableStep ==
    ASSUME ManagerInv, NEW c \in Callers, HostCancels(c)
    PROVE  TableOrder' /\ CallInv' /\ ApartInv'
<1>1. UNCHANGED <<servers, conn, chan, at, of, why, closing, op, halfCut>>
  BY DEF HostCancels, table, tasks
<1>2. TableOrder'
  BY <1>1, SameTable DEF ManagerInv
<1>3. CASE phase' = phase
  <2>1. CallInv'
    BY <1>1, <1>3 DEF ManagerInv, CallInv, Active
  <2>2. (\A d : Busy(d)' <=> Busy(d)) /\ (\A u : Active(u)' <=> Active(u))
    BY <1>1, <1>3 DEF Busy, Over, Active
  <2>3. ApartInv'
    BY <1>1, <2>2 DEF ManagerInv, ApartInv
  <2> QED BY <1>2, <2>1, <2>3
<1>4. CASE phase[c] = "gather" /\ phase' = [phase EXCEPT ![c] = "drain"]
  <2>1. CallInv' /\ ApartInv'
    BY <1>1, <1>4, SettlesCalls DEF ManagerInv
  <2> QED BY <1>2, <2>1
<1> QED BY <1>3, <1>4 DEF HostCancels

LEMMA DropOneStep ==
    ASSUME ManagerInv, NEW c \in Callers, DropNext(c),
           NEW n \in left[c], Evict(<<c, n>>, "disconnect")
    PROVE  /\ TableOrder' /\ CallInv' /\ ApartInv'
           /\ Touches(<<c, n>>) /\ Alone1(<<c, n>>) /\ at[<<c, n>>] \notin Work
<1> DEFINE t == <<c, n>>
<1>2. n \in Names /\ t \in Tasks /\ Caller(t) = c /\ Name(t) = n /\ t \in Of(c)
  BY TasksAre, OfCaller DEF ManagerInv, ManagerTypeOK
<1>3. /\ phase[c] = "drop" /\ StillConnecting(c) = {}
      /\ UNCHANGED <<op, phase, halfCut>>
  BY DEF DropNext, ghosts
<1>4. at[t] \notin Work
  <2>1. ~Active(t)
    BY <1>2, <1>3 DEF StillConnecting
  <2> QED BY <2>1 DEF Active, Work, Waits, Steps
<1>5. ~Enabling(t) /\ ~Enabling(t)'
  BY <1>2, <1>3 DEF ManagerInv, CallInv, Enabling, Single
<1>6. PICK next \in {"cleaning", "returned"} : at' = [at EXCEPT ![t] = next]
  BY DEF Evict, CleanUp, Goes
<1>7. at'[t] = next /\ \A u \in Tasks : u # t => at'[u] = at[u]
  BY <1>2, <1>6, Moves DEF ManagerInv
<1>8. CallInv' /\ ApartInv' /\ Alone1(t)
  BY <1>2, <1>3, <1>7, DropCalls DEF ManagerInv
<1>9. Local(t)
  BY <1>2, <1>8, LocalBefore DEF ManagerInv, TableOrder
<1>10. Touches(t) /\ NamesInv' /\ Local(t)'
  BY <1>2, <1>3, <1>4, <1>5, <1>9, EvictLocal DEF ManagerInv, TableOrder
<1>11. TableInv' /\ \A u \in Tasks : TaskInv(u)'
  BY <1>2, <1>3, <1>8, <1>10, LocalStep DEF ManagerInv, TableOrder
<1> QED BY <1>4, <1>8, <1>10, <1>11 DEF TableOrder

LEMMA DropTableStep ==
    ASSUME ManagerInv, NEW c \in Callers, DropNext(c)
    PROVE  TableOrder' /\ CallInv' /\ ApartInv'
<1>1. PICK n \in left[c] : Evict(<<c, n>>, "disconnect")
  BY DEF DropNext
<1> QED BY <1>1, DropOneStep

LEMMA ManagerStep ==
    ASSUME ManagerInv, ~Overlap, [ManagerNext]_managerVars
    PROVE  ManagerInv'
<1>1. ManagerTypeOK'
  BY TypesStep DEF ManagerInv
<1>2. TableOrder' /\ CallInv' /\ ApartInv'
  <2>1. CASE UNCHANGED managerVars
    <3>1. UNCHANGED <<servers, conn, chan, at, of, why, closing, op, phase, halfCut>>
      BY <2>1 DEF managerVars, table, tasks, calls, ghosts
    <3>2. TableOrder'
      BY <3>1, SameTable DEF ManagerInv
    <3>3. CallInv'
      BY <3>1 DEF ManagerInv, CallInv, Active
    <3>4. (\A d : Busy(d)' <=> Busy(d)) /\ (\A u : Active(u)' <=> Active(u))
      BY <3>1 DEF Busy, Over, Active
    <3>5. ApartInv'
      BY <3>1, <3>4 DEF ManagerInv, ApartInv
    <3> QED BY <3>2, <3>3, <3>5
  <2>2. ASSUME NEW t \in Tasks, Task(t) PROVE TableOrder' /\ CallInv' /\ ApartInv'
    BY <2>2, TaskTableStep
  <2>3. ASSUME NEW c \in Callers, Settle(c) \/ Call(c) \/ HostCancels(c)
        PROVE  TableOrder' /\ CallInv' /\ ApartInv'
    <3>1. CASE Settle(c)
      BY <3>1, SettleTableStep, DropTableStep DEF Settle
    <3>2. CASE Call(c)
      BY <3>2, CallTableStep, AllTableStep DEF Call
    <3>3. CASE HostCancels(c)
      BY <3>3, CancelTableStep
    <3> QED BY <2>3, <3>1, <3>2, <3>3
  <2> QED BY <2>1, <2>2, <2>3 DEF ManagerNext, Rest
<1> QED BY <1>1, <1>2 DEF ManagerInv

LEMMA ManagerStart == ManagerInit => ManagerInv /\ AllInv
<1> SUFFICES ASSUME ManagerInit PROVE ManagerInv /\ AllInv
  OBVIOUS
<1>0. PICK live \in SUBSET Names : \E muted \in SUBSET (Names \ live) :
        /\ servers = [n \in Names |->
                        IF n \in live \cup muted THEN Founded(n) ELSE Nothing]
        /\ conn = [k \in Conns |->
                     CASE k \in {Founded(n) : n \in live} ->
                            [state |-> "CONNECTED", transport |-> k, session |-> k]
                       [] k \in {Founded(n) : n \in muted} ->
                            [New EXCEPT !.state = "DISABLED"]
                       [] OTHER -> New]
        /\ chan = [k \in Conns |->
                     IF k \in {Founded(n) : n \in live} THEN "open" ELSE "shut"]
  BY Zenon DEF ManagerInit
<1>1. PICK muted \in SUBSET (Names \ live) :
        /\ servers = [n \in Names |->
                        IF n \in live \cup muted THEN Founded(n) ELSE Nothing]
        /\ conn = [k \in Conns |->
                     CASE k \in {Founded(n) : n \in live} ->
                            [state |-> "CONNECTED", transport |-> k, session |-> k]
                       [] k \in {Founded(n) : n \in muted} ->
                            [New EXCEPT !.state = "DISABLED"]
                       [] OTHER -> New]
        /\ chan = [k \in Conns |->
                     IF k \in {Founded(n) : n \in live} THEN "open" ELSE "shut"]
  BY <1>0
<1>2. /\ op = [c \in Callers |-> "none"]
      /\ phase = [c \in Callers |-> "none"]
      /\ at = [t \in Tasks |-> "none"]
      /\ of = [t \in Tasks |-> t]
      /\ closing = [t \in Tasks |-> t]
      /\ halfCut = {}
  BY DEF ManagerInit
<1>3. \A n \in Names, m \in Names : Founded(n) = Founded(m) => n = m
  BY TasksAre
<1>4. \A k \in Conns :
        /\ k \in {Founded(n) : n \in live} =>
              conn[k].state = "CONNECTED" /\ conn[k].transport = k /\ chan[k] = "open"
        /\ k \in {Founded(n) : n \in muted} =>
              conn[k].state = "DISABLED" /\ conn[k].transport = Nothing /\ chan[k] = "shut"
        /\ k \notin {Founded(n) : n \in live \cup muted} =>
              conn[k].transport = Nothing /\ chan[k] = "shut"
  <2> SUFFICES ASSUME NEW k \in Conns
               PROVE  /\ k \in {Founded(n) : n \in live} =>
                            /\ conn[k].state = "CONNECTED" /\ conn[k].transport = k
                            /\ chan[k] = "open"
                      /\ k \in {Founded(n) : n \in muted} =>
                            /\ conn[k].state = "DISABLED" /\ conn[k].transport = Nothing
                            /\ chan[k] = "shut"
                      /\ k \notin {Founded(n) : n \in live \cup muted} =>
                            conn[k].transport = Nothing /\ chan[k] = "shut"
    OBVIOUS
  <2>1. k \in {Founded(n) : n \in live} => k \notin {Founded(n) : n \in muted}
    <3>1. live \cap muted = {} /\ live \subseteq Names /\ muted \subseteq Names
      BY <1>1
    <3> QED BY <1>3, <3>1
  <2>2. CASE k \in {Founded(n) : n \in live}
    BY <1>1, <2>1, <2>2
  <2>3. CASE k \in {Founded(n) : n \in muted}
    BY <1>1, <2>1, <2>3 DEF New
  <2>4. CASE k \notin {Founded(n) : n \in live \cup muted}
    BY <1>1, <2>4 DEF New
  <2> QED BY <2>1, <2>2, <2>3, <2>4
<1>5. NamesInv
  <2>1. \A n \in Names : Known(n) => Name(servers[n]) = n
    BY <1>1, TasksAre DEF Known
  <2>2. \A t \in Tasks : Name(of[t]) = Name(t) /\ Name(closing[t]) = Name(t)
    BY <1>2
  <2>3. \A k \in Conns : conn[k].transport # Nothing => Name(conn[k].transport) = Name(k)
    BY <1>4
  <2> QED BY <2>1, <2>2, <2>3 DEF NamesInv
<1>6. TableInv
  <2> SUFFICES ASSUME NEW n \in Names PROVE InOrder(n)
    BY DEF TableInv
  <2>1. Founded(n) \in Conns /\ Name(Founded(n)) = n /\ Founded(n) # Nothing
    BY TasksAre
  <2>2. \A k \in Conns : chan[k] = "open" <=> k \in {Founded(m) : m \in live}
    BY <1>1
  <2>3. \A m \in Names : Name(Founded(m)) = m
    BY TasksAre
  <2>4. \A k : k \in Opened(n) <=> k = Founded(n) /\ n \in live
    <3>1. \A k : k \in Opened(n) <=> k \in Conns /\ Name(k) = n /\ chan[k] = "open"
      BY <1>2, OpenedIs
    <3> QED BY <2>1, <2>2, <2>3, <3>1
  <2>5. CASE n \in live
    <3>1. servers[n] = Founded(n) /\ Founded(n) \in {Founded(m) : m \in live}
      BY <1>1, <2>5
    <3>2. Live(n) /\ conn[servers[n]].transport = Founded(n)
      BY <1>4, <2>1, <3>1 DEF Live, Known
    <3> QED BY <1>2, <2>1, <2>4, <2>5, <3>2 DEF InOrder
  <2>6. CASE n \notin live
    <3>1. ~Live(n)
      <4>1. CASE n \in muted
        <5>1. servers[n] = Founded(n) /\ Founded(n) \in {Founded(m) : m \in muted}
          BY <1>1, <4>1
        <5> QED BY <1>4, <2>1, <5>1 DEF Live
      <4>2. CASE n \notin muted
        BY <1>1, <2>6, <4>2 DEF Live, Known
      <4> QED BY <4>1, <4>2
    <3> QED BY <2>4, <2>6, <3>1 DEF InOrder
  <2> QED BY <2>5, <2>6
<1>7. \A t \in Tasks : TaskInv(t)
  BY <1>2 DEF TaskInv, Work, Steps, Undoing
<1>8. CallInv
  BY <1>2, OfCaller, TasksAre DEF CallInv, Single
<1>9. ApartInv
  BY <1>2 DEF ApartInv, Busy
<1>10. AllInv
  BY <1>2 DEF AllInv
<1> QED BY <1>5, <1>6, <1>7, <1>8, <1>9, <1>10, TypesInit DEF ManagerInv, TableOrder

-----------------------------------------------------------------------------
(* connect_all.                                                            *)

LEMMA LiveFrame ==
    ASSUME ManagerTypeOK, NamesInv, NEW t \in Tasks, Touches(t),
           NEW m \in Names, m # Name(t)
    PROVE  Live(m)' <=> Live(m)
<1>1. servers'[m] = servers[m]
  BY DEF Touches
<1>2. CASE Known(m)
  <2>1. servers[m] \in Conns /\ Name(servers[m]) = m
    BY <1>2 DEF Known, ManagerTypeOK, NamesInv
  <2>2. conn'[servers[m]] = conn[servers[m]]
    BY <2>1 DEF Touches
  <2> QED BY <1>1, <2>2 DEF Live, Known
<1>3. CASE ~Known(m)
  BY <1>1, <1>3 DEF Live, Known
<1> QED BY <1>2, <1>3

(* Where a task of a connect_all gets by one step, from a clean-up after a *)
(* failure or before a new connection, or from no clean-up.                *)
LEMMA GatherStep ==
    ASSUME ManagerInv, NEW t \in Tasks, Task(t), op[Caller(t)] = "connect_all",
           at[t] \in Undoing => why[t] \in {"replace", "fail"}
    PROVE  /\ at'[t] = "returned" => Live(Name(t))'
           /\ at'[t] \in Undoing => why'[t] \in {"replace", "fail"}
<1>0. ManagerTypeOK /\ NamesInv /\ ~Enabling(t) /\ at[t] # "consent"
  BY DEF ManagerInv, TableOrder, CallInv, Enabling
<1>1. CASE LeaveSession(t) \/ LeaveTransport(t) \/ SessionExits(t) \/ TransportExits(t)
  <2>1. at[t] \in Undoing /\ why' = why
    BY <1>1 DEF LeaveSession, LeaveTransport, SessionExits, TransportExits, Resumes, Undoing
  <2>2. \E next : at' = [at EXCEPT ![t] = next] /\ next # "returned"
    BY <1>1 DEF LeaveSession, LeaveTransport, SessionExits, TransportExits, Stops, Goes
  <2>3. at'[t] # "returned"
    BY <1>0, <2>2, Moves
  <2> QED BY <2>1, <2>3
<1>2. CASE Cleaned(t)
  <2>1. why[t] \in {"replace", "fail"}
    BY <1>2 DEF Cleaned, Undoing
  <2>2. CASE CleanedToReplace(t)
    <3>1. at'[t] = "dialing"
      BY <1>0, <2>2, Moves DEF CleanedToReplace, Goes
    <3> QED BY <3>1 DEF Undoing
  <2>3. CASE CleanedAfterFailure(t)
    <3>1. at'[t] = "raised"
      BY <1>0, <2>3, EndsEffect DEF CleanedAfterFailure
    <3> QED BY <3>1 DEF Undoing
  <2> QED BY <1>2, <2>1, <2>2, <2>3 DEF Cleaned, CleanedForGood
<1>3. CASE Dial(t)
  <2>1. at'[t] \in {"opening", "raised"}
    BY <1>0, <1>3, Moves, EndsEffect DEF Dial, Stops
  <2> QED BY <2>1 DEF Undoing
<1>4. ASSUME CleanUp(t, "fail")
      PROVE  /\ at'[t] = "returned" => Live(Name(t))'
             /\ at'[t] \in Undoing => why'[t] \in {"replace", "fail"}
  <2>1. at'[t] = "cleaning" /\ why'[t] = "fail"
    BY <1>0, <1>4, CleanUpEffect
  <2> QED BY <2>1
<1>5. CASE Opens(t)
  <2>1. CASE Stops(t, "handshake")
    <3>1. at'[t] = "handshake"
      BY <1>0, <2>1, Moves DEF Stops
    <3> QED BY <3>1 DEF Undoing
  <2> QED BY <1>4, <1>5, <2>1 DEF Opens
<1>6. CASE Initializes(t)
  <2>1. CASE Stops(t, "listing")
    <3>1. at'[t] = "listing"
      BY <1>0, <2>1, Moves DEF Stops
    <3> QED BY <3>1 DEF Undoing
  <2> QED BY <1>4, <1>6, <2>1 DEF Initializes
<1>7. CASE Lists(t)
  <2>1. CASE /\ Becomes(t, "CONNECTED")
             /\ Ends(t, "returned")
             /\ servers' = IF Enabling(t) THEN servers
                           ELSE [servers EXCEPT ![Name(t)] = of[t]]
    <3>1. at'[t] = "returned"
      BY <1>0, <2>1, EndsEffect
    <3>2. conn'[of[t]].state = "CONNECTED"
      BY <1>0, <2>1, OfTask, WritesState DEF Becomes
    <3>3. servers'[Name(t)] = of[t] /\ of[t] # Nothing
      BY <1>0, <2>1, OfTask, TasksAre DEF ManagerTypeOK
    <3> QED BY <3>1, <3>2, <3>3 DEF Live, Known, Undoing
  <2> QED BY <1>4, <1>7, <2>1 DEF Lists
<1>8. CASE ChildStarts(t)
  <2>1. CASE Known(Name(t))
    <3>1. CleanUp(t, "replace")
      BY <1>8, <2>1 DEF ChildStarts, Connects, Evict
    <3>2. at'[t] = "cleaning" /\ why'[t] = "replace"
      BY <1>0, <3>1, CleanUpEffect
    <3> QED BY <3>2
  <2>2. CASE ~Known(Name(t))
    <3>1. at'[t] = "dialing"
      BY <1>0, <1>8, <2>2, Moves DEF ChildStarts, Connects, Goes
    <3> QED BY <3>1 DEF Undoing
  <2> QED BY <2>1, <2>2
<1>9. CASE Interrupted(t)
  <2>1. CASE CleanUp(t, "fail")
    BY <1>4, <2>1
  <2>2. CASE Ends(t, "raised")
    <3>1. at'[t] = "raised"
      BY <1>0, <2>2, EndsEffect
    <3> QED BY <3>1 DEF Undoing
  <2>3. CASE why[t] = "fail" /\ Goes(t, "cleaned") /\ UNCHANGED why
    <3>1. at'[t] = "cleaned"
      BY <1>0, <2>3, Moves DEF Goes
    <3> QED BY <2>3, <3>1
  <2> QED BY <1>9, <2>1, <2>2, <2>3 DEF Interrupted
<1>10. ~Consents(t)
  BY <1>0 DEF Consents, Resumes
<1> QED BY <1>1, <1>2, <1>3, <1>5, <1>6, <1>7, <1>8, <1>9, <1>10 DEF Task, Runs, Answered

(* And from a clean-up for good.                                           *)
LEMMA DropStep ==
    ASSUME ManagerInv, NEW t \in Tasks, Task(t), at[t] \in Undoing, why[t] = "disconnect"
    PROVE  /\ servers' = servers
           /\ Active(t)' => at'[t] \in Undoing /\ why'[t] = "disconnect"
<1>0. ManagerTypeOK
  BY DEF ManagerInv
<1>1. CASE LeaveSession(t) \/ LeaveTransport(t) \/ SessionExits(t) \/ TransportExits(t)
  <2>1. why' = why /\ servers' = servers
    BY <1>1 DEF LeaveSession, LeaveTransport, SessionExits, TransportExits, table
  <2>2. \E next \in Undoing : at' = [at EXCEPT ![t] = next]
    BY <1>1 DEF LeaveSession, LeaveTransport, SessionExits, TransportExits, Stops, Goes, Undoing
  <2>3. at'[t] \in Undoing
    BY <1>0, <2>2, Moves
  <2> QED BY <2>1, <2>3
<1>2. CASE Cleaned(t)
  <2>1. Ends(t, "returned") /\ servers' = servers
    BY <1>2 DEF Cleaned, CleanedToReplace, CleanedAfterFailure, CleanedForGood
  <2>2. at'[t] = "returned"
    BY <1>0, <2>1, EndsEffect
  <2> QED BY <2>1, <2>2 DEF Active, Waits, Steps
<1>3. CASE Interrupted(t)
  <2>1. Ends(t, "raised") /\ servers' = servers
    BY <1>3 DEF Interrupted, Undoing, table
  <2>2. at'[t] = "raised"
    BY <1>0, <2>1, EndsEffect
  <2> QED BY <2>1, <2>2 DEF Active, Waits, Steps
<1>4. ~ (\/ Dial(t) \/ Opens(t) \/ Initializes(t) \/ Lists(t) \/ ChildStarts(t) \/ Consents(t))
  BY DEF Dial, Opens, Initializes, Lists, ChildStarts, Consents, Resumes, Undoing
<1> QED BY <1>1, <1>2, <1>3, <1>4 DEF Task, Runs, Answered

(* A caller whose connect_all is under way is the only one that works.     *)
LEMMA AllAlone ==
    ASSUME CallInv, ApartInv, NEW c \in Callers, op[c] = "connect_all",
           phase[c] \in {"gather", "drop"}
    PROVE  /\ Busy(c) /\ \A d \in Callers : d # c => ~Busy(d)
           /\ \A t \in Tasks : Active(t) => Caller(t) = c
<1>1. Busy(c)
  BY DEF Busy, Over, Single
<1>2. \A d \in Callers : d # c => ~Busy(d)
  BY <1>1 DEF ApartInv, Single
<1>3. \A t \in Tasks : Active(t) => Caller(t) = c
  BY <1>2, ActiveBusy, TasksAre
<1> QED BY <1>1, <1>2, <1>3

LEMMA TaskAllStep ==
    ASSUME ManagerInv, AllInv, NEW t \in Tasks, Task(t)
    PROVE  AllInv'
<1>1. /\ Active(t) /\ Touches(t) /\ UNCHANGED <<op, phase, left, late>>
  BY TaskLocal
<1> SUFFICES ASSUME NEW c \in Callers, op[c] = "connect_all"
             PROVE  /\ phase[c] = "gather" => GatherInv(c)'
                    /\ phase[c] = "drop" /\ c \notin late => DropInv(c)'
  BY <1>1 DEF AllInv
<1>2. \A u \in Tasks : u # t => at'[u] = at[u] /\ why'[u] = why[u]
  BY <1>1 DEF Touches
<1>3. ASSUME phase[c] = "gather" PROVE GatherInv(c)'
  <2>1. GatherInv(c) /\ Caller(t) = c /\ t \in Of(c)
    BY <1>1, <1>3, AllAlone, OfCaller DEF AllInv, ManagerInv
  <2>2. /\ at'[t] = "returned" => Live(Name(t))'
        /\ at'[t] \in Undoing => why'[t] \in {"replace", "fail"}
    BY <2>1, GatherStep DEF GatherInv
  <2>3. ASSUME NEW u \in Of(c), u # t
        PROVE  /\ at'[u] = "returned" => Live(Name(u))'
               /\ at'[u] \in Undoing => why'[u] \in {"replace", "fail"}
    <3>1. u \in Tasks /\ Caller(u) = c
      BY OfCaller
    <3>2. Name(u) # Name(t) /\ Name(u) \in Names
      BY <2>1, <2>3, <3>1, TasksAre
    <3>3. Live(Name(u))' <=> Live(Name(u))
      BY <1>1, <3>2, LiveFrame DEF ManagerInv, TableOrder
    <3> QED BY <1>2, <2>1, <2>3, <3>1, <3>3 DEF GatherInv
  <2> QED BY <2>2, <2>3 DEF GatherInv, Of
<1>4. ASSUME phase[c] = "drop", c \notin late PROVE DropInv(c)'
  <2>1. DropInv(c) /\ Caller(t) = c /\ t \in Of(c)
    BY <1>1, <1>4, AllAlone, OfCaller DEF AllInv, ManagerInv
  <2>2. /\ servers' = servers
        /\ Active(t)' => at'[t] \in Undoing /\ why'[t] = "disconnect"
    BY <1>1, <2>1, DropStep DEF DropInv
  <2>3. \A u \in Of(c) : u # t /\ Active(u)' => at'[u] \in Undoing /\ why'[u] = "disconnect"
    BY <1>2, <2>1, OfCaller DEF DropInv, Active
  <2>4. \A n \in Names : Known(n)' => n \in left'[c]
    BY <1>1, <2>1, <2>2 DEF DropInv, Known
  <2> QED BY <2>2, <2>3, <2>4 DEF DropInv, Of
<1> QED BY <1>3, <1>4

LEMMA CallAllStep ==
    ASSUME ManagerInv, AllInv, ~Overlap, NEW c \in Callers, Call(c)
    PROVE  /\ AllInv'
           /\ \A d \in Callers : op[d] = "connect_all" /\ Busy(d) => FALSE
<1>1. PICK what, S : Asks(c, what, S)
  BY DEF Call, Connect, StartOAuth, Disconnect, DisableServer, EnableServer,
         DisconnectAll, ConnectAll
<1>2. /\ op[c] = "none" /\ \A t \in Of(c) : at[t] = "none"
      /\ op'[c] = what /\ \A d \in Callers : d # c => op'[d] = op[d]
      /\ \A d \in Callers : d # c /\ Busy(d) => op[d] \in Single
  BY <1>1, AskedAlone DEF ManagerInv
<1>3. \A d \in Callers : op[d] = "connect_all" => ~Busy(d)
  BY <1>2 DEF Single
<1>4. \A d \in Callers : d # c => phase'[d] = phase[d]
  BY DEF Call, Connect, StartOAuth, Disconnect, DisableServer, EnableServer,
         DisconnectAll, ConnectAll, ManagerInv, ManagerTypeOK
<1>5. ASSUME NEW d \in Callers, op'[d] = "connect_all", phase'[d] \in {"gather", "drop"}
      PROVE  phase'[d] = "gather" /\ GatherInv(d)'
  <2>1. d = c
    <3> SUFFICES ASSUME d # c PROVE FALSE
      OBVIOUS
    <3>1. op[d] = "connect_all" /\ phase[d] \in {"gather", "drop"}
      BY <1>2, <1>4, <1>5
    <3> QED BY <1>3, <3>1, AllAlone DEF ManagerInv
  <2>2. what = "connect_all"
    BY <1>2, <1>5, <2>1
  <2>3. \E T \in SUBSET Names : ConnectAll(c, T)
    <3>1. op' = [op EXCEPT ![c] = what]
      BY <1>1 DEF Asks
    <3>2. ASSUME NEW w, NEW T, Asks(c, w, T) PROVE w = "connect_all"
      BY <1>2, <1>5, <2>1, <3>2 DEF Asks, ManagerInv, ManagerTypeOK
    <3>3. ASSUME NEW n \in Names,
                 \/ Connect(c, n) \/ StartOAuth(c, n) \/ Disconnect(c, n)
                 \/ DisableServer(c, n) \/ EnableServer(c, n)
          PROVE  FALSE
      BY <3>2, <3>3 DEF Connect, StartOAuth, Disconnect, DisableServer, EnableServer
    <3>4. ~DisconnectAll(c)
      BY <3>2 DEF DisconnectAll
    <3> QED BY <3>3, <3>4 DEF Call
  <2>4. PICK T \in SUBSET Names : ConnectAll(c, T)
    BY <2>3
  <2>5. phase'[c] = "gather"
    BY <2>4 DEF ConnectAll, ManagerInv, ManagerTypeOK
  <2>6. \A t \in Of(c) : at'[t] \in {"none", "created"}
    BY <1>2, <2>4, OfCaller DEF ConnectAll
  <2>7. GatherInv(c)'
    BY <2>6 DEF GatherInv, Of, Undoing
  <2> QED BY <2>1, <2>5, <2>7
<1>6. AllInv'
  BY <1>5 DEF AllInv
<1> QED BY <1>3, <1>6

LEMMA SettleAllStep ==
    ASSUME ManagerInv, AllInv, NEW c \in Callers,
           AllConnected(c) \/ OneFailed(c) \/ Drained(c) \/ DroppedAll(c)
    PROVE  AllInv'
<1>1. PICK next \in {"drain", "drop", "returned", "raised"} : Settles(c, next)
  BY DEF AllConnected, OneFailed, Drained, DroppedAll
<1>2. /\ UNCHANGED <<servers, conn, at, of, why, op, late>>
      /\ phase'[c] = next /\ \A d \in Callers : d # c => phase'[d] = phase[d]
  BY <1>1 DEF Settles, table, tasks, ManagerInv, ManagerTypeOK
<1>3. \A d \in Callers : d # c => left'[d] = left[d]
  BY DEF AllConnected, OneFailed, Drained, DroppedAll, ManagerInv, ManagerTypeOK
<1>4. ASSUME NEW d \in Callers, op[d] = "connect_all"
      PROVE  /\ phase'[d] = "gather" => GatherInv(d)'
             /\ phase'[d] = "drop" /\ d \notin late => DropInv(d)'
  <2>1. CASE d # c
    <3>1. /\ phase[d] = "gather" => GatherInv(d)
          /\ phase[d] = "drop" /\ d \notin late => DropInv(d)
      BY <1>4 DEF AllInv
    <3>2. GatherInv(d)' <=> GatherInv(d)
      BY <1>2 DEF GatherInv, Live, Known
    <3>3. DropInv(d)' <=> DropInv(d)
      BY <1>2, <1>3, <2>1 DEF DropInv, Known, Active
    <3> QED BY <1>2, <2>1, <3>1, <3>2, <3>3
  <2>2. CASE d = c
    <3>1. phase'[c] # "gather"
      BY <1>2
    <3>2. ASSUME phase'[c] = "drop", c \notin late PROVE DropInv(c)'
      <4>1. Drained(c)
        BY <1>2, <3>2 DEF AllConnected, OneFailed, Drained, DroppedAll, Settles,
                          ManagerInv, ManagerTypeOK
      <4>2. left'[c] = {n \in Names : Known(n)} /\ StillConnecting(c) = {}
        BY <4>1 DEF Drained, ManagerInv, ManagerTypeOK
      <4>3. \A t \in Of(c) : ~Active(t)
        BY <4>2 DEF StillConnecting
      <4> QED BY <1>2, <4>2, <4>3 DEF DropInv, Known, Active
    <3> QED BY <2>2, <3>1, <3>2
  <2> QED BY <2>1, <2>2
<1> QED BY <1>2, <1>4 DEF AllInv

LEMMA DropAllStep ==
    ASSUME ManagerInv, AllInv, NEW c \in Callers, DropNext(c)
    PROVE  AllInv'
<1>1. PICK n \in left[c] : /\ left' = [left EXCEPT ![c] = @ \ {n}]
                           /\ Evict(<<c, n>>, "disconnect")
  BY DEF DropNext
<1> DEFINE t == <<c, n>>
<1>2. n \in Names /\ t \in Tasks /\ t \in Of(c) /\ Name(t) = n
  BY TasksAre, OfCaller DEF ManagerInv, ManagerTypeOK
<1>3. /\ phase[c] = "drop" /\ StillConnecting(c) = {}
      /\ UNCHANGED <<op, phase, late>>
  BY DEF DropNext, ghosts
<1>4. /\ servers'[n] = Nothing
      /\ \A m \in Names : m # n => servers'[m] = servers[m]
  BY <1>1, <1>2 DEF Evict, ManagerInv, ManagerTypeOK
<1> SUFFICES ASSUME NEW d \in Callers, op[d] = "connect_all"
             PROVE  /\ phase[d] = "gather" => GatherInv(d)'
                    /\ phase[d] = "drop" /\ d \notin late => DropInv(d)'
  BY <1>3 DEF AllInv
<1>5. phase[d] \in {"gather", "drop"} => d = c
  <2>1. Busy(c)
    BY <1>3 DEF ManagerInv, CallInv, Busy, Over, Single
  <2> QED BY <2>1, AllAlone DEF ManagerInv
<1>6. ASSUME d = c, c \notin late PROVE DropInv(c)'
  <2>1. DropInv(c)
    BY <1>3, <1>6 DEF AllInv
  <2>2. \A u \in Of(c) : ~Active(u)
    BY <1>3 DEF StillConnecting
  <2>3. left'[c] = left[c] \ {n}
    BY <1>1 DEF ManagerInv, ManagerTypeOK
  <2>4. \A m \in Names : Known(m)' => m \in left'[c]
    BY <1>4, <2>1, <2>3 DEF DropInv, Known
  <2>5. /\ Active(t)' => at'[t] \in Undoing /\ why'[t] = "disconnect"
        /\ \A u \in Tasks : u # t => at'[u] = at[u]
    <3>1. CASE CleanUp(t, "disconnect")
      BY <1>2, <3>1, CleanUpEffect DEF ManagerInv, Undoing
    <3>2. CASE at' = [at EXCEPT ![t] = "returned"]
      <4>1. at'[t] = "returned" /\ \A u \in Tasks : u # t => at'[u] = at[u]
        BY <1>2, <3>2, Moves DEF ManagerInv
      <4> QED BY <4>1 DEF Active, Waits, Steps
    <3> QED BY <1>1, <3>1, <3>2 DEF Evict
  <2>6. \A u \in Of(c) : u # t => ~Active(u)'
    BY <2>2, <2>5, OfCaller DEF Active
  <2> QED BY <2>4, <2>5, <2>6 DEF DropInv, Of
<1> QED BY <1>3, <1>5, <1>6

LEMMA CancelAllStep ==
    ASSUME ManagerInv, AllInv, NEW c \in Callers, HostCancels(c)
    PROVE  AllInv'
<1>1. /\ UNCHANGED <<servers, conn, at, of, why, op, left>>
      /\ late \subseteq late'
      /\ \A d \in Callers : phase'[d] = phase[d] \/ phase'[d] = "drain"
  BY DEF HostCancels, table, tasks, ManagerInv, ManagerTypeOK
<1>2. ASSUME NEW d \in Callers
      PROVE  (GatherInv(d)' <=> GatherInv(d)) /\ (DropInv(d)' <=> DropInv(d))
  <2>1. GatherInv(d)' <=> GatherInv(d)
    BY <1>1 DEF GatherInv, Live, Known
  <2>2. DropInv(d)' <=> DropInv(d)
    BY <1>1 DEF DropInv, Known, Active
  <2> QED BY <2>1, <2>2
<1> QED BY <1>1, <1>2 DEF AllInv

LEMMA AllStep ==
    ASSUME ManagerInv, AllInv, ~Overlap, [ManagerNext]_managerVars
    PROVE  AllInv'
<1>1. CASE UNCHANGED managerVars
  <2>1. UNCHANGED <<servers, conn, at, of, why, op, left, phase, late>>
    BY <1>1 DEF managerVars, table, tasks, calls, ghosts
  <2>2. ASSUME NEW d \in Callers
        PROVE  (GatherInv(d)' <=> GatherInv(d)) /\ (DropInv(d)' <=> DropInv(d))
    <3>1. GatherInv(d)' <=> GatherInv(d)
      BY <2>1 DEF GatherInv, Live, Known
    <3>2. DropInv(d)' <=> DropInv(d)
      BY <2>1 DEF DropInv, Known, Active
    <3> QED BY <3>1, <3>2
  <2> QED BY <2>1, <2>2 DEF AllInv
<1>2. ASSUME NEW t \in Tasks, Task(t) PROVE AllInv'
  BY <1>2, TaskAllStep
<1>3. ASSUME NEW c \in Callers, Settle(c) \/ Call(c) \/ HostCancels(c) PROVE AllInv'
  BY <1>3, SettleAllStep, DropAllStep, CallAllStep, CancelAllStep DEF Settle
<1> QED BY <1>1, <1>2, <1>3 DEF ManagerNext, Rest

-----------------------------------------------------------------------------
(* MCPManager's variables keep their types, whatever calls overlap.        *)
THEOREM ManagerTyped == ManagerSpec => []ManagerTypeOK
<1>1. ManagerInit => ManagerTypeOK
  BY TypesInit
<1>2. ManagerTypeOK /\ [ManagerNext]_managerVars => ManagerTypeOK'
  BY TypesStep
<1> QED BY <1>1, <1>2, PTL DEF ManagerSpec

(* While no two calls work on one server, every name is in order but those *)
(* a task works on, calls keep apart, and connect_all is on its way.       *)
THEOREM ManagerInvariant == ASSUME ~Overlap PROVE ManagerSpec => [](ManagerInv /\ AllInv)
<1>1. ManagerInit => ManagerInv /\ AllInv
  BY ManagerStart
<1>2. (ManagerInv /\ AllInv) /\ [ManagerNext]_managerVars => (ManagerInv /\ AllInv)'
  BY ManagerStep, AllStep
<1> QED BY <1>1, <1>2, PTL DEF ManagerSpec

LEMMA OneEach == ManagerInv => OneTransportEach
<1> SUFFICES ASSUME ManagerInv, NEW n \in Names, AtRest(n)
             PROVE  OpenFor(n) \ halfCut
                       = (IF Live(n) THEN {conn[servers[n]].transport} ELSE {}) \ halfCut
  BY DEF OneTransportEach
<1>1. \A c \in Callers : at[<<c, n>>] \notin Work
  BY DEF AtRest, Active, Work, Waits, Steps
<1> QED BY <1>1 DEF ManagerInv, TableOrder, TableInv, InOrder, Opened

(* A name at rest has the one open transport its table entry holds, or     *)
(* none (manager.py, MCPServerConnection): for any servers and any number  *)
(* of callers and cancellations, as long as the host makes one call at a   *)
(* time on a server (~Overlap), which nothing in the manager sees to.      *)
THEOREM OneTransportAlways == ASSUME ~Overlap PROVE ManagerSpec => []OneTransportEach
<1>1. ManagerSpec => [](ManagerInv /\ AllInv)
  BY ManagerInvariant
<1>2. ManagerInv /\ AllInv => OneTransportEach
  BY OneEach
<1> QED BY <1>1, <1>2, PTL

(* The step that ends a connect_all.                                       *)
LEMMA AllEnds ==
    ASSUME ManagerInv, AllInv, ~Overlap, ManagerNext, NEW c \in Callers,
           op[c] = "connect_all", Busy(c), ~Busy(c)'
    PROVE  \/ phase'[c] = "raised" /\ (c \in late' \/ \A n \in Names : ~Known(n)')
           \/ phase'[c] = "returned" /\ \A t \in Of(c) : at'[t] # "none" => Live(Name(t))'
<1>0. phase[c] \notin {"returned", "raised"}
  BY DEF Busy, Over
<1>1. ASSUME op'[c] = op[c], phase'[c] \notin {"returned", "raised"} PROVE FALSE
  BY <1>1 DEF Busy, Over, Single
<1>2. ASSUME NEW t \in Tasks, Task(t) PROVE FALSE
  <2>1. UNCHANGED <<op, phase>>
    BY <1>2, TaskLocal
  <2> QED BY <1>0, <1>1, <2>1
<1>3. ASSUME NEW d \in Callers, Call(d) PROVE FALSE
  BY <1>3, CallAllStep
<1>4. ASSUME NEW d \in Callers, HostCancels(d) PROVE FALSE
  <2>1. op' = op /\ (phase'[c] = phase[c] \/ phase'[c] = "drain")
    BY <1>4 DEF HostCancels, ManagerInv, ManagerTypeOK
  <2> QED BY <1>0, <1>1, <2>1
<1>5. ASSUME UNCHANGED managerVars PROVE FALSE
  BY <1>0, <1>1, <1>5 DEF managerVars, calls
<1>6. ASSUME NEW d \in Callers, DropNext(d) PROVE FALSE
  <2>1. UNCHANGED <<op, phase>>
    BY <1>6 DEF DropNext
  <2> QED BY <1>0, <1>1, <2>1
<1>7. ASSUME NEW d \in Callers, NEW next, Settles(d, next)
      PROVE  /\ UNCHANGED <<servers, conn, at, op, late>>
             /\ d = c /\ phase'[c] = next /\ next \in {"returned", "raised"}
  <2>1. UNCHANGED <<servers, conn, at, op, late>>
    BY <1>7 DEF Settles, table, tasks
  <2>2. phase'[d] = next /\ (d # c => phase'[c] = phase[c])
    BY <1>7 DEF Settles, ManagerInv, ManagerTypeOK
  <2> QED BY <1>0, <1>1, <2>1, <2>2
<1>8. ASSUME NEW d \in Callers,
             AllConnected(d) \/ OneFailed(d) \/ Drained(d) \/ DroppedAll(d)
      PROVE  \/ phase'[c] = "raised" /\ (c \in late' \/ \A n \in Names : ~Known(n)')
             \/ phase'[c] = "returned" /\ \A t \in Of(c) : at'[t] # "none" => Live(Name(t))'
  <2>1. CASE AllConnected(d)
    <3>1. /\ phase[d] = "gather" /\ \A t \in Of(d) : at[t] \in {"none", "returned"}
          /\ Settles(d, "returned")
      BY <2>1 DEF AllConnected
    <3>2. UNCHANGED <<servers, conn, at, op, late>> /\ d = c /\ phase'[c] = "returned"
      BY <1>7, <3>1
    <3>3. GatherInv(c)
      BY <3>1, <3>2 DEF AllInv
    <3>4. \A t \in Of(c) : at'[t] # "none" => Live(Name(t))
      BY <3>1, <3>2, <3>3 DEF GatherInv
    <3> QED BY <3>2, <3>4 DEF Live, Known
  <2>2. CASE OneFailed(d)
    BY <1>7, <2>2 DEF OneFailed
  <2>3. CASE Drained(d)
    <3>1. Settles(d, IF d \in late THEN "raised" ELSE "drop")
      BY <2>3 DEF Drained
    <3>2. CASE d \in late
      BY <1>7, <3>1, <3>2
    <3>3. CASE d \notin late
      <4>1. Settles(d, "drop")
        BY <3>1, <3>3
      <4> QED BY <1>7, <4>1
    <3> QED BY <3>2, <3>3
  <2>4. CASE DroppedAll(d)
    <3>1. /\ phase[d] = "drop" /\ (left[d] = {} \/ d \in late)
          /\ Settles(d, IF op[d] = "connect_all" \/ d \in late THEN "raised" ELSE "returned")
      BY <2>4 DEF DroppedAll
    <3>2. UNCHANGED <<servers, conn, at, op, late>> /\ d = c
      BY <1>7, <3>1
    <3>3. Settles(c, "raised")
      BY <3>1, <3>2
    <3>4. phase'[c] = "raised"
      BY <1>7, <3>3
    <3>5. CASE c \notin late
      <4>1. \A n \in Names : ~Known(n)
        BY <3>1, <3>2, <3>5 DEF AllInv, DropInv
      <4> QED BY <3>2, <3>4, <4>1 DEF Known
    <3> QED BY <3>2, <3>4, <3>5
  <2> QED BY <1>8, <2>1, <2>2, <2>3, <2>4
<1> QED BY <1>2, <1>3, <1>4, <1>5, <1>6, <1>8 DEF ManagerNext, Settle, Rest

(* connect_all (MCPManager.connect_all) leaves every server it was given   *)
(* connected, or none in the table, under the same condition.              *)
THEOREM AllOrNothingAlways == ASSUME ~Overlap PROVE ManagerSpec => AllOrNothing
<1>1. ManagerSpec => [](ManagerInv /\ AllInv)
  BY ManagerInvariant
<1>2. (ManagerInv /\ AllInv) /\ [ManagerNext]_managerVars =>
        [\A c \in Callers :
            op[c] = "connect_all" /\ Busy(c) /\ ~Busy(c)' =>
               \/ phase'[c] = "raised" /\ (c \in late' \/ \A n \in Names : ~Known(n)')
               \/ /\ phase'[c] = "returned"
                  /\ \A t \in Of(c) : at'[t] # "none" => Live(Name(t))']_managerVars
  BY AllEnds
<1> QED BY <1>1, <1>2, PTL DEF ManagerSpec, AllOrNothing

-----------------------------------------------------------------------------
(* A server somebody disabled.                                             *)

(* The connection t has yet to make is not muted, and nobody's.            *)
Unused(t) ==
    \/ at[t] \in {"none", "created", "consent"}
    \/ (at[t] \in Undoing /\ why[t] = "replace")

UnusedInv ==
    \A t \in Tasks : Unused(t) =>
       /\ conn[t].state # "DISABLED" /\ servers[Name(t)] # t
       /\ \A u \in Tasks : u # t => of[u] # t

(* Nor is the one it connects, until it is done with it.                   *)
Dialling(t) ==
    \/ at[t] \in {"dialing", "opening", "handshake", "listing"}
    \/ (at[t] \in Undoing /\ why[t] = "fail")

DiallingInv == \A t \in Tasks : Dialling(t) => conn[of[t]].state # "DISABLED"

MutedInv == UnusedInv /\ DiallingInv

(* What a step of t may do to the connections' states and owners.          *)
Respects(t) ==
    /\ of'[t] \in {t, of[t], servers[Name(t)]}
    /\ servers'[Name(t)] \in {Nothing, servers[Name(t)], of[t]}
    /\ \A k \in Conns : k \notin {of[t], servers[Name(t)]} => conn'[k].state = conn[k].state
    /\ Unused(t)' => Unused(t) /\ conn'[t].state # "DISABLED" /\ servers'[Name(t)] # t
    /\ Dialling(t)' => conn'[of'[t]].state # "DISABLED"
    /\ \A k \in Conns :
          conn[k].state = "DISABLED" => conn'[k].state \in {"DISABLED", "PENDING"}

LEMMA RespectsKeeps ==
    ASSUME ManagerTypeOK, NamesInv, NamesInv', MutedInv, NEW t \in Tasks,
           Touches(t), Alone1(t), Respects(t)
    PROVE  MutedInv'
<1> USE DEF MutedInv
<1>1. \A u \in Tasks : u # t => at'[u] = at[u] /\ of'[u] = of[u] /\ why'[u] = why[u]
  BY DEF Touches
<1>2. \A u \in Tasks : /\ u \in Conns /\ Name(u) \in Names /\ u # Nothing
                       /\ Name(of[u]) = Name(u) /\ Name(of'[u]) = Name(u) /\ of[u] \in Conns
  BY OfTask DEF NamesInv
<1>3. ASSUME NEW u \in Tasks, Unused(u)'
      PROVE  /\ conn'[u].state # "DISABLED" /\ servers'[Name(u)] # u
             /\ \A v \in Tasks : v # u => of'[v] # u
  <2>1. Unused(u)
    BY <1>1, <1>3 DEF Unused, Respects
  <2>2. /\ conn[u].state # "DISABLED" /\ servers[Name(u)] # u
        /\ \A v \in Tasks : v # u => of[v] # u
    BY <2>1 DEF UnusedInv
  <2>3. CASE u = t
    BY <1>1, <1>3, <2>2, <2>3 DEF Respects
  <2>4. CASE u # t /\ Name(u) # Name(t)
    <3>1. conn'[u] = conn[u] /\ servers'[Name(u)] = servers[Name(u)]
      BY <1>2, <2>4 DEF Touches
    <3>2. of'[t] # u
      BY <1>2, <2>4
    <3> QED BY <1>1, <2>2, <3>1, <3>2
  <2>5. CASE u # t /\ Name(u) = Name(t)
    <3>1. u \notin {t, of[t], servers[Name(t)], Nothing}
      BY <1>2, <2>2, <2>5
    <3>2. conn'[u].state = conn[u].state /\ servers'[Name(u)] # u /\ of'[t] # u
      BY <1>2, <2>5, <3>1 DEF Respects
    <3> QED BY <1>1, <2>2, <3>2
  <2> QED BY <2>3, <2>4, <2>5
<1>4. ASSUME NEW u \in Tasks, Dialling(u)' PROVE conn'[of'[u]].state # "DISABLED"
  <2>1. CASE u = t
    BY <1>4, <2>1 DEF Respects
  <2>2. CASE u # t
    <3>1. Dialling(u) /\ of'[u] = of[u]
      BY <1>1, <1>4, <2>2 DEF Dialling
    <3>2. at[u] \in Work
      BY <3>1 DEF Dialling, Work, Steps, Undoing
    <3>3. Name(u) # Name(t)
      BY <2>2, <3>2 DEF Alone1
    <3>4. conn'[of[u]] = conn[of[u]]
      BY <1>2, <3>3 DEF Touches
    <3> QED BY <3>1, <3>4 DEF DiallingInv
  <2> QED BY <2>1, <2>2
<1> QED BY <1>3, <1>4 DEF UnusedInv, DiallingInv

(* A step that writes no state.                                            *)
LEMMA RespectsSame ==
    ASSUME ManagerTypeOK, NamesInv, MutedInv, NEW t \in Tasks,
           \A k \in Conns : conn'[k].state = conn[k].state,
           of'[t] \in {t, of[t], servers[Name(t)]},
           servers'[Name(t)] \in {Nothing, servers[Name(t)]},
           Unused(t)' => Unused(t),
           Dialling(t)' => (Dialling(t) /\ of'[t] = of[t]) \/ (Unused(t) /\ of'[t] = t)
    PROVE  Respects(t)
<1>1. of[t] \in Conns /\ t \in Conns /\ t # Nothing
  BY OfTask
<1>2. Unused(t) => conn'[t].state # "DISABLED" /\ servers'[Name(t)] # t
  BY <1>1 DEF MutedInv, UnusedInv
<1>3. Dialling(t) => conn'[of[t]].state # "DISABLED"
  BY <1>1 DEF MutedInv, DiallingInv
<1> QED BY <1>2, <1>3 DEF Respects

LEMMA ConnectsRespects ==
    ASSUME ManagerTypeOK, NamesInv, MutedInv, NEW t \in Tasks, Unused(t), Connects(t)
    PROVE  Respects(t)
<1>0. conn' = conn
  BY DEF Connects, Evict
<1>1. CASE Known(Name(t))
  <2>1. /\ servers' = [servers EXCEPT ![Name(t)] = Nothing]
        /\ of' = [of EXCEPT ![t] = servers[Name(t)]] /\ CleanUp(t, "replace")
    BY <1>1 DEF Connects, Evict
  <2>2. at'[t] = "cleaning" /\ why'[t] = "replace"
    BY <2>1, CleanUpEffect
  <2>3. servers'[Name(t)] = Nothing /\ of'[t] = servers[Name(t)]
    BY <2>1, OfTask DEF ManagerTypeOK
  <2>4. ~Dialling(t)'
    BY <2>2 DEF Dialling
  <2> QED BY <1>0, <2>3, <2>4, RespectsSame
<1>2. CASE ~Known(Name(t))
  <2>1. /\ at' = [at EXCEPT ![t] = "dialing"] /\ of' = [of EXCEPT ![t] = t]
        /\ servers' = servers
    BY <1>2 DEF Connects, Goes, table
  <2>2. at'[t] = "dialing" /\ of'[t] = t
    BY <2>1, Moves DEF ManagerTypeOK
  <2>3. ~Unused(t)'
    BY <2>2 DEF Unused, Undoing
  <2> QED BY <1>0, <2>1, <2>2, <2>3, RespectsSame
<1> QED BY <1>1, <1>2

LEMMA EvictRespects ==
    ASSUME ManagerTypeOK, NamesInv, MutedInv, NEW t \in Tasks, Evict(t, "disconnect")
    PROVE  Respects(t)
<1>1. conn' = conn /\ servers' = [servers EXCEPT ![Name(t)] = Nothing]
  BY DEF Evict
<1>2. servers'[Name(t)] = Nothing
  BY <1>1, OfTask DEF ManagerTypeOK
<1>3. CASE Known(Name(t))
  <2>1. of' = [of EXCEPT ![t] = servers[Name(t)]] /\ CleanUp(t, "disconnect")
    BY <1>3 DEF Evict
  <2>2. of'[t] = servers[Name(t)] /\ at'[t] = "cleaning" /\ why'[t] = "disconnect"
    BY <2>1, CleanUpEffect DEF ManagerTypeOK
  <2>3. ~Unused(t)' /\ ~Dialling(t)'
    BY <2>2 DEF Unused, Dialling, Undoing
  <2> QED BY <1>1, <1>2, <2>2, <2>3, RespectsSame
<1>4. CASE ~Known(Name(t))
  <2>1. of' = of /\ at' = [at EXCEPT ![t] = "returned"]
    BY <1>4 DEF Evict
  <2>2. at'[t] = "returned"
    BY <2>1, Moves
  <2>3. ~Unused(t)' /\ ~Dialling(t)'
    BY <2>2 DEF Unused, Dialling, Undoing
  <2> QED BY <1>1, <1>2, <2>1, <2>3, RespectsSame
<1> QED BY <1>3, <1>4

(* The steps of a clean-up.                                                *)
LEMMA CleanUpRespects ==
    ASSUME ManagerTypeOK, NamesInv, MutedInv, NEW t \in Tasks,
           LeaveSession(t) \/ LeaveTransport(t) \/ SessionExits(t) \/ TransportExits(t)
    PROVE  Respects(t)
<1>1. at[t] \in Undoing /\ UNCHANGED <<servers, of, why>>
  BY DEF LeaveSession, LeaveTransport, SessionExits, TransportExits, Resumes, Undoing, table
<1>2. PICK next \in Undoing : at' = [at EXCEPT ![t] = next]
  BY DEF LeaveSession, LeaveTransport, SessionExits, TransportExits, Stops, Goes, Undoing
<1>3. at'[t] = next
  BY <1>2, Moves
<1>4. \A k \in Conns : conn'[k].state = conn[k].state
  <2>0. of[t] \in Conns
    BY OfTask
  <2>1. \/ conn' = conn
        \/ conn' = [conn EXCEPT ![of[t]].transport = Nothing]
        \/ conn' = [conn EXCEPT ![of[t]].session = Nothing]
    BY DEF LeaveSession, LeaveTransport, SessionExits, TransportExits
  <2>2. CASE conn' = conn
    BY <2>2
  <2>3. CASE conn' = [conn EXCEPT ![of[t]].transport = Nothing]
    BY <2>0, <2>3, WritesTransport DEF Rest1
  <2>4. CASE conn' = [conn EXCEPT ![of[t]].session = Nothing]
    BY <2>0, <2>4, WritesSession DEF Rest1
  <2> QED BY <2>1, <2>2, <2>3, <2>4
<1>5. (Unused(t)' => Unused(t)) /\ (Dialling(t)' => Dialling(t))
  BY <1>1, <1>3 DEF Unused, Dialling, Undoing
<1> QED BY <1>1, <1>4, <1>5, RespectsSame

LEMMA CleanedRespects ==
    ASSUME ManagerTypeOK, NamesInv, MutedInv, NEW t \in Tasks, Cleaned(t)
    PROVE  Respects(t)
<1>1. at[t] = "cleaned" /\ servers' = servers /\ of[t] \in Conns /\ t \in Conns /\ t # Nothing
  BY OfTask DEF Cleaned
<1>2. CASE CleanedToReplace(t)
  <2>1. /\ conn' = [conn EXCEPT ![of[t]] = New] /\ of' = [of EXCEPT ![t] = t]
        /\ at' = [at EXCEPT ![t] = "dialing"] /\ why[t] = "replace"
    BY <1>2 DEF CleanedToReplace, Dropped, Goes
  <2>2. /\ conn'[of[t]].state = "PENDING"
        /\ \A k \in Conns : k # of[t] => conn'[k] = conn[k]
    BY <1>1, <2>1, StartsAnew DEF Rest1
  <2>3. at'[t] = "dialing" /\ of'[t] = t
    BY <2>1, Moves DEF ManagerTypeOK
  <2>4. conn[t].state # "DISABLED"
    BY <1>1, <2>1 DEF MutedInv, UnusedInv, Unused, Undoing
  <2>5. conn'[t].state # "DISABLED"
    BY <1>1, <2>2, <2>4
  <2>6. ~Unused(t)'
    BY <2>3 DEF Unused, Undoing
  <2> QED BY <1>1, <2>2, <2>3, <2>5, <2>6 DEF Respects
<1>3. CASE CleanedAfterFailure(t)
  <2>1. why[t] = "fail" /\ Ends(t, "raised")
    BY <1>3 DEF CleanedAfterFailure
  <2>2. conn[of[t]].state # "DISABLED"
    BY <1>1, <2>1 DEF MutedInv, DiallingInv, Dialling, Undoing
  <2>3. \A k \in Conns : k # of[t] => conn'[k] = conn[k]
    <3>1. \/ conn' = [conn EXCEPT ![of[t]].state = "FAILED"]
          \/ conn' = [conn EXCEPT ![of[t]] = New]
      BY <1>3 DEF CleanedAfterFailure, Becomes, Dropped
    <3> QED BY <1>1, <3>1, WritesState, StartsAnew DEF Rest1
  <2>4. at'[t] = "raised" /\ of'[t] = t
    BY <2>1, EndsEffect
  <2>5. ~Unused(t)' /\ ~Dialling(t)'
    BY <2>4 DEF Unused, Dialling, Undoing
  <2> QED BY <1>1, <2>2, <2>3, <2>4, <2>5 DEF Respects
<1>4. CASE CleanedForGood(t)
  <2>1. Ends(t, "returned")
    BY <1>4 DEF CleanedForGood
  <2>2. /\ conn'[of[t]].state \in {"DISABLED", "PENDING"}
        /\ \A k \in Conns : k # of[t] => conn'[k] = conn[k]
    <3>1. \/ conn' = [conn EXCEPT ![of[t]].state = "DISABLED"]
          \/ conn' = [conn EXCEPT ![of[t]] = New]
      BY <1>4 DEF CleanedForGood, Becomes, Dropped
    <3> QED BY <1>1, <3>1, WritesState, StartsAnew DEF Rest1
  <2>3. at'[t] = "returned" /\ of'[t] = t
    BY <2>1, EndsEffect
  <2>4. ~Unused(t)' /\ ~Dialling(t)'
    BY <2>3 DEF Unused, Dialling, Undoing
  <2> QED BY <1>1, <2>2, <2>3, <2>4 DEF Respects
<1> QED BY <1>2, <1>3, <1>4 DEF Cleaned

(* The steps of a connection.                                              *)
LEMMA DialRespects ==
    ASSUME ManagerTypeOK, NamesInv, MutedInv, NEW t \in Tasks, Dial(t)
    PROVE  Respects(t)
<1>1. at[t] = "dialing" /\ servers' = servers /\ of[t] \in Conns /\ t \in Conns
  BY OfTask DEF Dial
<1>2. CASE conn' = [conn EXCEPT ![of[t]].transport = t] /\ Stops(t, "opening") /\ of' = of
  <2>1. \A k \in Conns : conn'[k].state = conn[k].state
    BY <1>1, <1>2, WritesTransport DEF Rest1
  <2>2. at'[t] = "opening"
    BY <1>2, Moves DEF Stops
  <2>3. ~Unused(t)' /\ Dialling(t)
    BY <1>1, <2>2 DEF Unused, Dialling, Undoing
  <2> QED BY <1>1, <1>2, <2>1, <2>3, RespectsSame
<1>3. CASE Ends(t, "raised") /\ conn' = conn
  <2>1. at'[t] = "raised" /\ of'[t] = t
    BY <1>3, EndsEffect
  <2>2. ~Unused(t)' /\ ~Dialling(t)'
    BY <2>1 DEF Unused, Dialling, Undoing
  <2> QED BY <1>1, <1>3, <2>1, <2>2, RespectsSame
<1> QED BY <1>2, <1>3 DEF Dial

LEMMA FailsRespects ==
    ASSUME ManagerTypeOK, NamesInv, MutedInv, NEW t \in Tasks, CleanUp(t, "fail"),
           Dialling(t), UNCHANGED <<servers, conn, of>>
    PROVE  Respects(t)
<1>1. at'[t] = "cleaning" /\ why'[t] = "fail"
  BY CleanUpEffect
<1>2. ~Unused(t)'
  BY <1>1 DEF Unused
<1> QED BY <1>2, RespectsSame

LEMMA AttachRespects ==
    ASSUME ManagerTypeOK, NamesInv, MutedInv, NEW t \in Tasks,
           Opens(t) \/ Initializes(t) \/ Lists(t)
    PROVE  Respects(t)
<1>1. Dialling(t) /\ of[t] \in Conns /\ t \in Conns
  BY OfTask DEF Opens, Initializes, Lists, Resumes, Dialling
<1>2. CASE CleanUp(t, "fail") /\ UNCHANGED <<servers, conn, of>>
  BY <1>1, <1>2, FailsRespects
<1>3. ASSUME NEW next \in {"handshake", "listing"}, Stops(t, next), UNCHANGED <<servers, of>>,
             conn' = conn \/ conn' = [conn EXCEPT ![of[t]].session = t]
      PROVE  Respects(t)
  <2>1. \A k \in Conns : conn'[k].state = conn[k].state
    <3>1. CASE conn' = conn
      BY <3>1
    <3>2. CASE conn' = [conn EXCEPT ![of[t]].session = t]
      BY <1>1, <3>2, WritesSession DEF Rest1
    <3> QED BY <1>3, <3>1, <3>2
  <2>2. at'[t] = next
    BY <1>3, Moves DEF Stops
  <2>3. ~Unused(t)'
    BY <2>2 DEF Unused, Undoing
  <2> QED BY <1>1, <1>3, <2>1, <2>3, RespectsSame
<1>4. CASE Opens(t)
  BY <1>2, <1>3, <1>4 DEF Opens, table
<1>5. CASE Initializes(t)
  BY <1>2, <1>3, <1>5 DEF Initializes, table
<1>6. CASE Lists(t) /\ Becomes(t, "CONNECTED") /\ Ends(t, "returned")
  <2>1. /\ conn[of[t]].state # "DISABLED"
        /\ \A k \in Conns : k # of[t] => conn'[k] = conn[k]
    BY <1>1, <1>6, WritesState DEF MutedInv, DiallingInv, Becomes, Rest1
  <2>2. servers'[Name(t)] \in {servers[Name(t)], of[t]}
    BY <1>6, OfTask DEF Lists, ManagerTypeOK
  <2>3. at'[t] = "returned" /\ of'[t] = t
    BY <1>6, EndsEffect
  <2>4. ~Unused(t)' /\ ~Dialling(t)'
    BY <2>3 DEF Unused, Dialling, Undoing
  <2> QED BY <2>1, <2>2, <2>3, <2>4 DEF Respects
<1> QED BY <1>2, <1>4, <1>5, <1>6 DEF Lists

LEMMA InterruptedRespects ==
    ASSUME ManagerTypeOK, NamesInv, MutedInv, NEW t \in Tasks, Interrupted(t)
    PROVE  Respects(t)
<1>1. UNCHANGED <<servers, conn>>
  BY DEF Interrupted, table
<1>2. CASE \E how \in {"raised"} : Ends(t, how)
  <2>1. at'[t] = "raised" /\ of'[t] = t
    BY <1>2, EndsEffect
  <2>2. ~Unused(t)' /\ ~Dialling(t)'
    BY <2>1 DEF Unused, Dialling, Undoing
  <2> QED BY <1>1, <2>1, <2>2, RespectsSame
<1>3. CASE at[t] \in {"opening", "handshake", "listing"} /\ CleanUp(t, "fail") /\ of' = of
  BY <1>1, <1>3, FailsRespects DEF Dialling
<1>4. CASE /\ at[t] \in {"exitSession", "exitTransport"} /\ why[t] = "fail"
           /\ Goes(t, "cleaned") /\ UNCHANGED <<of, why>>
  <2>1. at'[t] = "cleaned"
    BY <1>4, Moves DEF Goes
  <2>2. ~Unused(t)' /\ Dialling(t)
    BY <1>4, <2>1 DEF Unused, Dialling, Undoing
  <2> QED BY <1>1, <1>4, <2>2, RespectsSame
<1> QED BY <1>2, <1>3, <1>4 DEF Interrupted

LEMMA TaskRespects ==
    ASSUME ManagerInv, MutedInv, NEW t \in Tasks, Task(t)
    PROVE  Respects(t) /\ MutedInv'
<1>1. ManagerTypeOK /\ NamesInv
  BY DEF ManagerInv, TableOrder
<1>2. Respects(t)
  <2>1. CASE Interrupted(t)
    BY <1>1, <2>1, InterruptedRespects
  <2>2. CASE LeaveSession(t) \/ LeaveTransport(t) \/ SessionExits(t) \/ TransportExits(t)
    BY <1>1, <2>2, CleanUpRespects
  <2>3. CASE Cleaned(t) \/ Dial(t)
    BY <1>1, <2>3, CleanedRespects, DialRespects
  <2>4. CASE Opens(t) \/ Initializes(t) \/ Lists(t)
    BY <1>1, <2>4, AttachRespects
  <2>5. CASE at[t] \in {"created", "consent"} /\ Connects(t)
    BY <1>1, <2>5, ConnectsRespects DEF Unused
  <2>6. CASE Consents(t) /\ Ends(t, "returned") /\ UNCHANGED <<table, conn>>
    <3>1. at'[t] = "returned" /\ of'[t] = t
      BY <1>1, <2>6, EndsEffect
    <3>2. ~Unused(t)' /\ ~Dialling(t)'
      BY <3>1 DEF Unused, Dialling, Undoing
    <3> QED BY <1>1, <2>6, <3>1, <3>2, RespectsSame DEF table
  <2>7. CASE Consents(t) \/ ChildStarts(t)
    BY <2>5, <2>6, <2>7 DEF Consents, ChildStarts, Resumes, table
  <2> QED BY <2>1, <2>2, <2>3, <2>4, <2>7 DEF Task, Runs, Answered
<1>3. MutedInv'
  BY <1>1, <1>2, TaskLocal, RespectsKeeps
<1> QED BY <1>2, <1>3

(* A call on one server.                                                   *)
LEMMA CallRespects ==
    ASSUME ManagerInv, MutedInv, ~Overlap, NEW c \in Callers, NEW n \in Names,
           \/ Connect(c, n) \/ StartOAuth(c, n) \/ Disconnect(c, n)
           \/ DisableServer(c, n) \/ EnableServer(c, n)
    PROVE  Respects(<<c, n>>) /\ MutedInv'
<1> DEFINE t == <<c, n>>
<1>1. /\ TableOrder' /\ Touches(t) /\ Alone1(t) /\ at[t] = "none"
  BY CallTableStep
<1>2. ManagerTypeOK /\ NamesInv /\ NamesInv' /\ t \in Tasks /\ Name(t) = n
  BY <1>1, TasksAre DEF ManagerInv, TableOrder
<1> HIDE DEF t
<1>3. Unused(t)
  BY <1>1 DEF Unused
<1>4. Respects(t)
  <2>1. CASE Connect(c, n)
    BY <1>2, <1>3, <2>1, ConnectsRespects DEF Connect, t
  <2>2. CASE Disconnect(c, n)
    BY <1>2, <2>2, EvictRespects DEF Disconnect, t
  <2>3. CASE StartOAuth(c, n)
    <3>1. UNCHANGED <<servers, conn, of>> /\ at' = [at EXCEPT ![t] = "consent"]
      BY <2>3 DEF StartOAuth, table, Stops, t
    <3>2. at'[t] = "consent"
      BY <1>2, <3>1, Moves
    <3>3. ~Dialling(t)'
      BY <3>2 DEF Dialling, Undoing
    <3> QED BY <1>2, <1>3, <3>1, <3>3, RespectsSame
  <2>4. CASE DisableServer(c, n)
    <3>1. /\ of' = [of EXCEPT ![t] = servers[n]] /\ CleanUp(t, "disable")
          /\ UNCHANGED <<servers, conn>>
      BY <2>4 DEF DisableServer, table, t
    <3>2. of'[t] = servers[n] /\ at'[t] = "cleaning" /\ why'[t] = "disable"
      BY <1>2, <3>1, CleanUpEffect DEF ManagerTypeOK
    <3>3. ~Unused(t)' /\ ~Dialling(t)'
      BY <3>2 DEF Unused, Dialling, Undoing
    <3> QED BY <1>2, <3>1, <3>2, <3>3, RespectsSame
  <2>5. CASE EnableServer(c, n)
    <3>1. /\ of' = [of EXCEPT ![t] = servers[n]] /\ at' = [at EXCEPT ![t] = "dialing"]
          /\ conn' = [conn EXCEPT ![servers[n]].state = "PENDING"] /\ servers' = servers
      BY <2>5 DEF EnableServer, Goes, table, t
    <3>2. servers[n] \in Conns
      BY <1>2, <2>5 DEF EnableServer, Known, ManagerTypeOK
    <3>3. of'[t] = servers[n] /\ at'[t] = "dialing"
      BY <1>2, <3>1, Moves DEF ManagerTypeOK
    <3>4. /\ conn'[servers[n]].state = "PENDING"
          /\ \A k \in Conns : k # servers[n] => conn'[k] = conn[k]
      BY <1>2, <3>1, <3>2, WritesState DEF Rest1
    <3>5. ~Unused(t)'
      BY <3>3 DEF Unused, Undoing
    <3> QED BY <1>2, <3>1, <3>3, <3>4, <3>5 DEF Respects
  <2> QED BY <2>1, <2>2, <2>3, <2>4, <2>5
<1>5. MutedInv'
  BY <1>1, <1>2, <1>4, RespectsKeeps
<1> QED BY <1>4, <1>5 DEF t

LEMMA DropRespects ==
    ASSUME ManagerInv, MutedInv, NEW c \in Callers, DropNext(c)
    PROVE  conn' = conn /\ MutedInv'
<1>1. PICK n \in left[c] : Evict(<<c, n>>, "disconnect")
  BY DEF DropNext
<1> DEFINE t == <<c, n>>
<1>2. TableOrder' /\ Touches(t) /\ Alone1(t) /\ Evict(t, "disconnect")
  BY <1>1, DropOneStep
<1>3. n \in Names /\ t \in Tasks
  BY TasksAre DEF ManagerInv, ManagerTypeOK
<1> HIDE DEF t
<1>4. ManagerTypeOK /\ NamesInv /\ NamesInv'
  BY <1>2 DEF ManagerInv, TableOrder
<1>5. Respects(t)
  BY <1>2, <1>3, <1>4, EvictRespects
<1> QED BY <1>2, <1>3, <1>4, <1>5, RespectsKeeps DEF Evict

(* Steps that leave the table, the connections and the tasks at work be.   *)
LEMMA MutedFrame ==
    ASSUME MutedInv, UNCHANGED <<servers, conn, of, why>>,
           \A u \in Tasks : at'[u] = at[u] \/ (at[u] = "none" /\ at'[u] = "created")
    PROVE  MutedInv'
<1>1. ASSUME NEW u \in Tasks
      PROVE  (Unused(u)' => Unused(u)) /\ (Dialling(u)' => Dialling(u))
  BY DEF Unused, Dialling, Undoing
<1> QED BY <1>1 DEF MutedInv, UnusedInv, DiallingInv

LEMMA CallAllMuted ==
    ASSUME ManagerInv, MutedInv, ~Overlap, NEW c \in Callers,
           DisconnectAll(c) \/ \E S \in (SUBSET Names) \ {{}} : ConnectAll(c, S)
    PROVE  conn' = conn /\ MutedInv'
<1>1. CASE DisconnectAll(c)
  BY <1>1, MutedFrame DEF DisconnectAll, table, tasks
<1>2. ASSUME NEW S \in SUBSET Names, ConnectAll(c, S) PROVE conn' = conn /\ MutedInv'
  <2>1. UNCHANGED <<servers, conn, of, why>> /\ Asks(c, "connect_all", Names)
    BY <1>2 DEF ConnectAll, table
  <2>2. \A u \in Of(c) : at[u] = "none"
    BY <2>1, AskedAlone DEF ManagerInv
  <2>3. ASSUME NEW u \in Tasks
        PROVE  at'[u] = at[u] \/ (at[u] = "none" /\ at'[u] = "created")
    <3>1. at'[u] = IF u \in {c} \X S THEN "created" ELSE at[u]
      BY <1>2 DEF ConnectAll
    <3>2. u \in {c} \X S => u \in Of(c)
      BY DEF Of, Caller
    <3> QED BY <2>2, <3>1, <3>2
  <2> QED BY <2>1, <2>3, MutedFrame
<1> QED BY <1>1, <1>2

LEMMA MutedStart == ManagerInit => MutedInv
<1> SUFFICES ASSUME ManagerInit PROVE MutedInv
  OBVIOUS
<1>0. PICK live \in SUBSET Names : \E muted \in SUBSET (Names \ live) :
        /\ servers = [n \in Names |->
                        IF n \in live \cup muted THEN Founded(n) ELSE Nothing]
        /\ conn = [k \in Conns |->
                     CASE k \in {Founded(n) : n \in live} ->
                            [state |-> "CONNECTED", transport |-> k, session |-> k]
                       [] k \in {Founded(n) : n \in muted} ->
                            [New EXCEPT !.state = "DISABLED"]
                       [] OTHER -> New]
  BY Zenon DEF ManagerInit
<1>1. PICK muted \in SUBSET (Names \ live) :
        /\ servers = [n \in Names |->
                        IF n \in live \cup muted THEN Founded(n) ELSE Nothing]
        /\ conn = [k \in Conns |->
                     CASE k \in {Founded(n) : n \in live} ->
                            [state |-> "CONNECTED", transport |-> k, session |-> k]
                       [] k \in {Founded(n) : n \in muted} ->
                            [New EXCEPT !.state = "DISABLED"]
                       [] OTHER -> New]
  BY <1>0
<1>2. at = [t \in Tasks |-> "none"] /\ of = [t \in Tasks |-> t]
  BY DEF ManagerInit
<1>3. \A t \in Tasks : /\ t \in Conns /\ t # Nothing /\ Name(t) \in Names
                       /\ \A n \in Names : t # Founded(n)
  <2>1. \A t \in Tasks : Caller(t) # Founder
    BY TasksAre, CallersAssumption
  <2>2. \A n \in Names : Caller(Founded(n)) = Founder
    BY DEF Caller, Founded
  <2>3. Nothing \notin Conns
    BY CallersAssumption DEF Conns
  <2> QED BY <2>1, <2>2, <2>3, TasksAre
<1>4. ASSUME NEW t \in Tasks
      PROVE  /\ conn[t].state # "DISABLED" /\ servers[Name(t)] # t
             /\ ~Dialling(t) /\ \A u \in Tasks : u # t => of[u] # t
  <2>1. conn[t] = New
    BY <1>1, <1>3
  <2>2. servers[Name(t)] # t
    BY <1>1, <1>3
  <2>3. ~Dialling(t)
    BY <1>2 DEF Dialling, Undoing
  <2> QED BY <1>2, <2>1, <2>2, <2>3 DEF New
<1> QED BY <1>4 DEF MutedInv, UnusedInv, DiallingInv

LEMMA MutedStep ==
    ASSUME ManagerInv, MutedInv, ~Overlap, [ManagerNext]_managerVars
    PROVE  /\ MutedInv'
           /\ \A k \in Conns :
                 conn[k].state = "DISABLED" => conn'[k].state \in {"DISABLED", "PENDING"}
<1> DEFINE Kind == \A k \in Conns :
               conn[k].state = "DISABLED" => conn'[k].state \in {"DISABLED", "PENDING"}
<1>0. conn' = conn => Kind
  OBVIOUS
<1>1. CASE UNCHANGED managerVars
  BY <1>0, <1>1, MutedFrame DEF managerVars, table, tasks
<1>2. ASSUME NEW t \in Tasks, Task(t) PROVE MutedInv' /\ Kind
  BY <1>2, TaskRespects DEF Respects
<1>3. ASSUME NEW c \in Callers, Settle(c) \/ Call(c) \/ HostCancels(c)
      PROVE  MutedInv' /\ Kind
  <2>1. CASE AllConnected(c) \/ OneFailed(c) \/ Drained(c) \/ DroppedAll(c) \/ HostCancels(c)
    <3>1. UNCHANGED <<servers, conn, of, why, at>>
      BY <2>1 DEF AllConnected, OneFailed, Drained, DroppedAll, Settles, HostCancels, table,
                  tasks
    <3> QED BY <1>0, <3>1, MutedFrame
  <2>2. CASE DropNext(c)
    BY <1>0, <2>2, DropRespects
  <2>3. CASE DisconnectAll(c) \/ \E S \in (SUBSET Names) \ {{}} : ConnectAll(c, S)
    BY <1>0, <2>3, CallAllMuted
  <2>4. ASSUME NEW n \in Names,
               \/ Connect(c, n) \/ StartOAuth(c, n) \/ Disconnect(c, n)
               \/ DisableServer(c, n) \/ EnableServer(c, n)
        PROVE  MutedInv' /\ Kind
    BY <2>4, CallRespects DEF Respects
  <2> QED BY <1>3, <2>1, <2>2, <2>3, <2>4 DEF Settle, Call
<1> QED BY <1>1, <1>2, <1>3 DEF ManagerNext, Rest

(* A server somebody disabled stays so until enable_server makes it        *)
(* pending (state.py:76, MCPManager.disable_server and enable_server), as  *)
(* long as the host makes one call at a time on a server.  Without that    *)
(* it does not: a connection under way says CONNECTED on a muted server.   *)
THEOREM DisabledStaysAlways == ASSUME ~Overlap PROVE ManagerSpec => DisabledStays
<1>1. ManagerSpec => [](ManagerInv /\ AllInv)
  BY ManagerInvariant
<1>2. ManagerInit => MutedInv
  BY MutedStart
<1>3. ManagerInv /\ MutedInv /\ [ManagerNext]_managerVars =>
        /\ MutedInv'
        /\ [\A k \in Conns :
               conn[k].state = "DISABLED" => conn'[k].state \in {"DISABLED", "PENDING"}]_managerVars
  BY MutedStep
<1> QED BY <1>1, <1>2, <1>3, PTL DEF ManagerSpec, DisabledStays
=============================================================================
