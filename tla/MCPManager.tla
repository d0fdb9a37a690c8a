------------------------------ MODULE MCPManager ------------------------------
(***************************************************************************)
(* The connections to MCP servers (tools/mcp/manager.py): MCPManager's     *)
(* table of servers, each server's connection with its five states, and    *)
(* the transport and session a connection holds.                           *)
(*                                                                         *)
(* The manager has no lock: every await is a place where another call may  *)
(* look at the table.  What a task does between two awaits is one or more  *)
(* actions, during which `running' keeps every other task out.             *)
(* A caller makes one call; the task of caller c that works on server n is *)
(* <<c, n>>, and so is the connection it makes and the transport it opens. *)
(* FAILED stands for FAILED and NEEDS_AUTH.  Leaving a transport closes it *)
(* unless it is still being opened; a handshake the server does not answer *)
(* fails by its timeouts, the opening of a transport has none.             *)
(***************************************************************************)
EXTENDS Naturals, FiniteSets

CONSTANTS
  Names,       \* the servers' names
  Callers,     \* each makes one call of the manager
  Founder,     \* whoever connected the servers there are at the start
  Nothing,     \* no connection, no transport, no session
  Overlap,     \* may two calls work on one server at once?
  MaxCancels   \* bound: calls the host cancels

ASSUME CallersAssumption ==
    /\ Founder \notin Callers
    /\ Nothing \notin (Callers \cup {Founder}) \X Names
    /\ Overlap \in BOOLEAN
    /\ MaxCancels \in Nat

Tasks  == Callers \X Names
Conns  == (Callers \cup {Founder}) \X Names
Waits  == {"consent", "opening", "handshake", "listing",
           "exitSession", "exitTransport"}
Steps  == {"cleaning", "leaving", "cleaned", "dialing"}
Single == {"connect", "oauth", "enable", "disable", "disconnect"}
ConnStates == {"PENDING", "CONNECTED", "FAILED", "DISABLED"}

VARIABLES
  servers,    \* _servers: name -> connection
  configs,    \* the names in _configs
  conn,       \* each connection's state, _transport_ctx and _client_session
  chan,       \* what became of each transport
  op,         \* what each caller asked for
  phase,      \* where connect_all and disconnect_all are
  left,       \* disconnect_all: the names it has yet to drop
  at,         \* where each task is
  of,         \* the connection each task works on
  why,        \* what a task cleans its connection up for
  closing,    \* the transport whose __aexit__ a task waits for
  running,    \* the task that is between two of its waits
  stopping,   \* the tasks with a CancelledError coming
  cancels,    \* calls cancelled so far
  late,       \* the calls cancelled while they undid their work
  halfCut     \* the transports whose clean-up a cancellation ended

table  == <<servers, configs>>
calls  == <<op, phase, left>>
tasks  == <<at, of, why, closing, running>>
ghosts == <<late, halfCut>>
managerVars ==
    <<table, conn, chan, calls, tasks, stopping, cancels, ghosts>>

Caller(t) == t[1]
Name(t)   == t[2]
Of(c)     == {t \in Tasks : Caller(t) = c}
Active(t) == at[t] \in Waits \cup Steps \cup {"created"}

Known(n) == servers[n] # Nothing
Over(c)  == \/ op[c] \in Single /\ \A t \in Of(c) : ~Active(t)
            \/ phase[c] \in {"returned", "raised"}
Busy(c)  == op[c] # "none" /\ ~Over(c)
Idle     == \A c \in Callers : ~Busy(c)

ManagerTypeOK ==
    /\ servers \in [Names -> Conns \cup {Nothing}]
    /\ configs \subseteq Names
    /\ conn \in [Conns -> [state : ConnStates, transport : Conns \cup {Nothing},
                           session : Conns \cup {Nothing}]]
    /\ chan \in [Conns -> {"shut", "opening", "open"}]
    /\ op \in [Callers -> Single \cup {"none", "connect_all", "disconnect_all"}]
    /\ phase \in [Callers -> {"none", "gather", "drain", "drop", "returned", "raised"}]
    /\ left \in [Callers -> SUBSET Names]
    /\ at \in [Tasks -> Waits \cup Steps \cup {"none", "created", "returned", "raised"}]
    /\ of \in [Tasks -> Conns]
    /\ why \in [Tasks -> {"replace", "fail", "disconnect", "disable"}]
    /\ closing \in [Tasks -> Conns]
    /\ running \in Tasks \cup {Nothing}
    /\ stopping \subseteq Tasks
    /\ cancels \in 0..MaxCancels
    /\ late \subseteq Callers /\ halfCut \subseteq Conns

New == [state |-> "PENDING", transport |-> Nothing, session |-> Nothing]
Founded(n) == <<Founder, n>>

(* Any of the servers may be connected already, or muted.                  *)
ManagerInit ==
    \E live \in SUBSET Names : \E muted \in SUBSET (Names \ live) :
       /\ servers = [n \in Names |->
                       IF n \in live \cup muted THEN Founded(n) ELSE Nothing]
       /\ configs = live \cup muted
       /\ conn = [k \in Conns |->
                    CASE k \in {Founded(n) : n \in live} ->
                           [state |-> "CONNECTED", transport |-> k, session |-> k]
                      [] k \in {Founded(n) : n \in muted} ->
                           [New EXCEPT !.state = "DISABLED"]
                      [] OTHER -> New]
       /\ chan = [k \in Conns |->
                    IF k \in {Founded(n) : n \in live} THEN "open" ELSE "shut"]
       /\ op = [c \in Callers |-> "none"]
       /\ phase = [c \in Callers |-> "none"]
       /\ left = [c \in Callers |-> {}]
       /\ at = [t \in Tasks |-> "none"]
       /\ of = [t \in Tasks |-> t]
       /\ why = [t \in Tasks |-> "fail"]
       /\ closing = [t \in Tasks |-> t]
       /\ running = Nothing
       /\ stopping = {} /\ cancels = 0
       /\ late = {} /\ halfCut = {}

-----------------------------------------------------------------------------
(* One connection.                                                         *)

(* A wait of t is over, and not by a cancellation.                         *)
Resumes(t, wait) == running = Nothing /\ at[t] = wait /\ t \notin stopping

(* t goes on at once, waits again, or ends.                                *)
Goes(t, next)  == at' = [at EXCEPT ![t] = next] /\ running' = t
Stops(t, next) == at' = [at EXCEPT ![t] = next] /\ running' = Nothing
Ends(t, how) ==
    /\ Stops(t, how)
    /\ of' = [of EXCEPT ![t] = t]
    /\ why' = [why EXCEPT ![t] = "fail"]
    /\ closing' = [closing EXCEPT ![t] = t]

CleanUp(t, for) ==
    /\ Goes(t, "cleaning")
    /\ why' = [why EXCEPT ![t] = for]
    /\ UNCHANGED closing

(* connect() up to its first wait, or a refusal by the allowlist.  A name  *)
(* whose connect() fails has no configuration afterwards.                  *)
Enabling(t) == op[Caller(t)] = "enable"

Dial(t) ==
    /\ at[t] = "dialing"
    /\ \/ /\ conn' = [conn EXCEPT ![of[t]].transport = t]
          /\ chan' = [chan EXCEPT ![t] = "opening"]
          /\ configs' = IF Enabling(t) THEN configs ELSE configs \cup {Name(t)}
          /\ Stops(t, "opening")
          /\ UNCHANGED <<of, why, closing>>
       \/ /\ configs' = IF Enabling(t) THEN configs ELSE configs \ {Name(t)}
          /\ Ends(t, "raised")
          /\ UNCHANGED <<conn, chan>>
    /\ UNCHANGED servers

(* _cleanup: the session first, then the transport, each if there is one.  *)
LeaveSession(t) ==
    /\ at[t] = "cleaning"
    /\ IF conn[of[t]].session # Nothing THEN Stops(t, "exitSession")
                                        ELSE Goes(t, "leaving")
    /\ UNCHANGED <<table, conn, chan, of, why, closing>>

LeaveTransport(t) ==
    /\ at[t] = "leaving"
    /\ LET x == conn[of[t]].transport
       IN  IF x # Nothing /\ chan[x] = "open"
           THEN /\ Stops(t, "exitTransport")
                /\ closing' = [closing EXCEPT ![t] = x]
                /\ UNCHANGED conn
           ELSE /\ Goes(t, "cleaned")
                /\ conn' = [conn EXCEPT ![of[t]].transport = Nothing]
                /\ UNCHANGED closing
    /\ UNCHANGED <<table, chan, of, why>>

(* What follows a clean-up: the new connection; the failure it was for     *)
(* (connect() sets FAILED whatever the state has become, on a connection   *)
(* only enable_server keeps); or the end of disconnect(), which drops the  *)
(* connection, or disable_server().                                        *)
Becomes(t, s) == conn' = [conn EXCEPT ![of[t]].state = s]
Dropped(t)    == conn' = [conn EXCEPT ![of[t]] = New]

CleanedToReplace(t) ==
    /\ why[t] = "replace"
    /\ Dropped(t)
    /\ of' = [of EXCEPT ![t] = t]
    /\ Goes(t, "dialing")
    /\ UNCHANGED <<configs, why, closing>>

CleanedAfterFailure(t) ==
    /\ why[t] = "fail"
    /\ IF Enabling(t)
       THEN Becomes(t, "FAILED") /\ UNCHANGED configs
       ELSE Dropped(t) /\ configs' = configs \ {Name(t)}
    /\ Ends(t, "raised")

CleanedForGood(t) ==
    /\ why[t] \in {"disconnect", "disable"}
    /\ IF why[t] = "disable" THEN Becomes(t, "DISABLED") ELSE Dropped(t)
    /\ Ends(t, "returned")
    /\ UNCHANGED configs

Cleaned(t) ==
    /\ at[t] = "cleaned"
    /\ CleanedToReplace(t) \/ CleanedAfterFailure(t) \/ CleanedForGood(t)
    /\ UNCHANGED <<servers, chan>>

SessionExits(t) ==
    /\ Resumes(t, "exitSession")
    /\ conn' = [conn EXCEPT ![of[t]].session = Nothing]
    /\ Goes(t, "leaving")
    /\ UNCHANGED <<table, chan, of, why, closing>>

TransportExits(t) ==
    /\ Resumes(t, "exitTransport")
    /\ chan' = [chan EXCEPT ![closing[t]] = "shut"]
    /\ conn' = [conn EXCEPT ![of[t]].transport = Nothing]
    /\ Goes(t, "cleaned")
    /\ UNCHANGED <<table, of, why, closing>>

(* _attach_session: the transport, the session's initialize, list_tools.   *)
Opens(t) ==
    /\ Resumes(t, "opening")
    /\ \/ /\ chan' = [chan EXCEPT ![t] = "open"]
          /\ conn' = [conn EXCEPT ![of[t]].session = t]
          /\ Stops(t, "handshake")
          /\ UNCHANGED <<why, closing>>
       \/ /\ chan' = [chan EXCEPT ![t] = "shut"]
          /\ CleanUp(t, "fail")
          /\ UNCHANGED conn
    /\ UNCHANGED <<table, of>>

(* A handshake whose failure leaves without cleaning up.                   *)
InitializesLeaky(t) ==
    /\ Resumes(t, "handshake")
    /\ \/ /\ conn[of[t]].session # Nothing
          /\ Stops(t, "listing")
          /\ UNCHANGED <<of, why, closing>>
       \/ Ends(t, "raised")
    /\ UNCHANGED <<table, conn, chan>>

(* _client_session is read again for each request.                         *)
Initializes(t) ==
    /\ Resumes(t, "handshake")
    /\ \/ /\ conn[of[t]].session # Nothing
          /\ Stops(t, "listing")
          /\ UNCHANGED <<why, closing>>
       \/ CleanUp(t, "fail")
    /\ UNCHANGED <<table, conn, chan, of>>

(* Only now does MCPManager.connect enter its connection in the table.     *)
Lists(t) ==
    /\ Resumes(t, "listing")
    /\ \/ /\ Becomes(t, "CONNECTED")
          /\ Ends(t, "returned")
          /\ servers' = IF Enabling(t) THEN servers
                        ELSE [servers EXCEPT ![Name(t)] = of[t]]
       \/ /\ CleanUp(t, "fail")
          /\ UNCHANGED <<servers, conn, of>>
    /\ UNCHANGED <<configs, chan>>

-----------------------------------------------------------------------------
(* The manager's calls.                                                    *)

(* disconnect(name), for itself or before a new connection: out of both    *)
(* tables first, then closed.                                              *)
Evict(t, for) ==
    /\ servers' = [servers EXCEPT ![Name(t)] = Nothing]
    /\ configs' = configs \ {Name(t)}
    /\ IF Known(Name(t))
       THEN of' = [of EXCEPT ![t] = servers[Name(t)]] /\ CleanUp(t, for)
       ELSE /\ at' = [at EXCEPT ![t] = "returned"]
            /\ UNCHANGED <<of, why, closing, running>>
    /\ UNCHANGED <<conn, chan>>

(* connect(name, config) from its first line.                              *)
Connects(t) ==
    IF Known(Name(t))
    THEN Evict(t, "replace")
    ELSE /\ Goes(t, "dialing")
         /\ of' = [of EXCEPT ![t] = t]
         /\ UNCHANGED <<table, conn, chan, why, closing>>

StillConnecting(c) == {t \in Of(c) : Active(t)}

(* The code keeps calls on one server apart by nothing: a host that wants  *)
(* them apart waits for the one call before it makes the other.            *)
Alone(c, S) ==
    \A d \in Callers \ {c} :
       Busy(d) => /\ op[d] \in Single
                  /\ \A n \in S : ~Active(<<d, n>>)

Asks(c, what, S) ==
    /\ running = Nothing
    /\ op[c] = "none"
    /\ Overlap \/ Alone(c, S)
    /\ op' = [op EXCEPT ![c] = what]
    /\ UNCHANGED <<stopping, cancels, late, halfCut>>

Connect(c, n) ==
    /\ Asks(c, "connect", {n})
    /\ Connects(<<c, n>>)
    /\ UNCHANGED <<phase, left>>

(* start_oauth: the consent may fail, and by then the configuration may be *)
(* gone; otherwise it connects anew.                                       *)
StartOAuth(c, n) ==
    /\ Asks(c, "oauth", {n})
    /\ Stops(<<c, n>>, "consent")
    /\ UNCHANGED <<table, conn, chan, of, why, closing, phase, left>>

Consents(t) ==
    /\ Resumes(t, "consent")
    /\ \/ /\ Name(t) \in configs
          /\ Connects(t)
       \/ /\ Ends(t, "returned")
          /\ UNCHANGED <<table, conn, chan>>

Disconnect(c, n) ==
    /\ Known(n)
    /\ Asks(c, "disconnect", {n})
    /\ Evict(<<c, n>>, "disconnect")
    /\ UNCHANGED <<phase, left>>

DisableServer(c, n) ==
    /\ Known(n) /\ conn[servers[n]].state # "DISABLED"
    /\ Asks(c, "disable", {n})
    /\ of' = [of EXCEPT ![<<c, n>>] = servers[n]]
    /\ CleanUp(<<c, n>>, "disable")
    /\ UNCHANGED <<table, conn, chan, phase, left>>

EnableServer(c, n) ==
    /\ Known(n) /\ conn[servers[n]].state = "DISABLED"
    /\ Asks(c, "enable", {n})
    /\ of' = [of EXCEPT ![<<c, n>>] = servers[n]]
    /\ conn' = [conn EXCEPT ![servers[n]].state = "PENDING"]
    /\ Goes(<<c, n>>, "dialing")
    /\ UNCHANGED <<table, chan, why, closing, phase, left>>

(* disconnect_all: the names there are now, one after the other.           *)
DisconnectAll(c) ==
    /\ Asks(c, "disconnect_all", Names)
    /\ phase' = [phase EXCEPT ![c] = "drop"]
    /\ left' = [left EXCEPT ![c] = {n \in Names : Known(n)}]
    /\ UNCHANGED <<table, conn, chan, tasks>>

DropNext(c) ==
    /\ running = Nothing
    /\ phase[c] = "drop" /\ StillConnecting(c) = {}
    /\ \E n \in left[c] :
          /\ left' = [left EXCEPT ![c] = @ \ {n}]
          /\ Evict(<<c, n>>, "disconnect")
    /\ UNCHANGED <<op, phase, stopping, cancels, ghosts>>

(* connect_all: one task per name; the first failure cancels the others,   *)
(* waits for them, drops every server there is, and is raised again.       *)
ConnectAll(c, S) ==
    /\ Asks(c, "connect_all", Names)
    /\ phase' = [phase EXCEPT ![c] = "gather"]
    /\ at' = [t \in Tasks |-> IF t \in {c} \X S THEN "created" ELSE at[t]]
    /\ UNCHANGED <<table, conn, chan, of, why, closing, running, left>>

ChildStarts(t) ==
    /\ Resumes(t, "created")
    /\ Connects(t)

Settles(c, next) ==
    /\ phase' = [phase EXCEPT ![c] = next]
    /\ UNCHANGED <<table, conn, chan, tasks, op, cancels, late, halfCut>>

AllConnected(c) ==
    /\ running = Nothing
    /\ phase[c] = "gather"
    /\ \A t \in Of(c) : at[t] \in {"none", "returned"}
    /\ Settles(c, "returned")
    /\ UNCHANGED <<left, stopping>>

(* The other tasks left to themselves.                                     *)
OneFailedNoCancel(c) ==
    /\ running = Nothing
    /\ phase[c] = "gather"
    /\ \E t \in Of(c) : at[t] = "raised"
    /\ Settles(c, "drain")
    /\ UNCHANGED <<left, stopping>>

OneFailed(c) ==
    /\ running = Nothing
    /\ phase[c] = "gather"
    /\ \E t \in Of(c) : at[t] = "raised"
    /\ Settles(c, "drain")
    /\ stopping' = stopping \cup StillConnecting(c)
    /\ UNCHANGED left

(* What did connect is left in the table.                                  *)
DrainedKeepsServers(c) ==
    /\ running = Nothing
    /\ phase[c] = "drain" /\ StillConnecting(c) = {}
    /\ Settles(c, "raised")
    /\ UNCHANGED <<left, stopping>>

Drained(c) ==
    /\ running = Nothing
    /\ phase[c] = "drain" /\ StillConnecting(c) = {}
    /\ Settles(c, IF c \in late THEN "raised" ELSE "drop")
    /\ left' = [left EXCEPT ![c] = {n \in Names : Known(n)}]
    /\ UNCHANGED stopping

DroppedAll(c) ==
    /\ running = Nothing
    /\ phase[c] = "drop" /\ StillConnecting(c) = {} /\ (left[c] = {} \/ c \in late)
    /\ Settles(c, IF op[c] = "connect_all" \/ c \in late THEN "raised" ELSE "returned")
    /\ UNCHANGED <<left, stopping>>

-----------------------------------------------------------------------------
(* Cancellation.                                                           *)

HostCancels(c) ==
    /\ running = Nothing
    /\ Busy(c)
    /\ cancels < MaxCancels
    /\ cancels' = cancels + 1
    /\ stopping' = stopping \cup StillConnecting(c)
    /\ late' = IF phase[c] \in {"drain", "drop"} THEN late \cup {c} ELSE late
    /\ phase' = IF phase[c] = "gather" /\ StillConnecting(c) = {}
                THEN [phase EXCEPT ![c] = "drain"] ELSE phase
    /\ UNCHANGED <<table, conn, chan, tasks, op, left, halfCut>>

(* _attach_session turns a CancelledError into a failure; in a clean-up it *)
(* ends the clean-up, and only one made for a failure swallows it.  A task *)
(* that has not begun never does.                                          *)
Interrupted(t) ==
    /\ running = Nothing
    /\ t \in stopping
    /\ stopping' = stopping \ {t}
    /\ \/ /\ at[t] \in {"created", "consent"}
          /\ Ends(t, "raised")
          /\ UNCHANGED <<chan, halfCut>>
       \/ /\ at[t] = "opening"
          /\ chan' = [chan EXCEPT ![t] = "shut"]
          /\ CleanUp(t, "fail")
          /\ UNCHANGED <<of, halfCut>>
       \/ /\ at[t] \in {"handshake", "listing"}
          /\ CleanUp(t, "fail")
          /\ UNCHANGED <<chan, of, halfCut>>
       \/ /\ at[t] \in {"exitSession", "exitTransport"}
          /\ IF why[t] = "fail"
             THEN Goes(t, "cleaned") /\ UNCHANGED <<of, why, closing>>
             ELSE Ends(t, "raised")
          /\ LET x == IF at[t] = "exitTransport" THEN closing[t]
                      ELSE conn[of[t]].transport
             IN  /\ halfCut' = halfCut \cup ({x} \ {Nothing})
                 /\ \/ UNCHANGED chan
                    \/ /\ at[t] = "exitTransport"
                       /\ chan' = [chan EXCEPT ![x] = "shut"]
    /\ UNCHANGED <<table, conn, calls, cancels, late>>

-----------------------------------------------------------------------------
Others == <<calls, stopping, cancels, ghosts>>

Runs(t) ==
    /\ running = t
    /\ LeaveSession(t) \/ LeaveTransport(t) \/ Cleaned(t) \/ Dial(t)
    /\ UNCHANGED Others

Answered(t) ==
    /\ \/ SessionExits(t) \/ TransportExits(t)
       \/ Initializes(t) \/ Lists(t) \/ ChildStarts(t)
    /\ UNCHANGED Others

Task(t) ==
    \/ Runs(t) \/ Answered(t) \/ Interrupted(t)
    \/ (Opens(t) \/ Consents(t)) /\ UNCHANGED Others

Settle(c) == AllConnected(c) \/ OneFailed(c) \/ Drained(c) \/ DroppedAll(c) \/ DropNext(c)

Call(c) ==
    \/ \E n \in Names : \/ Connect(c, n) \/ StartOAuth(c, n) \/ Disconnect(c, n)
                        \/ DisableServer(c, n) \/ EnableServer(c, n)
    \/ DisconnectAll(c)
    \/ \E S \in (SUBSET Names) \ {{}} : ConnectAll(c, S)

Rest == Idle /\ UNCHANGED managerVars

ManagerNext ==
    \/ \E t \in Tasks : Task(t)
    \/ \E c \in Callers : Settle(c) \/ Call(c) \/ HostCancels(c)
    \/ Rest

(* A server's transport may take for ever to open; once it is open every   *)
(* wait ends, by an answer or by its timeout.                              *)
Fairness ==
    /\ \A t \in Tasks : /\ WF_managerVars(Runs(t))
                         /\ WF_managerVars(Answered(t))
                         /\ WF_managerVars(Interrupted(t))
    /\ \A c \in Callers : WF_managerVars(Settle(c))

ManagerSpec == ManagerInit /\ [][ManagerNext]_managerVars /\ Fairness

-----------------------------------------------------------------------------
(* Properties.                                                             *)

AtRest(n) == \A c \in Callers : ~Active(<<c, n>>)

Live(n) == Known(n) /\ conn[servers[n]].state = "CONNECTED"

(* Of calls that do not overlap on a server: whatever they are, in which   *)
(* order, and however they fail or are cancelled, a name no call works on  *)
(* has one open transport if its server is connected and none otherwise,   *)
(* but for a transport whose closing was cancelled half-way                *)
(* (MCPServerConnection._attach_session, _safe_cleanup and disconnect).    *)
OpenFor(n) == {k \in Conns : Name(k) = n /\ chan[k] = "open"}

OneTransportEach ==
    \A n \in Names : AtRest(n) =>
       OpenFor(n) \ halfCut
          = (IF Live(n) THEN {conn[servers[n]].transport} ELSE {}) \ halfCut

(* connect_all is all or nothing: when it raises no server is left in the  *)
(* table, and when it returns every server it was given is connected ("No  *)
(* caller ever sees a half-connected manager", manager.py:791), unless it  *)
(* is cancelled again while it drops what it had connected.                *)
AllOrNothing ==
    [][\A c \in Callers :
          op[c] = "connect_all" /\ Busy(c) /\ ~Busy(c)' =>
             \/ phase'[c] = "raised" /\ (c \in late' \/ \A n \in Names : ~Known(n)')
             \/ /\ phase'[c] = "returned"
                /\ \A t \in Of(c) : at'[t] # "none" => Live(Name(t))']_managerVars

(* A connection leaves DISABLED for PENDING only ("The only transition out *)
(* is enable_server", state.py:76), and is never connected behind the back *)
(* of the disable_server that muted it.                                    *)
DisabledStays ==
    [][\A k \in Conns :
          conn[k].state = "DISABLED" => conn'[k].state \in {"DISABLED", "PENDING"}]_managerVars

(* connect_all fails fast: once one of its servers has failed the call     *)
(* ends, though another server's transport never opens.                    *)
FailsFast ==
    \A c \in Callers :
       (phase[c] = "gather" /\ \E t \in Of(c) : at[t] = "raised") ~> ~Busy(c)

===============================================================================
