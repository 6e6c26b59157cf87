-------------------------- MODULE ProviderSessions --------------------------
(***************************************************************************)
(* The live provider processes of one thread, one after the other under    *)
(* one session id (orchestration-v2/ProviderSessionManager.ts), with the   *)
(* thread's MCP credential (mcp/McpSessionRegistry.ts,                     *)
(* mcp/McpProviderSession.ts).                                             *)
(*                                                                         *)
(* A release takes the entry out of the map first and closes the process   *)
(* afterwards, so that a replacement may be opened under the same id while *)
(* the old process still closes; turns, timers and event pumps find the    *)
(* entry by its id.  A step is what a fiber does between two suspensions.  *)
(*                                                                         *)
(* Abstractions: the adapter has one thread per session, as all adapters   *)
(* of the server do; a detach releases it in the step that removes the     *)
(* thread, so no turn attaches the thread again in between; time is left   *)
(* out, a timer fires at any moment; the shutdown of the server is a       *)
(* close; compactions, whose turns are not counted, and the persisted      *)
(* events are left out.                                                    *)
(***************************************************************************)
EXTENDS Naturals, FiniteSets

CONSTANTS
  MaxRuntimes,     \* bound: processes, one after the other
  MaxCredentials,  \* bound: credentials issued
  MaxTimers,       \* bound: idle timers at a time
  MaxTurns,        \* bound: turns
  MaxTouches,      \* bound: other activity of callers
  MaxPins,         \* idle windows before maxIdlePinMs
  MaxFaults,       \* bound: failing and interrupted calls
  MaxEvents        \* bound: turns, touches and faults together

ASSUME SessionAssumption ==
  /\ MaxRuntimes \in Nat /\ MaxCredentials \in Nat /\ MaxTimers \in Nat
  /\ MaxTurns \in Nat /\ MaxTouches \in Nat /\ MaxPins \in Nat /\ MaxFaults \in Nat
  /\ MaxEvents \in Nat

Runtime == 1..MaxRuntimes
Credential == 1..MaxCredentials
Timer == 1..MaxTimers

VARIABLES
  entry,      \* the session's entry in the map, of process 0 if there is none
  life,       \* the life of each process
  credOf,     \* the credential recorded for it, 0 for none
  turn,       \* its turn
  marked,     \* the process whose entry counted that turn
  timers,     \* the idle fibers
  opener,     \* the open call that holds the session's lock
  leaked,     \* credentials whose reservation nobody will drop
  slot,       \* the thread's McpProviderSession, 0 for none
  valid,      \* the credentials the registry resolves
  issued,     \* how many it has issued
  deleted,    \* the thread has been archived or deleted
  stray,      \* an entry was marked idle for a turn it had not counted
  openFailed, interrupted, \* a call has failed, has been interrupted
  turns, touches, faults

registry == <<slot, valid, issued>>
flags == <<deleted, stray, openFailed, interrupted>>
bounds == <<turns, touches, faults>>
vars == <<entry, life, credOf, turn, marked, timers, opener, leaked, registry, flags, bounds>>

Life == {"none", "opening", "live", "idled", "closing", "revoking", "gone", "failed",
         "orphan"}
NoEntry == [runtime |-> 0, busy |-> 0, generation |-> 0, timer |-> 0, pins |-> 0]
NoTimer == [step |-> "none", generation |-> 0, probed |-> 0]
NoOpener == [step |-> "idle", runtime |-> 0, credential |-> 0, issued |-> FALSE]

TypeOK ==
  /\ entry \in [runtime : 0..MaxRuntimes, busy : Nat, generation : Nat, timer : 0..MaxTimers,
                pins : 0..MaxPins]
  /\ life \in [Runtime -> Life]
  /\ credOf \in [Runtime -> 0..MaxCredentials]
  /\ turn \in [Runtime -> {"none", "starting", "running", "ended"}]
  /\ marked \in [Runtime -> 0..MaxRuntimes]
  /\ timers \in [Timer -> [step : {"none", "waiting", "sleeping", "probing"},
                           generation : Nat, probed : 0..MaxRuntimes]]
  /\ opener \in [step : {"idle", "resolving", "issuing", "adopting", "starting", "attaching",
                         "failing"},
                 runtime : 0..MaxRuntimes, credential : 0..MaxCredentials, issued : BOOLEAN]
  /\ leaked \in SUBSET Credential
  /\ slot \in 0..MaxCredentials /\ valid \in SUBSET Credential
  /\ issued \in 0..MaxCredentials
  /\ deleted \in BOOLEAN /\ stray \in BOOLEAN
  /\ openFailed \in BOOLEAN /\ interrupted \in BOOLEAN
  /\ turns \in 0..MaxTurns /\ touches \in 0..MaxTouches /\ faults \in 0..MaxFaults

Init ==
  /\ entry = NoEntry
  /\ life = [i \in Runtime |-> "none"] /\ credOf = [i \in Runtime |-> 0]
  /\ turn = [i \in Runtime |-> "none"] /\ marked = [i \in Runtime |-> 0]
  /\ timers = [k \in Timer |-> NoTimer]
  /\ opener = NoOpener /\ leaked = {}
  /\ slot = 0 /\ valid = {} /\ issued = 0
  /\ deleted = FALSE /\ stray = FALSE /\ openFailed = FALSE /\ interrupted = FALSE
  /\ turns = 0 /\ touches = 0 /\ faults = 0

Present == entry.runtime # 0
Quiet == turns + touches + faults = MaxEvents
Fault == ~Quiet /\ faults < MaxFaults /\ faults' = faults + 1

-----------------------------------------------------------------------------
(* Idle timers.                                                            *)

Free(k) == timers[k].step = "none"
FirstFree(k) == Free(k) /\ \A j \in Timer : j < k => ~Free(j)
Without(k) == IF k = 0 THEN timers ELSE [timers EXCEPT ![k] = NoTimer]
Fork(step, generation) == [step |-> step, generation |-> generation, probed |-> 0]

(* Faulty variants are named for the mistake they make.                    *)

(* scheduleIdleReleaseInternal, for the entry e that the caller leaves: the *)
(* timer is interrupted and a new one forked, at once unless the old one   *)
(* is waiting for its provider.                                            *)
ScheduleForgetful(e) ==
  IF e.runtime = 0 \/ e.busy > 0 THEN entry' = e /\ UNCHANGED timers
  ELSE /\ entry' = [e EXCEPT !.generation = @ + 1, !.timer = 0]
       /\ timers' = Without(e.timer)

Schedule(e) ==
  IF e.runtime = 0 \/ e.busy > 0 THEN entry' = e /\ UNCHANGED timers
  ELSE \E k \in Timer :
         /\ IF e.timer = 0 THEN FirstFree(k) ELSE k = e.timer
         /\ IF e.timer # 0 /\ timers[k].step = "probing"
            THEN /\ entry' = [e EXCEPT !.timer = 0]
                 /\ timers' = [timers EXCEPT ![k] = Fork("waiting", e.generation + 1)]
            ELSE /\ entry' = [e EXCEPT !.generation = @ + 1, !.timer = k]
                 /\ timers' = [timers EXCEPT ![k] = Fork("sleeping", e.generation + 1)]

Timing == UNCHANGED <<credOf, turn, marked, opener, leaked, registry, flags, bounds>>

(* The old timer is gone: the new one is forked whatever has happened.     *)
InstallTimer(k) ==
  /\ timers[k].step = "waiting"
  /\ timers' = [timers EXCEPT ![k].step = "sleeping"]
  /\ entry' = IF ~Present \/ entry.busy > 0 THEN entry
              ELSE [entry EXCEPT !.generation = timers[k].generation, !.timer = k]
  /\ Timing /\ UNCHANGED life

(* Its caller is interrupted meanwhile.                                    *)
InstallInterrupted(k) ==
  /\ timers[k].step = "waiting" /\ timers' = Without(k)
  /\ Fault /\ interrupted' = TRUE
  /\ UNCHANGED <<entry, life, credOf, turn, marked, opener, leaked, registry, deleted, stray,
                 openFailed, turns, touches>>

(* releaseIfStillIdle: the session is checked, the provider is asked for   *)
(* pending background work, the session is checked again.                  *)
StillIdle(k) ==
  Present /\ entry.busy = 0 /\ entry.generation = timers[k].generation

Die(k) ==
  /\ timers' = Without(k)
  /\ entry' = IF entry.timer = k THEN [entry EXCEPT !.timer = 0] ELSE entry
  /\ UNCHANGED life

TimerFires(k) ==
  /\ timers[k].step = "sleeping" /\ Timing
  /\ IF StillIdle(k)
     THEN /\ timers' = [timers EXCEPT ![k].step = "probing", ![k].probed = entry.runtime]
          /\ UNCHANGED <<entry, life>>
     ELSE Die(k)

TimerPinsForever(k) ==
  /\ timers[k].step = "probing" /\ entry.pins < MaxPins /\ Timing
  /\ IF StillIdle(k) /\ entry.runtime = timers[k].probed
     THEN timers' = [timers EXCEPT ![k] = Fork("sleeping", @.generation)]
          /\ UNCHANGED <<entry, life>>
     ELSE Die(k)

TimerPins(k) ==
  /\ timers[k].step = "probing" /\ entry.pins < MaxPins /\ Timing
  /\ IF StillIdle(k) /\ entry.runtime = timers[k].probed
     THEN /\ timers' = [timers EXCEPT ![k] = Fork("sleeping", @.generation)]
          /\ entry' = [entry EXCEPT !.pins = @ + 1]
          /\ UNCHANGED life
     ELSE Die(k)

TimerReleasesUnchecked(k) ==
  /\ timers[k].step = "probing" /\ Timing
  /\ IF Present
     THEN /\ timers' = Without(k)
          /\ entry' = NoEntry
          /\ life' = [life EXCEPT ![entry.runtime] = "idled"]
     ELSE Die(k)

TimerReleases(k) ==
  /\ timers[k].step = "probing" /\ Timing
  /\ IF StillIdle(k)
     THEN /\ timers' = Without(k)
          /\ entry' = NoEntry
          /\ life' = [life EXCEPT ![entry.runtime] = "idled"]
     ELSE Die(k)

(* touchActivity: get, open of an open session, steering, interrupting and *)
(* answering, and every event of a provider.                               *)
Touch ==
  /\ Present /\ ~Quiet /\ touches < MaxTouches /\ touches' = touches + 1
  /\ Schedule(entry)
  /\ UNCHANGED <<life, credOf, turn, marked, opener, leaked, registry, flags, turns, faults>>

-----------------------------------------------------------------------------
(* Turns.                                                                  *)

OnlyTurn == UNCHANGED <<life, credOf, opener, leaked, registry>>
SetTurn(i, step) == turn' = [turn EXCEPT ![i] = step]

(* startTurn of a runtime that a caller holds, perhaps released since;     *)
(* markBusy counts it for the entry that has the id.                       *)
BeginTurn(i) ==
  /\ life[i] \in {"live", "idled", "closing", "revoking", "gone"}
  /\ ~(opener.step = "attaching" /\ opener.runtime = i)   \* open has returned it
  /\ turn[i] = "none" /\ ~Quiet /\ turns < MaxTurns /\ turns' = turns + 1
  /\ SetTurn(i, "starting")
  /\ marked' = [marked EXCEPT ![i] = entry.runtime]
  /\ IF Present
     THEN /\ entry' = [entry EXCEPT !.busy = @ + 1, !.timer = 0, !.pins = 0]
          /\ timers' = Without(entry.timer)
     ELSE UNCHANGED <<entry, timers>>
  /\ OnlyTurn /\ UNCHANGED <<flags, touches, faults>>

TurnRuns(i) ==
  /\ turn[i] = "starting" /\ life[i] = "live" /\ SetTurn(i, "running")
  /\ OnlyTurn /\ UNCHANGED <<entry, marked, timers, flags, bounds>>

(* The provider ends the turn, or its process does on its way down.        *)
TurnEnds(i) ==
  /\ turn[i] = "running" /\ SetTurn(i, "ended")
  /\ OnlyTurn /\ UNCHANGED <<entry, marked, timers, flags, bounds>>

(* markIdle, of the entry that has the id by now.                          *)
MarkIdleBelowZero(i) ==
  /\ stray' = (stray \/ (Present /\ entry.runtime # marked[i]))
  /\ marked' = [marked EXCEPT ![i] = 0]
  /\ Schedule([entry EXCEPT !.busy = @ - 1])
  /\ OnlyTurn /\ UNCHANGED <<deleted, openFailed, interrupted, turns, touches>>

MarkIdle(i) ==
  /\ stray' = (stray \/ (Present /\ entry.runtime # marked[i]))
  /\ marked' = [marked EXCEPT ![i] = 0]
  /\ Schedule([entry EXCEPT !.busy = IF @ = 0 THEN 0 ELSE @ - 1])
  /\ OnlyTurn /\ UNCHANGED <<deleted, openFailed, interrupted, turns, touches>>

TurnFails(i) ==
  /\ turn[i] = "starting" /\ SetTurn(i, "none") /\ MarkIdle(i)
  /\ IF life[i] = "live" THEN Fault ELSE UNCHANGED faults

(* Interrupted, it counts as busy for ever unless the turn runs and ends.  *)
TurnInterrupted(i) ==
  /\ turn[i] = "starting" /\ Fault /\ interrupted' = TRUE
  /\ \E step \in {"none", "running"} :
       (step = "running" => life[i] = "live") /\ SetTurn(i, step)
  /\ OnlyTurn
  /\ UNCHANGED <<entry, marked, timers, deleted, stray, openFailed, turns, touches>>

(* startEventPump: a turn.terminal event.                                  *)
PumpTerminal(i) ==
  turn[i] = "ended" /\ SetTurn(i, "none") /\ MarkIdle(i) /\ UNCHANGED faults

-----------------------------------------------------------------------------
(* open of a session that is not open.                                     *)

Opening(step) ==
  /\ opener.step = step
  /\ UNCHANGED <<turn, marked, deleted, stray, turns, touches>>
NoFault == UNCHANGED <<openFailed, interrupted, faults>>
Quietly == NoFault /\ UNCHANGED <<entry, timers>>
Unused == {i \in Runtime : life[i] = "none"}

(* prepareMcpSession.  The credential in the slot is reserved before it is *)
(* resolved.                                                               *)
OpenStart ==
  /\ Opening("idle") /\ ~Present /\ ~deleted /\ Unused # {} /\ Quietly
  /\ opener' = [NoOpener EXCEPT !.step = IF slot = 0 THEN "issuing" ELSE "resolving",
                                !.credential = slot]
  /\ valid' = IF slot = 0 THEN {} ELSE valid
  /\ UNCHANGED <<life, credOf, leaked, slot, issued>>

Starting(i, c, isNew) ==
  /\ i \in Unused /\ \A j \in Unused : i <= j
  /\ life' = [life EXCEPT ![i] = "opening"]
  /\ opener' = [step |-> "starting", runtime |-> i, credential |-> c, issued |-> isNew]

ResolveWithoutRevoking ==
  /\ Opening("resolving") /\ Quietly
  /\ \/ /\ opener.credential \in valid
        /\ \E i \in Runtime : Starting(i, opener.credential, FALSE)
     \/ opener' = [NoOpener EXCEPT !.step = "issuing"] /\ UNCHANGED life
  /\ UNCHANGED <<credOf, leaked, registry>>

Resolve ==
  /\ Opening("resolving") /\ Quietly
  /\ \/ /\ opener.credential \in valid
        /\ \E i \in Runtime : Starting(i, opener.credential, FALSE)
        /\ UNCHANGED valid
     \/ opener' = [NoOpener EXCEPT !.step = "issuing"] /\ valid' = {} /\ UNCHANGED life
  /\ UNCHANGED <<credOf, leaked, slot, issued>>

(* The registry issues a credential, it is put into the slot and reserved. *)
Issue ==
  /\ Opening("issuing") /\ Quietly /\ issued < MaxCredentials
  /\ issued' = issued + 1 /\ valid' = valid \cup {issued + 1}
  /\ opener' = [opener EXCEPT !.step = "adopting", !.credential = issued + 1]
  /\ UNCHANGED <<life, credOf, leaked, slot>>

Adopt ==
  /\ Opening("adopting") /\ Quietly
  /\ slot' = opener.credential
  /\ \E i \in Runtime : Starting(i, opener.credential, TRUE)
  /\ UNCHANGED <<credOf, leaked, valid, issued>>

(* clearMcpSession of one credential.                                      *)
ClearCredential(c) ==
  valid' = valid \ {c} /\ slot' = (IF slot = c THEN 0 ELSE slot) /\ UNCHANGED issued

(* The entry is recorded, then the reservation dropped.                    *)
OpenSucceeds ==
  LET i == opener.runtime IN
  /\ Opening("starting") /\ NoFault
  /\ entry' = [NoEntry EXCEPT !.runtime = i]
  /\ life' = [life EXCEPT ![i] = "live"]
  /\ credOf' = [credOf EXCEPT ![i] = opener.credential]
  /\ opener' = [NoOpener EXCEPT !.step = "attaching", !.runtime = i]
  /\ UNCHANGED <<timers, leaked, registry>>

OpenFails ==
  /\ Opening("starting") /\ Fault /\ openFailed' = TRUE
  /\ life' = [life EXCEPT ![opener.runtime] = "failed"]
  /\ IF opener.issued THEN ClearCredential(opener.credential) ELSE UNCHANGED registry
  /\ opener' = NoOpener
  /\ UNCHANGED <<entry, timers, credOf, leaked, interrupted>>

(* The caller goes away.  The process of an interrupted open is not closed *)
(* and its credential not revoked; the reservation is dropped once the     *)
(* credential has been resolved.                                           *)
OpenInterrupted ==
  /\ \E step \in {"resolving", "issuing", "adopting", "starting", "attaching"} : Opening(step)
  /\ Fault /\ interrupted' = TRUE
  /\ leaked' = IF opener.step = "resolving" THEN leaked \cup {opener.credential} ELSE leaked
  /\ life' = IF opener.step = "starting"
             THEN [life EXCEPT ![opener.runtime] = "orphan"] ELSE life
  /\ opener' = NoOpener
  /\ UNCHANGED <<entry, timers, credOf, registry, openFailed>>

(* provider-session.attached is written; the idle timer starts.            *)
Attach ==
  /\ Opening("attaching") /\ NoFault
  /\ Schedule(entry)
  /\ opener' = NoOpener
  /\ UNCHANGED <<life, credOf, leaked, registry>>

AttachFails ==
  /\ Opening("attaching") /\ Fault /\ openFailed' = TRUE
  /\ IF Present
     THEN /\ life' = [life EXCEPT ![entry.runtime] = "closing"]
          /\ entry' = NoEntry /\ timers' = Without(entry.timer)
          /\ opener' = [opener EXCEPT !.step = "failing"]
     ELSE opener' = NoOpener /\ UNCHANGED <<entry, timers, life>>
  /\ UNCHANGED <<credOf, leaked, registry, interrupted>>

(* Its release is over.                                                    *)
OpenGivesUp ==
  /\ Opening("failing") /\ life[opener.runtime] = "gone" /\ Quietly
  /\ opener' = NoOpener
  /\ UNCHANGED <<life, credOf, leaked, registry>>

-----------------------------------------------------------------------------
(* releaseEntry.                                                           *)

Releasing == UNCHANGED <<turn, marked, opener, leaked, stray, openFailed, interrupted, bounds>>

(* close, closeInstance, detach to another workspace, the end of the event *)
(* stream, shutdown.                                                       *)
Close ==
  /\ Present /\ Releasing
  /\ entry' = NoEntry /\ timers' = Without(entry.timer)
  /\ life' = [life EXCEPT ![entry.runtime] = "closing"]
  /\ UNCHANGED <<credOf, registry, deleted>>

(* detach with revokeMcpCredential, of a thread archived or deleted.       *)
TerminalDetach ==
  /\ ~deleted /\ deleted' = TRUE /\ Releasing
  /\ valid' = {} /\ slot' = 0 /\ UNCHANGED issued
  /\ IF Present
     THEN /\ entry' = NoEntry /\ timers' = Without(entry.timer)
          /\ life' = [life EXCEPT ![entry.runtime] = "closing"]
          /\ credOf' = [credOf EXCEPT ![entry.runtime] = 0]
     ELSE UNCHANGED <<entry, timers, life, credOf>>

(* The process is closed, or its time-out over, or the caller interrupted. *)
CloseEnds(i) ==
  /\ life[i] \in {"idled", "closing"} /\ life' = [life EXCEPT ![i] = "revoking"]
  /\ Releasing /\ UNCHANGED <<entry, timers, credOf, registry, deleted>>

(* Its credential is revoked unless an open call has reserved it or the    *)
(* thread is attached to a session again.                                  *)
Reserved(c) ==
  c \in leaked \/ (opener.step \in {"resolving", "starting"} /\ opener.credential = c)

RevokeUnlessAttached(i) ==
  /\ life[i] = "revoking" /\ life' = [life EXCEPT ![i] = "gone"]
  /\ IF Present THEN UNCHANGED registry ELSE ClearCredential(credOf[i])
  /\ Releasing /\ UNCHANGED <<entry, timers, credOf, deleted>>

Revoke(i) ==
  /\ life[i] = "revoking" /\ life' = [life EXCEPT ![i] = "gone"]
  /\ IF Reserved(credOf[i]) \/ Present THEN UNCHANGED registry ELSE ClearCredential(credOf[i])
  /\ Releasing /\ UNCHANGED <<entry, timers, credOf, deleted>>

-----------------------------------------------------------------------------
Timers ==
  \E k \in Timer : InstallTimer(k) \/ TimerFires(k) \/ TimerPins(k) \/ TimerReleases(k)
Turns ==
  \E i \in Runtime : BeginTurn(i) \/ TurnRuns(i) \/ TurnEnds(i) \/ TurnFails(i) \/ PumpTerminal(i)
Open ==
  OpenStart \/ Resolve \/ Issue \/ Adopt \/ OpenSucceeds \/ OpenFails \/ Attach
  \/ AttachFails \/ OpenGivesUp
Release == Close \/ TerminalDetach \/ \E i \in Runtime : CloseEnds(i) \/ Revoke(i)
Interruption ==
  \/ OpenInterrupted
  \/ \E k \in Timer : InstallInterrupted(k)
  \/ \E i \in Runtime : TurnInterrupted(i)

Next == Touch \/ Timers \/ Turns \/ Open \/ Release \/ Interruption

Spec == Init /\ [][Next]_vars

(* Timers fire, providers answer them, and attached sessions are recorded. *)
FairSpec == Spec /\ WF_vars(Timers \/ Attach)

-----------------------------------------------------------------------------
(* Properties.                                                             *)

(* The idle timer never releases a session while its provider works on a   *)
(* turn.                                                                   *)
ActiveSessionKept ==
  [][\A i \in Runtime : life'[i] = "idled" /\ life[i] # "idled" =>
       turn[i] \notin {"starting", "running"}]_vars

(* It does not, whatever the provider is asked and answers meanwhile,      *)
(* unless the end of a turn counted for one process has been taken for the *)
(* end of another's.                                                       *)
CountedSessionKept ==
  [][\A i \in Runtime : life'[i] = "idled" /\ life[i] # "idled" =>
       turn[i] \notin {"starting", "running"} \/ stray]_vars

(* An idle session has a timer of its own generation, or is about to get   *)
(* it, however calls and timers overlap.                                   *)
IdleIsTimed ==
  Present /\ entry.busy = 0 /\ opener.step # "attaching" /\ ~interrupted =>
    \/ entry.timer # 0 /\ ~Free(entry.timer)
       /\ timers[entry.timer].generation = entry.generation
    \/ \E k \in Timer : timers[k].step = "waiting"

(* The provider process that is open or being started has a credential     *)
(* that resolves, whatever other processes of the thread are released.     *)
CredentialHeld ==
  ~deleted =>
    /\ Present => credOf[entry.runtime] \in valid
    /\ opener.step = "starting" => opener.credential \in valid

(* A credential lives no longer than the processes that hold it, unless an *)
(* open call has failed or been interrupted.                               *)
CredentialsRevoked ==
  ~interrupted /\ ~openFailed =>
    \A c \in valid :
      \/ opener.step \in {"resolving", "adopting", "starting"} /\ opener.credential = c
      \/ \E i \in Runtime : credOf[i] = c /\ life[i] \in {"live", "idled", "closing", "revoking"}

(* A session nobody uses is released in the end.                           *)
IdleSessionReleased ==
  Present /\ entry.busy = 0 ~> ~Present \/ entry.busy > 0 \/ interrupted
=============================================================================
