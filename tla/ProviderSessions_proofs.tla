------------------------ MODULE ProviderSessions_proofs ------------------------
(***************************************************************************)
(* Proofs about ProviderSessions for every number of processes,            *)
(* credentials, timers, turns and faults.  IInv is the inductive           *)
(* invariant.                                                              *)
(***************************************************************************)
EXTENDS ProviderSessions, FiniteSetTheorems, TLAPS

(* What an entry, an open call and a process know of each other.           *)
Unborn == {"none", "opening", "failed", "orphan"}  \* never had an entry
LivesInv ==
  /\ Present => life[entry.runtime] = "live"
  /\ opener.step \in {"resolving", "issuing", "adopting", "starting"} => ~Present
  /\ opener.step \in {"starting", "attaching", "failing"} => opener.runtime # 0
  /\ opener.step = "starting" => life[opener.runtime] = "opening"
  /\ opener.step = "resolving" => opener.credential # 0

(* A timer that asks a provider and belongs to an entry asks its provider. *)
ProbeInv ==
  entry.timer # 0 /\ timers[entry.timer].step = "probing" =>
    timers[entry.timer].probed = entry.runtime

(* A credential that has just been issued resolves and nobody else has it. *)
IssuedInv ==
  /\ slot <= issued /\ opener.credential <= issued
  /\ \A i \in Runtime : credOf[i] <= issued
  /\ opener.step = "adopting" =>
       /\ opener.credential # 0 /\ \A i \in Runtime : credOf[i] # opener.credential
       /\ ~deleted => opener.credential \in valid

(* The processes of a thread share one credential: another one is issued   *)
(* only when none resolves.                                                *)
OneCredentialInv ==
  /\ opener.step = "issuing" => valid = {}
  /\ \A c \in valid :
       /\ \A d \in valid : c = d
       /\ Present => credOf[entry.runtime] = c
       /\ opener.step \in {"adopting", "starting"} => opener.credential = c
  /\ ~interrupted => leaked = {}

(* The turns that the entry has counted and whose end was not taken in.    *)
Counted == {i \in Runtime : marked[i] = entry.runtime}
CountInv ==
  /\ \A i \in Runtime : life[i] \in Unborn =>
       turn[i] = "none" /\ \A j \in Runtime : marked[j] # i
  /\ Present /\ turn[entry.runtime] # "none" => marked[entry.runtime] = entry.runtime
  /\ Present /\ ~stray => Cardinality(Counted) <= entry.busy

(* The parts of TypeOK.                                                    *)
EntryRow == [runtime : 0..MaxRuntimes, busy : Nat, generation : Nat, timer : 0..MaxTimers,
             pins : 0..MaxPins]
TimerRow == [step : {"none", "waiting", "sleeping", "probing"},
             generation : Nat, probed : 0..MaxRuntimes]
OpenerRow == [step : {"idle", "resolving", "issuing", "adopting", "starting", "attaching",
                      "failing"},
              runtime : 0..MaxRuntimes, credential : 0..MaxCredentials, issued : BOOLEAN]
TurnStep == {"none", "starting", "running", "ended"}
IdleOK == entry \in EntryRow /\ timers \in [Timer -> TimerRow]
LivesOK == life \in [Runtime -> Life] /\ credOf \in [Runtime -> 0..MaxCredentials]
TurnsOK == turn \in [Runtime -> TurnStep] /\ marked \in [Runtime -> 0..MaxRuntimes]
OpenerOK == opener \in OpenerRow
RegistryOK ==
  /\ leaked \in SUBSET Credential
  /\ slot \in 0..MaxCredentials /\ valid \in SUBSET Credential
  /\ issued \in 0..MaxCredentials
FlagsOK == deleted \in BOOLEAN /\ stray \in BOOLEAN /\ openFailed \in BOOLEAN /\ interrupted \in BOOLEAN
BoundsOK == turns \in 0..MaxTurns /\ touches \in 0..MaxTouches /\ faults \in 0..MaxFaults
Types == IdleOK /\ LivesOK /\ TurnsOK /\ OpenerOK /\ RegistryOK /\ FlagsOK /\ BoundsOK

IInv ==
  /\ Types /\ LivesInv /\ ProbeInv /\ IdleIsTimed
  /\ IssuedInv /\ CredentialHeld /\ OneCredentialInv /\ CredentialsRevoked /\ CountInv

-----------------------------------------------------------------------------
(* Types of what actions write.                                            *)
LEMMA Ranges ==
  /\ Runtime \subseteq 0..MaxRuntimes /\ Credential \subseteq 0..MaxCredentials
  /\ Timer \subseteq 0..MaxTimers /\ 0 \in 0..MaxRuntimes /\ 0 \in 0..MaxCredentials
  /\ 0 \in 0..MaxTimers /\ 0 \in 0..MaxPins /\ 0 \notin Runtime /\ 0 \notin Timer
  /\ \A i \in 0..MaxRuntimes : i # 0 => i \in Runtime
  /\ \A k \in 0..MaxTimers : k # 0 => k \in Timer
  /\ \A c \in 0..MaxCredentials : c # 0 => c \in Credential
BY SessionAssumption DEF Runtime, Credential, Timer

LEMMA EntryFields ==
  ASSUME NEW e \in EntryRow
  PROVE  /\ e.runtime \in 0..MaxRuntimes /\ e.busy \in Nat /\ e.generation \in Nat
         /\ e.timer \in 0..MaxTimers /\ e.pins \in 0..MaxPins
BY DEF EntryRow

LEMMA NoEntryValues ==
  /\ NoEntry \in EntryRow
  /\ NoEntry.runtime = 0 /\ NoEntry.busy = 0 /\ NoEntry.timer = 0
  /\ \A i \in 0..MaxRuntimes :
       LET e == [NoEntry EXCEPT !.runtime = i] IN
         e \in EntryRow /\ e.runtime = i /\ e.busy = 0 /\ e.timer = 0
BY Ranges DEF NoEntry, EntryRow

LEMMA TimerTypes ==
  /\ NoTimer \in TimerRow /\ NoTimer.step = "none"
  /\ \A step \in {"waiting", "sleeping"}, g \in Nat :
       Fork(step, g) \in TimerRow /\ Fork(step, g).step = step /\ Fork(step, g).generation = g
  /\ \A t \in TimerRow : t.generation \in Nat
BY Ranges DEF NoTimer, Fork, TimerRow

LEMMA WithoutType ==
  ASSUME timers \in [Timer -> TimerRow], NEW k
  PROVE  /\ Without(k) \in [Timer -> TimerRow]
         /\ \A j \in Timer : j # k => Without(k)[j] = timers[j]
BY TimerTypes DEF Without

LEMMA OpenerTypes ==
  /\ NoOpener \in OpenerRow /\ NoOpener.step = "idle"
  /\ \A o \in OpenerRow : /\ o.runtime \in 0..MaxRuntimes /\ o.credential \in 0..MaxCredentials
                          /\ o.issued \in BOOLEAN
BY Ranges DEF NoOpener, OpenerRow

(* scheduleIdleReleaseInternal leaves an idle entry with a timer of its    *)
(* generation, or with one that waits for the old one to be gone.          *)
Timed ==
  \/ entry.timer # 0 /\ ~Free(entry.timer)
     /\ timers[entry.timer].generation = entry.generation
  \/ \E k \in Timer : timers[k].step = "waiting"

LEMMA ScheduleStep ==
  ASSUME IdleOK, NEW e \in EntryRow, Schedule(e)
  PROVE  /\ IdleOK' /\ entry'.runtime = e.runtime /\ entry'.busy = e.busy
         /\ e.runtime # 0 /\ e.busy = 0 => Timed'
         /\ \/ entry' = e /\ UNCHANGED timers
            \/ entry'.timer # 0 => timers'[entry'.timer].step = "sleeping"
<1>1. CASE e.runtime = 0 \/ e.busy > 0
  <2>1. entry' = e /\ UNCHANGED timers
    BY <1>1 DEF Schedule
  <2>2. ~(e.runtime # 0 /\ e.busy = 0)
    BY <1>1, EntryFields
  <2> QED
    BY <2>1, <2>2 DEF IdleOK
<1>2. CASE ~(e.runtime = 0 \/ e.busy > 0)
  <2>1. PICK k \in Timer :
          IF e.timer # 0 /\ timers[k].step = "probing"
          THEN /\ entry' = [e EXCEPT !.timer = 0]
               /\ timers' = [timers EXCEPT ![k] = Fork("waiting", e.generation + 1)]
          ELSE /\ entry' = [e EXCEPT !.generation = @ + 1, !.timer = k]
               /\ timers' = [timers EXCEPT ![k] = Fork("sleeping", e.generation + 1)]
    BY <1>2 DEF Schedule
  <2> DEFINE g == e.generation + 1
  <2>2. g \in Nat /\ k \in 0..MaxTimers /\ k # 0 /\ timers \in [Timer -> TimerRow]
    BY EntryFields, Ranges DEF IdleOK
  <2>3. [e EXCEPT !.generation = @ + 1, !.timer = k] = [e EXCEPT !.generation = g, !.timer = k]
    OBVIOUS
  <2> HIDE DEF g
  <2>4. CASE e.timer # 0 /\ timers[k].step = "probing"
    <3>1. entry' = [e EXCEPT !.timer = 0] /\ timers' = [timers EXCEPT ![k] = Fork("waiting", g)]
      BY <2>1, <2>4 DEF g
    <3>2. timers' \in [Timer -> TimerRow] /\ timers'[k].step = "waiting"
      BY <2>2, <3>1, TimerTypes
    <3>3. entry' \in EntryRow /\ entry'.runtime = e.runtime /\ entry'.busy = e.busy /\ entry'.timer = 0
      BY <3>1, Ranges DEF EntryRow
    <3> QED
      BY <3>2, <3>3 DEF IdleOK, Timed
  <2>5. CASE ~(e.timer # 0 /\ timers[k].step = "probing")
    <3>1. /\ entry' = [e EXCEPT !.generation = g, !.timer = k]
          /\ timers' = [timers EXCEPT ![k] = Fork("sleeping", g)]
      BY <2>1, <2>3, <2>5 DEF g
    <3>2. timers' \in [Timer -> TimerRow] /\ timers'[k].step = "sleeping" /\ timers'[k].generation = g
      BY <2>2, <3>1, TimerTypes
    <3>3. /\ entry' \in EntryRow /\ entry'.runtime = e.runtime /\ entry'.busy = e.busy
          /\ entry'.timer = k /\ entry'.generation = g
      BY <2>2, <3>1, Ranges DEF EntryRow
    <3> QED
      BY <2>2, <3>2, <3>3 DEF IdleOK, Timed, Free
  <2> QED
    BY <2>4, <2>5
<1> QED
  BY <1>1, <1>2

LEMMA DieStep ==
  ASSUME IdleOK, NEW k \in Timer, Die(k)
  PROVE  /\ IdleOK' /\ UNCHANGED life /\ timers' = Without(k)
         /\ entry'.runtime = entry.runtime /\ entry'.busy = entry.busy
         /\ entry'.generation = entry.generation
         /\ entry'.timer = IF entry.timer = k THEN 0 ELSE entry.timer
<1>1. timers' = Without(k) /\ timers' \in [Timer -> TimerRow]
  BY WithoutType DEF Die, IdleOK
<1>2. entry' = IF entry.timer = k THEN [entry EXCEPT !.timer = 0] ELSE entry
  BY DEF Die
<1>3. /\ entry' \in EntryRow
      /\ entry'.runtime = entry.runtime /\ entry'.busy = entry.busy
      /\ entry'.generation = entry.generation
      /\ entry'.timer = IF entry.timer = k THEN 0 ELSE entry.timer
  BY <1>2, Ranges DEF IdleOK, EntryRow
<1> QED
  BY <1>1, <1>3 DEF Die, IdleOK

(* Timers and callers keep the entry of the process, or release it idle.   *)
IdleMoves ==
  Touch \/ \E k \in Timer : InstallTimer(k) \/ TimerFires(k) \/ TimerPins(k) \/ TimerReleases(k)
                          \/ InstallInterrupted(k)
Idles ==
  /\ Present /\ entry.busy = 0 /\ entry' = NoEntry
  /\ life' = [life EXCEPT ![entry.runtime] = "idled"]

LEMMA FaultStep == BoundsOK /\ Fault => faults' \in 0..MaxFaults
BY SessionAssumption DEF BoundsOK, Fault

LEMMA IdleStep ==
  ASSUME IdleOK, FlagsOK, BoundsOK, IdleMoves
  PROVE  /\ IdleOK' /\ FlagsOK' /\ BoundsOK'
         /\ UNCHANGED <<credOf, turn, marked, opener, leaked, registry, deleted, stray, openFailed>>
         /\ interrupted => interrupted'
         /\ \/ UNCHANGED life /\ entry'.runtime = entry.runtime /\ entry'.busy = entry.busy
            \/ Idles
<1> USE DEF registry
<1>1. CASE Touch
  <2>1. IdleOK' /\ entry'.runtime = entry.runtime /\ entry'.busy = entry.busy
    BY <1>1, ScheduleStep DEF Touch, IdleOK
  <2>2. BoundsOK'
    BY <1>1, SessionAssumption DEF Touch, BoundsOK
  <2> QED
    BY <1>1, <2>1, <2>2 DEF Touch, flags, FlagsOK
<1>2. ASSUME NEW k \in Timer,
             InstallTimer(k) \/ TimerFires(k) \/ TimerPins(k) \/ TimerReleases(k)
      PROVE  /\ IdleOK'
             /\ \/ UNCHANGED life /\ entry'.runtime = entry.runtime /\ entry'.busy = entry.busy
                \/ Idles
  <2>1. CASE InstallTimer(k)
    <3>1. timers' = [timers EXCEPT ![k].step = "sleeping"] /\ timers[k] \in TimerRow
      BY <2>1 DEF InstallTimer, IdleOK
    <3>2. timers' \in [Timer -> TimerRow]
      BY <3>1 DEF IdleOK, TimerRow
    <3>3. k \in 0..MaxTimers /\ timers[k].generation \in Nat
      BY <3>1, Ranges DEF TimerRow
    <3>4. \/ entry' = entry
          \/ entry' = [entry EXCEPT !.generation = timers[k].generation, !.timer = k]
      BY <2>1 DEF InstallTimer
    <3>5. entry' \in EntryRow /\ entry'.runtime = entry.runtime /\ entry'.busy = entry.busy
      BY <3>3, <3>4 DEF IdleOK, EntryRow
    <3> QED
      BY <2>1, <3>2, <3>5 DEF InstallTimer, IdleOK
  <2>2. CASE Die(k)
    BY <2>2, DieStep
  <2>3. CASE TimerFires(k) /\ StillIdle(k)
    <3>1. timers' = [timers EXCEPT ![k].step = "probing", ![k].probed = entry.runtime]
      BY <2>3 DEF TimerFires
    <3>2. entry.runtime \in 0..MaxRuntimes /\ timers[k] \in TimerRow
      BY EntryFields DEF IdleOK
    <3>3. timers' \in [Timer -> TimerRow]
      BY <3>1, <3>2 DEF IdleOK, TimerRow
    <3> QED
      BY <2>3, <3>3 DEF TimerFires, IdleOK
  <2>4. CASE TimerPins(k) /\ StillIdle(k) /\ entry.runtime = timers[k].probed
    <3>1. /\ timers' = [timers EXCEPT ![k] = Fork("sleeping", @.generation)]
          /\ entry' = [entry EXCEPT !.pins = @ + 1] /\ entry.pins < MaxPins /\ UNCHANGED life
      BY <2>4 DEF TimerPins
    <3>2. timers[k].generation \in Nat
      BY TimerTypes DEF IdleOK
    <3>3. timers' \in [Timer -> TimerRow]
      BY <3>1, <3>2, TimerTypes DEF IdleOK
    <3>4. entry.pins + 1 \in 0..MaxPins
      BY <3>1, EntryFields, SessionAssumption DEF IdleOK
    <3>5. entry' \in EntryRow /\ entry'.runtime = entry.runtime /\ entry'.busy = entry.busy
      BY <3>1, <3>4 DEF IdleOK, EntryRow
    <3> QED
      BY <3>1, <3>3, <3>5 DEF IdleOK
  <2>5. CASE TimerReleases(k) /\ StillIdle(k)
    <3>1. timers' = Without(k) /\ Idles
      BY <2>5 DEF TimerReleases, StillIdle, Idles
    <3> QED
      BY <3>1, WithoutType, NoEntryValues DEF IdleOK, Idles
  <2> QED
    BY <1>2, <2>1, <2>2, <2>3, <2>4, <2>5 DEF TimerFires, TimerPins, TimerReleases
<1>3. ASSUME NEW k \in Timer,
             InstallTimer(k) \/ TimerFires(k) \/ TimerPins(k) \/ TimerReleases(k)
      PROVE  Timing
  BY <1>3 DEF InstallTimer, TimerFires, TimerPins, TimerReleases
<1>4. ASSUME NEW k \in Timer, InstallInterrupted(k)
      PROVE  IdleOK' /\ BoundsOK'
  BY <1>4, WithoutType, FaultStep DEF InstallInterrupted, IdleOK, BoundsOK
<1>5. ASSUME NEW k \in Timer, InstallInterrupted(k)
      PROVE  /\ UNCHANGED <<entry, life, credOf, turn, marked, opener, leaked, registry, deleted, stray,
                            openFailed>>
             /\ interrupted' = TRUE
  BY <1>5 DEF InstallInterrupted
<1>6. Timing => FlagsOK' /\ BoundsOK' /\ interrupted' = interrupted
  BY DEF Timing, flags, bounds, FlagsOK, BoundsOK
<1> QED
  BY <1>1, <1>2, <1>3, <1>4, <1>5, <1>6 DEF IdleMoves, FlagsOK, Timing, flags

LEMMA SetTurnType ==
  ASSUME TurnsOK, NEW i \in Runtime, NEW step \in TurnStep, SetTurn(i, step)
  PROVE  turn' \in [Runtime -> TurnStep]
BY DEF TurnsOK, SetTurn

(* One turn less is counted, if any was.                                   *)
Less(n) == IF n = 0 THEN 0 ELSE n - 1

LEMMA MarkIdleStep ==
  ASSUME IdleOK, TurnsOK, FlagsOK, NEW i \in Runtime, MarkIdle(i)
  PROVE  /\ IdleOK' /\ FlagsOK' /\ marked' \in [Runtime -> 0..MaxRuntimes]
         /\ UNCHANGED <<life, credOf, opener, leaked, registry, deleted, openFailed, interrupted,
                        turns, touches>>
         /\ entry'.runtime = entry.runtime /\ entry'.busy = Less(entry.busy)
         /\ marked' = [marked EXCEPT ![i] = 0]
         /\ stray' = (stray \/ (Present /\ entry.runtime # marked[i]))
         /\ entry.runtime # 0 /\ entry'.busy = 0 => Timed'
         /\ \/ entry'.timer = entry.timer /\ UNCHANGED timers
            \/ entry'.timer # 0 => timers'[entry'.timer].step = "sleeping"
<1> DEFINE e == [entry EXCEPT !.busy = IF @ = 0 THEN 0 ELSE @ - 1]
<1>1. Less(entry.busy) \in Nat
  BY EntryFields DEF IdleOK, Less
<1>2. /\ e \in EntryRow /\ e.runtime = entry.runtime /\ e.busy = Less(entry.busy)
      /\ e.timer = entry.timer
  BY <1>1 DEF IdleOK, EntryRow, Less
<1>3. Schedule(e)
  BY DEF MarkIdle
<1> HIDE DEF e
<1>4. /\ IdleOK' /\ entry'.runtime = entry.runtime /\ entry'.busy = Less(entry.busy)
      /\ entry.runtime # 0 /\ entry'.busy = 0 => Timed'
      /\ \/ entry'.timer = entry.timer /\ UNCHANGED timers
         \/ entry'.timer # 0 => timers'[entry'.timer].step = "sleeping"
  BY <1>2, <1>3, ScheduleStep
<1>5. marked' \in [Runtime -> 0..MaxRuntimes]
  BY Ranges DEF MarkIdle, TurnsOK
<1> QED
  BY <1>4, <1>5 DEF MarkIdle, OnlyTurn, FlagsOK

LEMMA BeginTurnStep ==
  ASSUME IdleOK, TurnsOK, BoundsOK, NEW i \in Runtime, BeginTurn(i)
  PROVE  /\ IdleOK' /\ TurnsOK' /\ BoundsOK'
         /\ UNCHANGED <<life, credOf, opener, leaked, registry, flags>>
         /\ life[i] \notin Unborn /\ turn[i] = "none" /\ turn' = [turn EXCEPT ![i] = "starting"]
         /\ marked' = [marked EXCEPT ![i] = entry.runtime]
         /\ \/ ~Present /\ UNCHANGED <<entry, timers>>
            \/ /\ Present /\ entry'.runtime = entry.runtime /\ entry'.busy = entry.busy + 1
               /\ entry'.timer = 0
<1>1. turn' \in [Runtime -> TurnStep]
  BY SetTurnType DEF BeginTurn, TurnStep
<1>2. marked' \in [Runtime -> 0..MaxRuntimes]
  BY EntryFields DEF BeginTurn, TurnsOK, IdleOK
<1>3. BoundsOK'
  BY SessionAssumption DEF BeginTurn, BoundsOK
<1>4. CASE Present
  <2>1. /\ entry' = [entry EXCEPT !.busy = @ + 1, !.timer = 0, !.pins = 0]
        /\ timers' = Without(entry.timer)
    BY <1>4 DEF BeginTurn
  <2>2. entry.busy + 1 \in Nat
    BY EntryFields DEF IdleOK
  <2>3. /\ entry' \in EntryRow /\ entry'.runtime = entry.runtime /\ entry'.busy = entry.busy + 1
        /\ entry'.timer = 0
    BY <2>1, <2>2, Ranges DEF IdleOK, EntryRow
  <2>4. IdleOK'
    BY <2>1, <2>3, WithoutType DEF IdleOK
  <2> QED
    BY <1>1, <1>2, <1>3, <1>4, <2>3, <2>4 DEF BeginTurn, TurnsOK, SetTurn, OnlyTurn, Unborn
<1>5. CASE ~Present
  <2>1. UNCHANGED <<entry, timers>>
    BY <1>5 DEF BeginTurn
  <2>2. IdleOK'
    BY <2>1 DEF IdleOK
  <2> QED
    BY <1>1, <1>2, <1>3, <1>5, <2>1, <2>2 DEF BeginTurn, TurnsOK, SetTurn, OnlyTurn, Unborn
<1> QED
  BY <1>4, <1>5

(* A turn that goes on without the entry.                                  *)
TurnGoes(i) == TurnRuns(i) \/ TurnEnds(i) \/ TurnInterrupted(i)

LEMMA TurnGoesStep ==
  ASSUME IdleOK, TurnsOK, FlagsOK, BoundsOK, NEW i \in Runtime, TurnGoes(i)
  PROVE  /\ IdleOK' /\ TurnsOK' /\ FlagsOK' /\ BoundsOK'
         /\ UNCHANGED <<entry, life, credOf, marked, timers, opener, leaked, registry, deleted, stray,
                        openFailed>>
         /\ interrupted => interrupted'
         /\ turn[i] # "none" /\ \E step : turn' = [turn EXCEPT ![i] = step]
<1>1. CASE TurnRuns(i) \/ TurnEnds(i)
  <2>1. turn' \in [Runtime -> TurnStep]
    BY <1>1, SetTurnType DEF TurnRuns, TurnEnds, TurnStep
  <2> QED
    BY <1>1, <2>1 DEF TurnRuns, TurnEnds, IdleOK, TurnsOK, FlagsOK, BoundsOK, OnlyTurn, flags, bounds,
       SetTurn
<1>2. CASE TurnInterrupted(i)
  <2>1. PICK step \in {"none", "running"} : SetTurn(i, step)
    BY <1>2 DEF TurnInterrupted
  <2>2. turn' \in [Runtime -> TurnStep]
    BY <2>1, SetTurnType DEF TurnStep
  <2> QED
    BY <1>2, <2>1, <2>2, FaultStep
       DEF TurnInterrupted, IdleOK, TurnsOK, FlagsOK, BoundsOK, OnlyTurn, SetTurn
<1> QED
  BY <1>1, <1>2 DEF TurnGoes

(* A turn is over.                                                         *)
TurnStops(i) == TurnFails(i) \/ PumpTerminal(i)

LEMMA TurnStopsStep ==
  ASSUME IdleOK, TurnsOK, FlagsOK, BoundsOK, NEW i \in Runtime, TurnStops(i)
  PROVE  /\ IdleOK' /\ TurnsOK' /\ FlagsOK' /\ BoundsOK' /\ MarkIdle(i)
         /\ turn[i] # "none" /\ turn' = [turn EXCEPT ![i] = "none"]
<1>1. MarkIdle(i) /\ SetTurn(i, "none") /\ turn[i] # "none"
  BY DEF TurnStops, TurnFails, PumpTerminal
<1>2. turn' \in [Runtime -> TurnStep]
  BY <1>1, SetTurnType DEF TurnStep
<1>3. faults' \in 0..MaxFaults
  BY FaultStep DEF TurnStops, TurnFails, PumpTerminal, BoundsOK
<1> QED
  BY <1>1, <1>2, <1>3, MarkIdleStep DEF TurnsOK, BoundsOK, SetTurn

LEMMA NextStep ==
  ASSUME Next
  PROVE  \/ IdleMoves
         \/ \E i \in Runtime : BeginTurn(i) \/ TurnGoes(i) \/ TurnStops(i)
         \/ OpenStart \/ Resolve \/ Issue \/ Adopt \/ OpenSucceeds \/ OpenFails \/ OpenInterrupted
         \/ Attach \/ AttachFails \/ OpenGivesUp
         \/ Close \/ TerminalDetach \/ \E i \in Runtime : CloseEnds(i) \/ Revoke(i)
BY DEF Next, Timers, Turns, Open, Release, Interruption, IdleMoves, TurnGoes, TurnStops

-----------------------------------------------------------------------------
(* Types.                                                                  *)
LEMMA ClearType ==
  ASSUME RegistryOK, NEW c, ClearCredential(c)
  PROVE  slot' \in 0..MaxCredentials /\ valid' \in SUBSET Credential /\ issued' \in 0..MaxCredentials
BY Ranges DEF RegistryOK, ClearCredential

LEMMA StartingType ==
  ASSUME LivesOK, NEW i \in Runtime, NEW c \in 0..MaxCredentials, NEW new \in BOOLEAN,
         Starting(i, c, new)
  PROVE  /\ life' \in [Runtime -> Life] /\ opener' \in OpenerRow
         /\ life[i] = "none" /\ life' = [life EXCEPT ![i] = "opening"]
         /\ opener'.step = "starting" /\ opener'.runtime = i /\ opener'.credential = c
BY Ranges DEF Starting, LivesOK, Life, OpenerRow, Unused

(* The entry is taken out of the map.                                      *)
LEMMA RemoveType ==
  ASSUME IdleOK, LivesOK, entry' = NoEntry, timers' = Without(entry.timer),
         NEW stage \in Life, life' = [life EXCEPT ![entry.runtime] = stage]
  PROVE  IdleOK' /\ life' \in [Runtime -> Life]
BY NoEntryValues, WithoutType DEF IdleOK, LivesOK

LEMMA TypeStep == Types /\ LivesInv /\ [Next]_vars => Types'
<1> SUFFICES ASSUME Types, LivesInv, [Next]_vars PROVE Types'
  OBVIOUS
<1> USE DEF Types, registry, flags, bounds
<1>1. CASE IdleMoves
  <2>1. LivesOK'
    BY <1>1, IdleStep DEF LivesOK, Idles, Life
  <2> QED
    BY <1>1, <2>1, IdleStep DEF TurnsOK, OpenerOK, RegistryOK
<1>2. ASSUME NEW i \in Runtime, BeginTurn(i) PROVE Types'
  BY <1>2, BeginTurnStep DEF LivesOK, OpenerOK, RegistryOK, FlagsOK
<1>3. ASSUME NEW i \in Runtime, TurnGoes(i) PROVE Types'
  BY <1>3, TurnGoesStep DEF LivesOK, OpenerOK, RegistryOK
<1>4. ASSUME NEW i \in Runtime, TurnStops(i) PROVE Types'
  BY <1>4, TurnStopsStep, MarkIdleStep DEF LivesOK, OpenerOK, RegistryOK
<1>5. CASE OpenStart
  <2>1. opener' \in OpenerRow
    BY <1>5, Ranges DEF OpenStart, NoOpener, OpenerRow, RegistryOK
  <2> QED
    BY <1>5, <2>1 DEF OpenStart, Opening, Quietly, NoFault, IdleOK, LivesOK, TurnsOK, OpenerOK, RegistryOK,
       FlagsOK, BoundsOK
<1>6. CASE Resolve
  <2>1. life' \in [Runtime -> Life] /\ opener' \in OpenerRow
    <3>1. CASE \E i \in Runtime : Starting(i, opener.credential, FALSE)
      BY <3>1, StartingType, OpenerTypes DEF OpenerOK
    <3>2. CASE opener' = [NoOpener EXCEPT !.step = "issuing"] /\ UNCHANGED life
      BY <3>2, Ranges DEF NoOpener, OpenerRow, LivesOK
    <3> QED
      BY <1>6, <3>1, <3>2 DEF Resolve
  <2>2. valid' \in SUBSET Credential
    BY <1>6 DEF Resolve, RegistryOK
  <2> QED
    BY <1>6, <2>1, <2>2 DEF Resolve, Opening, Quietly, NoFault, IdleOK, LivesOK, TurnsOK, OpenerOK, RegistryOK,
       FlagsOK, BoundsOK
<1>7. CASE Issue
  <2>1. issued + 1 \in Credential
    BY <1>7, SessionAssumption DEF Issue, RegistryOK, Credential
  <2>2. opener' \in OpenerRow
    BY <1>7, <2>1, Ranges DEF Issue, OpenerOK, OpenerRow
  <2>3. valid' \in SUBSET Credential /\ issued' \in 0..MaxCredentials
    BY <1>7, <2>1, Ranges DEF Issue, RegistryOK
  <2> QED
    BY <1>7, <2>2, <2>3 DEF Issue, Opening, Quietly, NoFault, IdleOK, LivesOK, TurnsOK, OpenerOK, RegistryOK,
       FlagsOK, BoundsOK
<1>a. CASE Adopt
  <2>1. opener.credential \in 0..MaxCredentials
    BY OpenerTypes DEF OpenerOK
  <2>2. life' \in [Runtime -> Life] /\ opener' \in OpenerRow
    BY <1>a, <2>1, StartingType DEF Adopt
  <2> QED
    BY <1>a, <2>1, <2>2 DEF Adopt, Opening, Quietly, NoFault, IdleOK, LivesOK, TurnsOK, OpenerOK, RegistryOK,
       FlagsOK, BoundsOK
<1>8. CASE OpenSucceeds
  <2>1. opener.runtime \in 0..MaxRuntimes /\ opener.credential \in 0..MaxCredentials
    BY OpenerTypes DEF OpenerOK
  <2>2. entry' \in EntryRow
    BY <1>8, <2>1, NoEntryValues DEF OpenSucceeds
  <2>3. opener' \in OpenerRow
    BY <1>8, <2>1, Ranges DEF OpenSucceeds, NoOpener, OpenerRow
  <2>4. LivesOK'
    BY <1>8, <2>1 DEF OpenSucceeds, LivesOK, Life
  <2> QED
    BY <1>8, <2>2, <2>3, <2>4 DEF OpenSucceeds, Opening, NoFault, IdleOK, TurnsOK, OpenerOK, RegistryOK,
       FlagsOK, BoundsOK
<1>9. CASE OpenFails
  <2>1. RegistryOK'
    BY <1>9, ClearType DEF OpenFails, RegistryOK
  <2>2. faults' \in 0..MaxFaults
    BY <1>9, FaultStep DEF OpenFails
  <2>3. LivesOK'
    BY <1>9 DEF OpenFails, LivesOK, Life
  <2> QED
    BY <1>9, <2>1, <2>2, <2>3, OpenerTypes DEF OpenFails, Opening, IdleOK, TurnsOK, OpenerOK, FlagsOK, BoundsOK
<1>10. CASE OpenInterrupted
  <2>1. leaked' \in SUBSET Credential
    <3>1. CASE opener.step = "resolving"
      <4>1. opener.credential \in Credential
        BY <3>1, OpenerTypes, Ranges DEF LivesInv, OpenerOK
      <4> QED
        BY <1>10, <4>1 DEF OpenInterrupted, RegistryOK
    <3>2. CASE opener.step # "resolving"
      BY <1>10, <3>2 DEF OpenInterrupted, RegistryOK
    <3> QED
      BY <3>1, <3>2
  <2>2. faults' \in 0..MaxFaults
    BY <1>10, FaultStep DEF OpenInterrupted
  <2>3. LivesOK'
    BY <1>10 DEF OpenInterrupted, LivesOK, Life
  <2> QED
    BY <1>10, <2>1, <2>2, <2>3, OpenerTypes
       DEF OpenInterrupted, Opening, IdleOK, TurnsOK, OpenerOK, RegistryOK, FlagsOK, BoundsOK
<1>11. CASE Attach
  <2>1. IdleOK'
    BY <1>11, ScheduleStep DEF Attach, IdleOK
  <2> QED
    BY <1>11, <2>1, OpenerTypes
       DEF Attach, Opening, NoFault, LivesOK, TurnsOK, OpenerOK, RegistryOK, FlagsOK, BoundsOK
<1>12. CASE AttachFails
  <2>1. IdleOK' /\ life' \in [Runtime -> Life]
    <3>1. CASE Present
      <4>1. /\ entry' = NoEntry /\ timers' = Without(entry.timer)
            /\ life' = [life EXCEPT ![entry.runtime] = "closing"]
        BY <1>12, <3>1 DEF AttachFails
      <4> QED
        BY <4>1, RemoveType DEF Life
    <3>2. CASE ~Present
      BY <1>12, <3>2 DEF AttachFails, IdleOK, LivesOK
    <3> QED
      BY <3>1, <3>2
  <2>2. opener' \in OpenerRow
    BY <1>12, OpenerTypes DEF AttachFails, OpenerOK, OpenerRow
  <2>3. faults' \in 0..MaxFaults
    BY <1>12, FaultStep DEF AttachFails
  <2> QED
    BY <1>12, <2>1, <2>2, <2>3 DEF AttachFails, Opening, LivesOK, TurnsOK, OpenerOK, RegistryOK, FlagsOK, BoundsOK
<1>13. CASE OpenGivesUp
  BY <1>13, OpenerTypes DEF OpenGivesUp, Opening, Quietly, NoFault, IdleOK, LivesOK, TurnsOK, OpenerOK,
     RegistryOK, FlagsOK, BoundsOK
<1>14. CASE Close
  <2>1. IdleOK' /\ life' \in [Runtime -> Life]
    BY <1>14, RemoveType DEF Close, Life
  <2> QED
    BY <1>14, <2>1 DEF Close, Releasing, LivesOK, TurnsOK, OpenerOK, RegistryOK, FlagsOK, BoundsOK
<1>15. CASE TerminalDetach
  <2>1. IdleOK' /\ LivesOK'
    <3>1. CASE Present
      <4>1. /\ entry' = NoEntry /\ timers' = Without(entry.timer)
            /\ life' = [life EXCEPT ![entry.runtime] = "closing"]
            /\ credOf' = [credOf EXCEPT ![entry.runtime] = 0]
        BY <1>15, <3>1 DEF TerminalDetach
      <4>2. IdleOK' /\ life' \in [Runtime -> Life]
        BY <4>1, RemoveType DEF Life
      <4> QED
        BY <4>1, <4>2, Ranges DEF LivesOK
    <3>2. CASE ~Present
      BY <1>15, <3>2 DEF TerminalDetach, IdleOK, LivesOK
    <3> QED
      BY <3>1, <3>2
  <2> QED
    BY <1>15, <2>1, Ranges DEF TerminalDetach, Releasing, TurnsOK, OpenerOK, RegistryOK, FlagsOK, BoundsOK
<1>16. ASSUME NEW i \in Runtime, CloseEnds(i) PROVE Types'
  BY <1>16 DEF CloseEnds, Releasing, Life, IdleOK, LivesOK, TurnsOK, OpenerOK, RegistryOK, FlagsOK, BoundsOK
<1>17. ASSUME NEW i \in Runtime, Revoke(i) PROVE Types'
  <2>1. RegistryOK'
    BY <1>17, ClearType DEF Revoke, Releasing, RegistryOK
  <2> QED
    BY <1>17, <2>1 DEF Revoke, Releasing, Life, IdleOK, LivesOK, TurnsOK, OpenerOK, FlagsOK, BoundsOK
<1>18. CASE UNCHANGED vars
  BY <1>18 DEF vars, IdleOK, LivesOK, TurnsOK, OpenerOK, RegistryOK, FlagsOK, BoundsOK
<1> QED
  BY <1>1, <1>2, <1>3, <1>4, <1>5, <1>6, <1>7, <1>8, <1>9, <1>10, <1>11, <1>12, <1>13, <1>14, <1>15,
     <1>16, <1>17, <1>18, <1>a, NextStep

-----------------------------------------------------------------------------
(* Entries, open calls and processes.                                      *)
LEMMA OpenerFacts ==
  ASSUME Types
  PROVE  /\ opener.runtime \in 0..MaxRuntimes /\ opener.credential \in 0..MaxCredentials
         /\ entry.runtime \in 0..MaxRuntimes
         /\ NoOpener.step = "idle" /\ NoOpener.runtime = 0 /\ NoOpener.credential = 0
         /\ \A s, c : LET o == [NoOpener EXCEPT !.step = s, !.credential = c] IN
              o.step = s /\ o.credential = c
         /\ \A s : LET o == [NoOpener EXCEPT !.step = s] IN o.step = s /\ o.credential = 0
         /\ \A s, i : LET o == [NoOpener EXCEPT !.step = s, !.runtime = i] IN
              o.step = s /\ o.runtime = i /\ o.credential = 0
         /\ \A s : LET o == [opener EXCEPT !.step = s] IN
              o.step = s /\ o.runtime = opener.runtime /\ o.credential = opener.credential
         /\ \A s, c : LET o == [opener EXCEPT !.step = s, !.credential = c] IN
              o.step = s /\ o.credential = c
BY EntryFields DEF Types, OpenerOK, OpenerRow, NoOpener, IdleOK

(* What the steps of open do to the open call, and what they find.         *)
LEMMA OpenStep ==
  ASSUME Types, LivesInv
  PROVE  /\ OpenStart => /\ opener.step = "idle" /\ opener'.credential = slot
                         /\ opener'.step = IF slot = 0 THEN "issuing" ELSE "resolving"
         /\ Resolve => /\ opener.step = "resolving"
                       /\ \/ /\ opener.credential \in valid /\ valid' = valid
                             /\ opener'.step = "starting" /\ opener'.credential = opener.credential
                             /\ \E i \in Runtime : life[i] = "none" /\ opener'.runtime = i
                                                   /\ life' = [life EXCEPT ![i] = "opening"]
                          \/ /\ opener'.step = "issuing" /\ opener'.credential = 0
                             /\ valid' = {} /\ UNCHANGED life
         /\ Issue => /\ opener.step = "issuing"
                     /\ opener'.step = "adopting" /\ opener'.credential = issued + 1
         /\ Adopt => /\ opener.step = "adopting"
                     /\ opener'.step = "starting" /\ opener'.credential = opener.credential
                     /\ \E i \in Runtime : life[i] = "none" /\ opener'.runtime = i
                                           /\ life' = [life EXCEPT ![i] = "opening"]
         /\ OpenSucceeds => /\ opener.step = "starting" /\ opener.runtime \in Runtime
                            /\ opener'.step = "attaching" /\ opener'.runtime = opener.runtime
                            /\ opener'.credential = 0
                            /\ entry'.runtime = opener.runtime /\ entry'.busy = 0 /\ entry'.timer = 0
<1> USE OpenerFacts
<1>1. OpenStart => /\ opener.step = "idle" /\ opener'.credential = slot
                   /\ opener'.step = IF slot = 0 THEN "issuing" ELSE "resolving"
  BY DEF OpenStart, Opening
<1>2. ASSUME Resolve
      PROVE  /\ opener.step = "resolving"
             /\ \/ /\ opener.credential \in valid /\ valid' = valid
                   /\ opener'.step = "starting" /\ opener'.credential = opener.credential
                   /\ \E i \in Runtime : life[i] = "none" /\ opener'.runtime = i
                                         /\ life' = [life EXCEPT ![i] = "opening"]
                \/ /\ opener'.step = "issuing" /\ opener'.credential = 0
                   /\ valid' = {} /\ UNCHANGED life
  <2>1. CASE opener.credential \in valid /\ \E i \in Runtime : Starting(i, opener.credential, FALSE)
                /\ UNCHANGED valid
    <3>1. PICK i \in Runtime : Starting(i, opener.credential, FALSE)
      BY <2>1
    <3>2. /\ life[i] = "none" /\ life' = [life EXCEPT ![i] = "opening"]
          /\ opener'.step = "starting" /\ opener'.runtime = i /\ opener'.credential = opener.credential
      BY <3>1, StartingType DEF Types
    <3> QED
      BY <1>2, <2>1, <3>2 DEF Resolve, Opening
  <2>2. CASE opener' = [NoOpener EXCEPT !.step = "issuing"] /\ valid' = {} /\ UNCHANGED life
    BY <1>2, <2>2 DEF Resolve, Opening
  <2> QED
    BY <1>2, <2>1, <2>2 DEF Resolve
<1>3. Issue => /\ opener.step = "issuing"
               /\ opener'.step = "adopting" /\ opener'.credential = issued + 1
  BY DEF Issue, Opening
<1>a. ASSUME Adopt
      PROVE  /\ opener.step = "adopting"
             /\ opener'.step = "starting" /\ opener'.credential = opener.credential
             /\ \E i \in Runtime : life[i] = "none" /\ opener'.runtime = i
                                   /\ life' = [life EXCEPT ![i] = "opening"]
  <2>1. PICK i \in Runtime : Starting(i, opener.credential, TRUE)
    BY <1>a DEF Adopt
  <2>2. /\ life[i] = "none" /\ life' = [life EXCEPT ![i] = "opening"]
        /\ opener'.step = "starting" /\ opener'.runtime = i
        /\ opener'.credential = opener.credential
    BY <2>1, StartingType DEF Types
  <2>3. opener.step = "adopting"
    BY <1>a DEF Adopt, Opening
  <2> QED
    BY <2>2, <2>3
<1>4. ASSUME OpenSucceeds
      PROVE  /\ opener.step = "starting" /\ opener.runtime \in Runtime
             /\ opener'.step = "attaching" /\ opener'.runtime = opener.runtime
             /\ opener'.credential = 0
             /\ entry'.runtime = opener.runtime /\ entry'.busy = 0 /\ entry'.timer = 0
  <2>1. opener.step = "starting" /\ opener.runtime \in Runtime
    BY <1>4, Ranges DEF OpenSucceeds, Opening, LivesInv
  <2> QED
    BY <1>4, <2>1, NoEntryValues DEF OpenSucceeds
<1> QED
  BY <1>1, <1>2, <1>3, <1>4, <1>a

LEMMA AttachFailsStep ==
  ASSUME Types, LivesInv, AttachFails
  PROVE  /\ opener.step = "attaching" /\ openFailed' = TRUE
         /\ UNCHANGED <<turn, marked, credOf, leaked, registry, deleted, stray, interrupted>>
         /\ \/ /\ entry'.runtime = 0 /\ opener'.step = "failing"
               /\ opener'.runtime = opener.runtime /\ opener'.credential = opener.credential
            \/ entry' = entry /\ ~Present /\ opener'.step = "idle" /\ opener'.credential = 0
<1>1. CASE Present
  <2>1. entry' = NoEntry /\ opener' = [opener EXCEPT !.step = "failing"]
    BY <1>1 DEF AttachFails
  <2>2. /\ opener'.step = "failing" /\ opener'.runtime = opener.runtime
        /\ opener'.credential = opener.credential
    BY <2>1 DEF Types, OpenerOK, OpenerRow
  <2> QED
    BY <2>1, <2>2, NoEntryValues DEF AttachFails, Opening
<1>2. CASE ~Present
  BY <1>2, OpenerFacts DEF AttachFails, Opening
<1> QED
  BY <1>1, <1>2

(* An entry that a step takes out of the map is the one of its process.    *)
Removes(stage) ==
  /\ Present /\ entry' = NoEntry /\ timers' = Without(entry.timer)
  /\ life' = [life EXCEPT ![entry.runtime] = stage]

LEMMA LivesStep == Types /\ LivesInv /\ [Next]_vars => LivesInv'
<1> SUFFICES ASSUME Types, LivesInv, [Next]_vars PROVE LivesInv'
  OBVIOUS
<1> USE OpenerFacts, NoEntryValues DEF Present
<1>r. ASSUME NEW stage, Removes(stage), opener' = opener
      PROVE  LivesInv'
  BY <1>r DEF Removes, LivesInv
<1>1. CASE IdleMoves
  BY <1>1, IdleStep DEF Types, Idles, LivesInv
<1>2. ASSUME NEW i \in Runtime, BeginTurn(i) PROVE LivesInv'
  BY <1>2, BeginTurnStep DEF Types, LivesInv
<1>3. ASSUME NEW i \in Runtime, TurnGoes(i) PROVE LivesInv'
  BY <1>3, TurnGoesStep DEF Types, LivesInv
<1>4. ASSUME NEW i \in Runtime, TurnStops(i) PROVE LivesInv'
  BY <1>4, TurnStopsStep, MarkIdleStep DEF Types, LivesInv
<1>5. CASE OpenStart
  BY <1>5, OpenStep DEF OpenStart, Quietly, LivesInv
<1>6. CASE Resolve
  <2>1. UNCHANGED entry /\ ~Present
    BY <1>6, OpenStep DEF Resolve, Quietly, LivesInv
  <2> QED
    BY <1>6, <2>1, OpenStep, Ranges DEF LivesInv, Types, LivesOK
<1>7. CASE Issue
  BY <1>7, OpenStep DEF Issue, Quietly, LivesInv
<1>a. CASE Adopt
  <2>1. UNCHANGED entry /\ ~Present
    BY <1>a, OpenStep DEF Adopt, Quietly, LivesInv
  <2> QED
    BY <1>a, <2>1, OpenStep, Ranges DEF LivesInv, Types, LivesOK
<1>8. CASE OpenSucceeds
  BY <1>8, OpenStep, Ranges DEF OpenSucceeds, LivesInv, Types, LivesOK
<1>9. CASE OpenFails
  BY <1>9 DEF OpenFails, Opening, LivesInv
<1>10. CASE OpenInterrupted
  <2>1. Present' => life'[entry.runtime] = life[entry.runtime] /\ entry' = entry
    BY <1>10 DEF OpenInterrupted, LivesInv
  <2> QED
    BY <1>10, <2>1 DEF OpenInterrupted, LivesInv
<1>11. CASE Attach
  <2>1. entry'.runtime = entry.runtime
    BY <1>11, ScheduleStep DEF Attach, Types, IdleOK
  <2> QED
    BY <1>11, <2>1 DEF Attach, LivesInv
<1>12. CASE AttachFails
  BY <1>12, AttachFailsStep DEF LivesInv
<1>13. CASE OpenGivesUp
  BY <1>13 DEF OpenGivesUp, Quietly, LivesInv
<1>14. CASE Close
  BY <1>r, <1>14 DEF Close, Releasing, Removes
<1>15. CASE TerminalDetach
  <2>1. CASE Present
    BY <1>r, <1>15, <2>1 DEF TerminalDetach, Releasing, Removes
  <2>2. CASE ~Present
    BY <1>15, <2>2 DEF TerminalDetach, Releasing, LivesInv
  <2> QED
    BY <2>1, <2>2
<1>16. ASSUME NEW i \in Runtime, CloseEnds(i) PROVE LivesInv'
  BY <1>16 DEF CloseEnds, Releasing, LivesInv, Types, LivesOK
<1>17. ASSUME NEW i \in Runtime, Revoke(i) PROVE LivesInv'
  BY <1>17 DEF Revoke, Releasing, LivesInv, Types, LivesOK
<1>18. CASE UNCHANGED vars
  BY <1>18 DEF vars, LivesInv
<1> QED
  BY <1>1, <1>2, <1>3, <1>4, <1>5, <1>6, <1>7, <1>8, <1>9, <1>10, <1>11, <1>12, <1>13, <1>14, <1>15,
     <1>16, <1>17, <1>18, <1>a, NextStep

-----------------------------------------------------------------------------
(* Credentials.                                                            *)

(* A step that issues no credential and gives none to a process.           *)
LEMMA IssuedKept ==
  ASSUME Types, IssuedInv, issued' = issued, slot' \in {slot, 0}, deleted => deleted',
         \A i \in Runtime : credOf'[i] \in {credOf[i], 0},
         \/ /\ opener' = opener
            /\ \/ \E i \in Runtime : valid \ {credOf[i]} \subseteq valid'
               \/ valid \subseteq valid' \/ deleted'
         \/ opener'.step # "adopting" /\ opener'.credential \in {opener.credential, slot, 0}
  PROVE  IssuedInv'
<1>1. issued \in Nat
  BY SessionAssumption DEF Types, RegistryOK
<1> QED
  BY <1>1 DEF IssuedInv

LEMMA IssuedStep == Types /\ LivesInv /\ IssuedInv /\ [Next]_vars => IssuedInv'
<1> SUFFICES ASSUME Types, LivesInv, IssuedInv, [Next]_vars PROVE IssuedInv'
  OBVIOUS
<1> USE OpenerFacts, NoEntryValues DEF Present, registry
<1>1. CASE IdleMoves
  BY <1>1, IdleStep, IssuedKept DEF Types
<1>2. ASSUME NEW i \in Runtime, BeginTurn(i) PROVE IssuedInv'
  BY <1>2, BeginTurnStep, IssuedKept DEF Types, flags
<1>3. ASSUME NEW i \in Runtime, TurnGoes(i) PROVE IssuedInv'
  BY <1>3, TurnGoesStep, IssuedKept DEF Types
<1>4. ASSUME NEW i \in Runtime, TurnStops(i) PROVE IssuedInv'
  BY <1>4, TurnStopsStep, MarkIdleStep, IssuedKept DEF Types
<1>5. CASE OpenStart
  BY <1>5, OpenStep, IssuedKept DEF OpenStart, Opening
<1>6. CASE Resolve
  BY <1>6, OpenStep, IssuedKept DEF Resolve, Opening
<1>7. CASE Issue
  <2>1. /\ opener'.step = "adopting" /\ opener'.credential = issued + 1 /\ issued' = issued + 1
        /\ valid' = valid \cup {issued + 1} /\ UNCHANGED <<slot, credOf>>
    BY <1>7, OpenStep DEF Issue
  <2>2. /\ issued \in 0..MaxCredentials /\ slot \in 0..MaxCredentials
        /\ \A i \in Runtime : credOf[i] \in 0..MaxCredentials
    BY DEF Types, RegistryOK, LivesOK
  <2> QED
    BY <2>1, <2>2, SessionAssumption DEF IssuedInv
<1>a. CASE Adopt
  BY <1>a, OpenStep DEF Adopt, IssuedInv
<1>8. CASE OpenSucceeds
  <2>1. /\ UNCHANGED <<slot, issued>> /\ opener'.step = "attaching" /\ opener'.credential = 0
        /\ credOf' = [credOf EXCEPT ![opener.runtime] = opener.credential]
    BY <1>8, OpenStep DEF OpenSucceeds
  <2>2. \A i \in Runtime : credOf'[i] \in {credOf[i], opener.credential}
    BY <2>1 DEF Types, LivesOK
  <2> QED
    BY <2>1, <2>2, SessionAssumption DEF IssuedInv, Types, RegistryOK
<1>9. CASE OpenFails
  BY <1>9, IssuedKept DEF OpenFails, Opening, ClearCredential
<1>10. CASE OpenInterrupted
  BY <1>10, IssuedKept DEF OpenInterrupted, Opening
<1>11. CASE Attach
  BY <1>11, IssuedKept DEF Attach, Opening
<1>12. CASE AttachFails
  BY <1>12, AttachFailsStep, IssuedKept
<1>13. CASE OpenGivesUp
  BY <1>13, IssuedKept DEF OpenGivesUp, Opening
<1>14. CASE Close
  BY <1>14, IssuedKept DEF Close, Releasing
<1>15. CASE TerminalDetach
  <2>1. \A i \in Runtime : credOf'[i] \in {credOf[i], 0}
    BY <1>15 DEF TerminalDetach, Types, LivesOK
  <2> QED
    BY <1>15, <2>1, IssuedKept DEF TerminalDetach, Releasing
<1>16. ASSUME NEW i \in Runtime, CloseEnds(i) PROVE IssuedInv'
  BY <1>16, IssuedKept DEF CloseEnds, Releasing
<1>17. ASSUME NEW i \in Runtime, Revoke(i) PROVE IssuedInv'
  BY <1>17, IssuedKept DEF Revoke, Releasing, ClearCredential
<1>18. CASE UNCHANGED vars
  BY <1>18, IssuedKept DEF vars, flags
<1> QED
  BY <1>1, <1>2, <1>3, <1>4, <1>5, <1>6, <1>7, <1>8, <1>9, <1>10, <1>11, <1>12, <1>13, <1>14, <1>15,
     <1>16, <1>17, <1>18, <1>a, NextStep

LEMMA HeldStep == Types /\ LivesInv /\ IssuedInv /\ CredentialHeld /\ [Next]_vars => CredentialHeld'
<1> SUFFICES ASSUME Types, LivesInv, IssuedInv, CredentialHeld, [Next]_vars PROVE CredentialHeld'
  OBVIOUS
<1> USE OpenerFacts, NoEntryValues DEF Present, registry
<1>r. ASSUME NEW stage, Removes(stage), UNCHANGED <<opener, registry, deleted>>
      PROVE  CredentialHeld'
  BY <1>r DEF Removes, LivesInv, CredentialHeld
<1>1. CASE IdleMoves
  BY <1>1, IdleStep DEF Types, Idles, LivesInv, CredentialHeld
<1>2. ASSUME NEW i \in Runtime, BeginTurn(i) PROVE CredentialHeld'
  BY <1>2, BeginTurnStep DEF Types, CredentialHeld, flags
<1>3. ASSUME NEW i \in Runtime, TurnGoes(i) PROVE CredentialHeld'
  BY <1>3, TurnGoesStep DEF Types, CredentialHeld
<1>4. ASSUME NEW i \in Runtime, TurnStops(i) PROVE CredentialHeld'
  BY <1>4, TurnStopsStep, MarkIdleStep DEF Types, CredentialHeld
<1>5. CASE OpenStart
  BY <1>5, OpenStep DEF OpenStart, Opening, Quietly, CredentialHeld
<1>6. CASE Resolve
  BY <1>6, OpenStep DEF Resolve, Opening, Quietly, LivesInv, CredentialHeld
<1>7. CASE Issue
  BY <1>7, OpenStep DEF Issue, Opening, Quietly, LivesInv, CredentialHeld
<1>a. CASE Adopt
  BY <1>a, OpenStep DEF Adopt, Opening, Quietly, LivesInv, IssuedInv, CredentialHeld
<1>8. CASE OpenSucceeds
  BY <1>8, OpenStep DEF OpenSucceeds, Opening, CredentialHeld, Types, LivesOK
<1>9. CASE OpenFails
  BY <1>9 DEF OpenFails, Opening, LivesInv, CredentialHeld
<1>10. CASE OpenInterrupted
  BY <1>10 DEF OpenInterrupted, Opening, CredentialHeld
<1>11. CASE Attach
  <2>1. entry'.runtime = entry.runtime
    BY <1>11, ScheduleStep DEF Attach, Types, IdleOK
  <2> QED
    BY <1>11, <2>1 DEF Attach, Opening, CredentialHeld
<1>12. CASE AttachFails
  BY <1>12, AttachFailsStep DEF CredentialHeld
<1>13. CASE OpenGivesUp
  BY <1>13 DEF OpenGivesUp, Opening, Quietly, CredentialHeld
<1>14. CASE Close
  BY <1>r, <1>14 DEF Close, Releasing, Removes
<1>15. CASE TerminalDetach
  BY <1>15 DEF TerminalDetach, CredentialHeld
<1>16. ASSUME NEW i \in Runtime, CloseEnds(i) PROVE CredentialHeld'
  BY <1>16 DEF CloseEnds, Releasing, CredentialHeld
<1>17. ASSUME NEW i \in Runtime, Revoke(i) PROVE CredentialHeld'
  BY <1>17 DEF Revoke, Releasing, Reserved, ClearCredential, CredentialHeld
<1>18. CASE UNCHANGED vars
  BY <1>18 DEF vars, flags, CredentialHeld
<1> QED
  BY <1>1, <1>2, <1>3, <1>4, <1>5, <1>6, <1>7, <1>8, <1>9, <1>10, <1>11, <1>12, <1>13, <1>14, <1>15,
     <1>16, <1>17, <1>18, <1>a, NextStep

(* A step that revokes or keeps, and lets no other process have an entry.   *)
LEMMA OneKept ==
  ASSUME OneCredentialInv, valid' \subseteq valid, leaked' = leaked, interrupted => interrupted',
         Present' => entry'.runtime = entry.runtime /\ credOf'[entry.runtime] = credOf[entry.runtime],
         opener' = opener \/ opener'.step \notin {"issuing", "adopting", "starting"}
  PROVE  OneCredentialInv'
BY DEF OneCredentialInv, Present

LEMMA OneStep == Types /\ LivesInv /\ OneCredentialInv /\ [Next]_vars => OneCredentialInv'
<1> SUFFICES ASSUME Types, LivesInv, OneCredentialInv, [Next]_vars PROVE OneCredentialInv'
  OBVIOUS
<1> USE OpenerFacts, NoEntryValues DEF registry
<1>1. CASE IdleMoves
  BY <1>1, IdleStep, OneKept DEF Types, Idles, Present
<1>2. ASSUME NEW i \in Runtime, BeginTurn(i) PROVE OneCredentialInv'
  BY <1>2, BeginTurnStep, OneKept DEF Types, flags
<1>3. ASSUME NEW i \in Runtime, TurnGoes(i) PROVE OneCredentialInv'
  BY <1>3, TurnGoesStep, OneKept DEF Types
<1>4. ASSUME NEW i \in Runtime, TurnStops(i) PROVE OneCredentialInv'
  BY <1>4, TurnStopsStep, MarkIdleStep, OneKept DEF Types
<1>5. CASE OpenStart
  BY <1>5, OpenStep DEF OpenStart, Opening, Quietly, NoFault, OneCredentialInv, Present
<1>6. CASE Resolve
  <2>1. /\ ~Present /\ ~Present' /\ UNCHANGED <<leaked, interrupted>>
        /\ \/ valid' = valid /\ opener.credential \in valid
              /\ opener'.step = "starting" /\ opener'.credential = opener.credential
           \/ valid' = {}
    BY <1>6, OpenStep DEF Resolve, Quietly, NoFault, LivesInv, Present
  <2> QED
    BY <2>1 DEF OneCredentialInv
<1>7. CASE Issue
  <2>1. valid = {} /\ ~Present /\ UNCHANGED <<entry, leaked, interrupted>> /\ valid' = {issued + 1}
    BY <1>7, OpenStep DEF Issue, Quietly, NoFault, LivesInv, OneCredentialInv
  <2> QED
    BY <1>7, <2>1, OpenStep DEF OneCredentialInv, Present
<1>a. CASE Adopt
  <2>1. ~Present /\ UNCHANGED <<entry, valid, leaked, interrupted>>
    BY <1>a, OpenStep DEF Adopt, Quietly, NoFault, LivesInv
  <2> QED
    BY <1>a, <2>1, OpenStep DEF OneCredentialInv, Present
<1>8. CASE OpenSucceeds
  <2> DEFINE i == opener.runtime
  <2>1. /\ opener.step = "starting" /\ i \in Runtime /\ entry'.runtime = i /\ opener'.step = "attaching"
        /\ UNCHANGED <<valid, leaked, interrupted>>
        /\ credOf' = [credOf EXCEPT ![i] = opener.credential]
    BY <1>8, OpenStep DEF OpenSucceeds, NoFault
  <2>2. credOf'[entry'.runtime] = opener.credential
    BY <2>1 DEF Types, LivesOK
  <2> QED
    BY <2>1, <2>2 DEF OneCredentialInv
<1>9. CASE OpenFails
  BY <1>9, OneKept DEF OpenFails, ClearCredential
<1>10. CASE OpenInterrupted
  BY <1>10 DEF OpenInterrupted, OneCredentialInv, Present
<1>11. CASE Attach
  <2>1. entry'.runtime = entry.runtime
    BY <1>11, ScheduleStep DEF Attach, Types, IdleOK
  <2> QED
    BY <1>11, <2>1, OneKept DEF Attach, NoFault
<1>12. CASE AttachFails
  BY <1>12, AttachFailsStep, OneKept DEF Present
<1>13. CASE OpenGivesUp
  BY <1>13, OneKept DEF OpenGivesUp, Quietly, NoFault
<1>14. CASE Close
  BY <1>14, OneKept DEF Close, Releasing, Present
<1>15. CASE TerminalDetach
  <2>1. valid' = {} /\ UNCHANGED <<leaked, opener, interrupted>>
    BY <1>15 DEF TerminalDetach, Releasing
  <2> QED
    BY <2>1 DEF OneCredentialInv
<1>16. ASSUME NEW i \in Runtime, CloseEnds(i) PROVE OneCredentialInv'
  BY <1>16, OneKept DEF CloseEnds, Releasing
<1>17. ASSUME NEW i \in Runtime, Revoke(i) PROVE OneCredentialInv'
  BY <1>17, OneKept DEF Revoke, Releasing, ClearCredential
<1>18. CASE UNCHANGED vars
  BY <1>18, OneKept DEF vars, flags
<1> QED
  BY <1>1, <1>2, <1>3, <1>4, <1>5, <1>6, <1>7, <1>8, <1>9, <1>10, <1>11, <1>12, <1>13, <1>14, <1>15,
     <1>16, <1>17, <1>18, <1>a, NextStep

(* Who holds credential c: an open call, or a process that will revoke it.  *)
Keeps(c, i) == credOf[i] = c /\ life[i] \in {"live", "idled", "closing", "revoking"}
Holds(c) ==
  \/ opener.step \in {"resolving", "adopting", "starting"} /\ opener.credential = c
  \/ \E i \in Runtime : Keeps(c, i)

LEMMA RevokedMeans ==
  /\ CredentialsRevoked <=> (~interrupted /\ ~openFailed => \A c \in valid : Holds(c))
  /\ CredentialsRevoked' <=> (~interrupted' /\ ~openFailed' => \A c \in valid' : Holds(c)')
BY DEF CredentialsRevoked, Holds, Keeps

LEMMA RevokedKept ==
  ASSUME CredentialsRevoked, valid' \subseteq valid,
         interrupted => interrupted', openFailed => openFailed',
         opener' = opener \/ opener.step \notin {"resolving", "adopting", "starting"},
         \A c, i : i \in Runtime /\ Keeps(c, i) => Keeps(c, i)'
  PROVE  CredentialsRevoked'
<1>1. \A c : Holds(c) => Holds(c)'
  BY DEF Holds
<1> QED
  BY <1>1, RevokedMeans

LEMMA RevokedStep ==
  Types /\ LivesInv /\ CredentialHeld /\ OneCredentialInv /\ CredentialsRevoked /\ [Next]_vars
    => CredentialsRevoked'
<1> SUFFICES ASSUME Types, LivesInv, CredentialHeld, OneCredentialInv, CredentialsRevoked, [Next]_vars
             PROVE  CredentialsRevoked'
  OBVIOUS
<1> USE OpenerFacts DEF registry
<1>r. ASSUME NEW stage \in {"idled", "closing"}, life' = [life EXCEPT ![entry.runtime] = stage],
             credOf' = credOf, Present
      PROVE  \A c, i : i \in Runtime /\ Keeps(c, i) => Keeps(c, i)'
  BY <1>r DEF Keeps, Types, LivesOK
<1>1. CASE IdleMoves
  <2>1. \A c, i : i \in Runtime /\ Keeps(c, i) => Keeps(c, i)'
    BY <1>1, <1>r, IdleStep DEF Types, Idles, Keeps
  <2> QED
    BY <1>1, <2>1, IdleStep, RevokedKept DEF Types
<1>2. ASSUME NEW i \in Runtime, BeginTurn(i) PROVE CredentialsRevoked'
  BY <1>2, BeginTurnStep, RevokedKept DEF Types, flags, Keeps
<1>3. ASSUME NEW i \in Runtime, TurnGoes(i) PROVE CredentialsRevoked'
  BY <1>3, TurnGoesStep, RevokedKept DEF Types, Keeps
<1>4. ASSUME NEW i \in Runtime, TurnStops(i) PROVE CredentialsRevoked'
  BY <1>4, TurnStopsStep, MarkIdleStep, RevokedKept DEF Types, Keeps
<1>5. CASE OpenStart
  BY <1>5, OpenStep, RevokedKept DEF OpenStart, Opening, Quietly, NoFault, Keeps
<1>b. ASSUME NEW i \in Runtime, life[i] = "none", life' = [life EXCEPT ![i] = "opening"], credOf' = credOf
      PROVE  \A c, j : j \in Runtime /\ Keeps(c, j) => Keeps(c, j)'
  BY <1>b DEF Keeps, Types, LivesOK
<1>6. CASE Resolve
  <2>1. UNCHANGED <<credOf, interrupted, openFailed>> /\ opener.step = "resolving"
    BY <1>6, OpenStep DEF Resolve, Quietly, NoFault
  <2>2. CASE valid' = {}
    BY <2>2, RevokedMeans
  <2>3. CASE valid' = valid /\ opener'.step = "starting" /\ opener'.credential = opener.credential
             /\ \E i \in Runtime : life[i] = "none" /\ life' = [life EXCEPT ![i] = "opening"]
    <3>1. \A c, j : j \in Runtime /\ Keeps(c, j) => Keeps(c, j)'
      BY <1>b, <2>1, <2>3
    <3>2. \A c : Holds(c) => Holds(c)'
      BY <2>1, <2>3, <3>1 DEF Holds
    <3> QED
      BY <2>1, <2>3, <3>2, RevokedMeans
  <2> QED
    BY <1>6, <2>2, <2>3, OpenStep
<1>7. CASE Issue
  <2>1. /\ UNCHANGED <<credOf, interrupted, openFailed>> /\ opener.step = "issuing"
        /\ valid' = valid \cup {issued + 1}
        /\ opener'.step = "adopting" /\ opener'.credential = issued + 1
    BY <1>7, OpenStep DEF Issue, Quietly, NoFault
  <2>2. valid = {}
    BY <2>1 DEF OneCredentialInv
  <2> QED
    BY <2>1, <2>2 DEF CredentialsRevoked
<1>a. CASE Adopt
  <2>1. /\ UNCHANGED <<valid, credOf, interrupted, openFailed>>
        /\ opener'.step = "starting" /\ opener'.credential = opener.credential
    BY <1>a, OpenStep DEF Adopt, Quietly, NoFault
  <2>2. \A c, j : j \in Runtime /\ Keeps(c, j) => Keeps(c, j)'
    BY <1>a, <1>b, <2>1, OpenStep
  <2>3. \A c : Holds(c) => Holds(c)'
    BY <2>1, <2>2 DEF Holds
  <2> QED
    BY <2>1, <2>3, RevokedMeans
<1>8. CASE OpenSucceeds
  <2> DEFINE i == opener.runtime
  <2>1. /\ UNCHANGED <<valid, interrupted, openFailed>> /\ i \in Runtime /\ life[i] = "opening"
        /\ life' = [life EXCEPT ![i] = "live"]
        /\ credOf' = [credOf EXCEPT ![i] = opener.credential]
    BY <1>8, OpenStep DEF OpenSucceeds, NoFault, LivesInv
  <2>2. \A c, j : j \in Runtime /\ Keeps(c, j) => Keeps(c, j)'
    BY <2>1 DEF Keeps, Types, LivesOK
  <2>3. credOf'[i] = opener.credential /\ life'[i] = "live"
    BY <2>1 DEF Types, LivesOK
  <2>4. \A c : Holds(c) => \E j \in Runtime : Keeps(c, j)'
    BY <2>1, <2>2, <2>3 DEF Holds, Keeps
  <2>5. \A c : Holds(c) => Holds(c)'
    BY <2>4 DEF Holds
  <2> QED
    BY <2>1, <2>5, RevokedMeans
<1>9. CASE OpenFails
  BY <1>9 DEF OpenFails, CredentialsRevoked
<1>10. CASE OpenInterrupted
  BY <1>10 DEF OpenInterrupted, CredentialsRevoked
<1>11. CASE Attach
  BY <1>11, RevokedKept DEF Attach, Opening, NoFault, Keeps
<1>12. CASE AttachFails
  BY <1>12 DEF AttachFails, CredentialsRevoked
<1>13. CASE OpenGivesUp
  BY <1>13, RevokedKept DEF OpenGivesUp, Opening, Quietly, NoFault, Keeps
<1>14. CASE Close
  <2>1. \A c, i : i \in Runtime /\ Keeps(c, i) => Keeps(c, i)'
    BY <1>14, <1>r DEF Close
  <2> QED
    BY <1>14, <2>1, RevokedKept DEF Close, Releasing
<1>15. CASE TerminalDetach
  BY <1>15, RevokedMeans DEF TerminalDetach
<1>16. ASSUME NEW i \in Runtime, CloseEnds(i) PROVE CredentialsRevoked'
  <2>1. \A c, j : j \in Runtime /\ Keeps(c, j) => Keeps(c, j)'
    BY <1>16 DEF CloseEnds, Keeps, Types, LivesOK
  <2> QED
    BY <1>16, <2>1, RevokedKept DEF CloseEnds, Releasing
<1>17. ASSUME NEW i \in Runtime, Revoke(i) PROVE CredentialsRevoked'
  <2>1. /\ life[i] = "revoking" /\ life' = [life EXCEPT ![i] = "gone"]
        /\ UNCHANGED <<entry, credOf, opener, leaked, interrupted, openFailed, deleted>>
        /\ valid' = valid \ {credOf[i]} \/ (valid' = valid /\ (Reserved(credOf[i]) \/ Present))
    BY <1>17 DEF Revoke, Releasing, ClearCredential
  <2>2. \A c, j : j \in Runtime /\ j # i /\ Keeps(c, j) => Keeps(c, j)'
    BY <2>1 DEF Keeps, Types, LivesOK
  <2>3. ASSUME NEW c \in valid', Holds(c), ~interrupted PROVE Holds(c)'
    <3>1. CASE c # credOf[i]
      BY <2>1, <2>2, <2>3, <3>1 DEF Holds, Keeps
    <3>2. CASE c = credOf[i] /\ Present
      <4>1. credOf[entry.runtime] = c /\ life[entry.runtime] = "live" /\ entry.runtime \in Runtime
        BY <2>1, <2>3, <3>2, Ranges DEF OneCredentialInv, LivesInv, Present
      <4> QED
        BY <2>1, <2>2, <4>1 DEF Holds, Keeps
    <3>3. CASE c = credOf[i] /\ Reserved(credOf[i])
      BY <2>1, <2>3, <3>3 DEF Holds, Reserved, OneCredentialInv
    <3> QED
      BY <2>1, <2>3, <3>1, <3>2, <3>3
  <2> QED
    BY <2>1, <2>3, RevokedMeans
<1>18. CASE UNCHANGED vars
  BY <1>18, RevokedKept DEF vars, flags, Keeps
<1> QED
  BY <1>1, <1>2, <1>3, <1>4, <1>5, <1>6, <1>7, <1>8, <1>9, <1>10, <1>11, <1>12, <1>13, <1>14, <1>15,
     <1>16, <1>17, <1>18, <1>a, NextStep

-----------------------------------------------------------------------------
(* Timers.                                                                 *)
LEMMA TimedMeans ==
  /\ IdleIsTimed <=>
       (Present /\ entry.busy = 0 /\ opener.step # "attaching" /\ ~interrupted => Timed)
  /\ IdleIsTimed' <=>
       (Present' /\ entry'.busy = 0 /\ opener'.step # "attaching" /\ ~interrupted' => Timed')
BY DEF IdleIsTimed, Timed

(* Without changes of the entry's timer, and with a newly scheduled one.   *)
LEMMA SameTimers ==
  ASSUME ProbeInv, IdleIsTimed, UNCHANGED <<entry, timers>>,
         opener.step # "attaching" \/ opener'.step = "attaching" \/ ~Present,
         interrupted => interrupted'
  PROVE  ProbeInv' /\ IdleIsTimed'
BY DEF ProbeInv, IdleIsTimed, Present, Free

LEMMA NoTimers ==
  ASSUME entry'.timer = 0 \/ timers'[entry'.timer].step # "probing",
         \/ ~Present' \/ entry'.busy # 0 \/ opener'.step = "attaching" \/ interrupted'
         \/ Timed'
  PROVE  ProbeInv' /\ IdleIsTimed'
BY TimedMeans DEF ProbeInv

(* An idle fiber that ends is not the timer of an idle session.            *)
LEMMA DieTimed ==
  ASSUME Types, ProbeInv, IdleIsTimed, NEW k \in Timer, Die(k), timers[k].step # "waiting",
         UNCHANGED <<opener, interrupted>>,
         Present /\ entry.busy = 0 /\ entry.timer = k => timers[k].generation # entry.generation
  PROVE  ProbeInv' /\ IdleIsTimed'
<1>1. /\ timers' = Without(k) /\ entry'.runtime = entry.runtime /\ entry'.busy = entry.busy
      /\ entry'.generation = entry.generation
      /\ entry'.timer = IF entry.timer = k THEN 0 ELSE entry.timer
  BY DieStep DEF Types
<1>2. \A j \in Timer : j # k => timers'[j] = timers[j]
  BY <1>1, WithoutType DEF Types, IdleOK
<1>3. entry.timer \in 0..MaxTimers /\ (entry.timer # 0 => entry.timer \in Timer)
  BY EntryFields, Ranges DEF Types, IdleOK
<1>4. ProbeInv'
  BY <1>1, <1>2, <1>3 DEF ProbeInv
<1>5. ASSUME Present, entry.busy = 0, Timed PROVE Timed'
  BY <1>1, <1>2, <1>3, <1>5 DEF Timed, Free
<1> QED
  BY <1>1, <1>4, <1>5, TimedMeans DEF Present

LEMMA TimerTimed ==
  ASSUME Types, ProbeInv, IdleIsTimed, NEW k \in Timer,
         \/ InstallTimer(k) \/ TimerFires(k) \/ TimerPins(k) \/ TimerReleases(k)
         \/ InstallInterrupted(k)
  PROVE  ProbeInv' /\ IdleIsTimed'
<1> DEFINE idle == StillIdle(k) /\ entry.runtime = timers[k].probed
<1>0. /\ timers \in [Timer -> TimerRow] /\ k # 0
      /\ entry.timer # 0 => entry.timer \in Timer
      /\ entry \in EntryRow
  BY EntryFields, Ranges DEF Types, IdleOK
<1>t. Timing => UNCHANGED <<opener, interrupted>>
  BY DEF Timing, flags
<1>1. CASE InstallTimer(k)
  <2>1. /\ timers' = [timers EXCEPT ![k].step = "sleeping"]
        /\ timers[k].step = "waiting" /\ UNCHANGED <<opener, interrupted>>
    BY <1>1, <1>t DEF InstallTimer
  <2>2. /\ timers'[k].step = "sleeping" /\ timers'[k].generation = timers[k].generation
        /\ \A j \in Timer : j # k => timers'[j] = timers[j]
    BY <1>0, <2>1 DEF TimerRow
  <2>3. CASE ~Present \/ entry.busy > 0
    <3>1. entry' = entry
      BY <1>1, <2>3 DEF InstallTimer
    <3>2. ProbeInv'
      BY <1>0, <2>2, <3>1 DEF ProbeInv
    <3>3. ~Present \/ entry.busy # 0
      BY <1>0, <2>3, EntryFields
    <3> QED
      BY <3>1, <3>2, <3>3, TimedMeans DEF Present
  <2>4. CASE ~(~Present \/ entry.busy > 0)
    <3>1. entry' = [entry EXCEPT !.generation = timers[k].generation, !.timer = k]
      BY <1>1, <2>4 DEF InstallTimer
    <3>2. entry'.timer = k /\ entry'.generation = timers[k].generation
      BY <1>0, <3>1 DEF EntryRow
    <3> QED
      BY <1>0, <2>2, <3>2, NoTimers DEF Timed, Free
  <2> QED
    BY <2>3, <2>4
<1>2. CASE InstallInterrupted(k)
  <2>1. timers' = Without(k) /\ entry' = entry /\ interrupted'
    BY <1>2 DEF InstallInterrupted
  <2>2. timers'[k].step = "none" /\ \A j \in Timer : j # k => timers'[j] = timers[j]
    BY <1>0, <2>1, TimerTypes DEF Without
  <2> QED
    BY <1>0, <2>1, <2>2, TimedMeans DEF ProbeInv
<1>3. CASE TimerFires(k) /\ StillIdle(k)
  <2>1. /\ timers' = [timers EXCEPT ![k].step = "probing", ![k].probed = entry.runtime]
        /\ timers[k].step = "sleeping" /\ entry' = entry /\ UNCHANGED <<opener, interrupted>>
    BY <1>3, <1>t DEF TimerFires
  <2>2. /\ timers'[k].step = "probing" /\ timers'[k].generation = timers[k].generation
        /\ timers'[k].probed = entry.runtime
        /\ \A j \in Timer : j # k => timers'[j] = timers[j]
    BY <1>0, <2>1 DEF TimerRow
  <2>3. ProbeInv'
    BY <1>0, <2>1, <2>2 DEF ProbeInv
  <2>4. Timed => Timed'
    BY <1>0, <2>1, <2>2 DEF Timed, Free
  <2> QED
    BY <2>1, <2>3, <2>4, TimedMeans DEF Present
<1>4. CASE TimerPins(k) /\ idle
  <2>1. /\ timers' = [timers EXCEPT ![k] = Fork("sleeping", timers[k].generation)]
        /\ entry' = [entry EXCEPT !.pins = @ + 1]
        /\ timers[k].step = "probing" /\ UNCHANGED <<opener, interrupted>>
    BY <1>4, <1>t DEF TimerPins
  <2>2. /\ timers'[k].step = "sleeping" /\ timers'[k].generation = timers[k].generation
        /\ \A j \in Timer : j # k => timers'[j] = timers[j]
    BY <1>0, <2>1, TimerTypes
  <2>3. /\ entry'.runtime = entry.runtime /\ entry'.busy = entry.busy
        /\ entry'.generation = entry.generation /\ entry'.timer = entry.timer
    BY <1>0, <2>1 DEF EntryRow
  <2>4. ProbeInv'
    BY <1>0, <2>2, <2>3 DEF ProbeInv
  <2>5. Timed => Timed'
    BY <1>0, <2>1, <2>2, <2>3 DEF Timed, Free
  <2> QED
    BY <2>1, <2>3, <2>4, <2>5, TimedMeans DEF Present
<1>5. CASE TimerReleases(k) /\ StillIdle(k)
  <2>1. entry' = NoEntry
    BY <1>5 DEF TimerReleases
  <2> QED
    BY <2>1, NoEntryValues, NoTimers DEF Present
<1>6. CASE Die(k) /\ Timing
           /\ \/ timers[k].step = "sleeping" /\ ~StillIdle(k)
              \/ timers[k].step = "probing" /\ ~idle
  <2>1. Present /\ entry.busy = 0 /\ entry.timer = k => timers[k].generation # entry.generation
    BY <1>0, <1>6 DEF StillIdle, ProbeInv
  <2> QED
    BY <1>6, <1>t, <2>1, DieTimed
<1>7. /\ TimerFires(k) /\ ~StillIdle(k) => Die(k) /\ Timing /\ timers[k].step = "sleeping"
      /\ TimerPins(k) /\ ~idle => Die(k) /\ Timing /\ timers[k].step = "probing"
      /\ TimerReleases(k) /\ ~StillIdle(k) => Die(k) /\ Timing /\ timers[k].step = "probing"
  BY DEF TimerFires, TimerPins, TimerReleases
<1> HIDE DEF idle
<1>8. ~StillIdle(k) => ~idle
  BY DEF idle
<1> QED
  BY <1>1, <1>2, <1>3, <1>4, <1>5, <1>6, <1>7, <1>8

LEMMA TimedStep ==
  Types /\ LivesInv /\ ProbeInv /\ IdleIsTimed /\ [Next]_vars => ProbeInv' /\ IdleIsTimed'
<1> SUFFICES ASSUME Types, LivesInv, ProbeInv, IdleIsTimed, [Next]_vars
             PROVE  ProbeInv' /\ IdleIsTimed'
  OBVIOUS
<1> USE OpenerFacts, NoEntryValues
<1>n. entry.busy \in Nat
  BY EntryFields DEF Types, IdleOK
<1>1. CASE Touch
  <2>1. /\ entry \in EntryRow /\ Schedule(entry) /\ UNCHANGED <<opener, interrupted>>
    BY <1>1 DEF Touch, Types, IdleOK, flags
  <2>2. /\ ProbeInv' /\ entry'.runtime = entry.runtime /\ entry'.busy = entry.busy
        /\ entry.runtime # 0 /\ entry.busy = 0 => Timed'
    BY <2>1, ScheduleStep DEF Types, ProbeInv
  <2> QED
    BY <2>2, TimedMeans DEF Present
<1>2. ASSUME NEW i \in Runtime, BeginTurn(i) PROVE ProbeInv' /\ IdleIsTimed'
  <2>1. /\ UNCHANGED <<opener, interrupted>>
        /\ \/ ~Present /\ UNCHANGED <<entry, timers>>
           \/ /\ Present /\ entry'.runtime = entry.runtime /\ entry'.busy = entry.busy + 1
              /\ entry'.timer = 0
    BY <1>2, BeginTurnStep DEF Types, flags
  <2>2. CASE ~Present /\ UNCHANGED <<entry, timers>>
    BY <2>1, <2>2, SameTimers
  <2>3. CASE entry'.busy = entry.busy + 1 /\ entry'.timer = 0
    <3>1. entry'.busy # 0
      BY <1>n, <2>3
    <3> QED
      BY <2>3, <3>1, NoTimers
  <2> QED
    BY <2>1, <2>2, <2>3
<1>3. ASSUME NEW i \in Runtime, TurnGoes(i) PROVE ProbeInv' /\ IdleIsTimed'
  BY <1>3, TurnGoesStep, SameTimers DEF Types
<1>4. ASSUME NEW i \in Runtime, TurnStops(i) PROVE ProbeInv' /\ IdleIsTimed'
  <2>1. /\ UNCHANGED <<opener, interrupted>> /\ entry'.runtime = entry.runtime
        /\ entry.runtime # 0 /\ entry'.busy = 0 => Timed'
        /\ \/ entry'.timer = entry.timer /\ UNCHANGED timers
           \/ entry'.timer # 0 => timers'[entry'.timer].step = "sleeping"
    BY <1>4, TurnStopsStep, MarkIdleStep DEF Types
  <2>2. ProbeInv'
    BY <2>1 DEF ProbeInv
  <2> QED
    BY <2>1, <2>2, TimedMeans DEF Present
<1>5. CASE OpenStart \/ Resolve \/ Issue \/ Adopt
  <2>1. UNCHANGED <<entry, timers, interrupted>> /\ opener.step # "attaching"
    BY <1>5, OpenStep DEF OpenStart, Resolve, Issue, Adopt, Quietly, NoFault
  <2> QED
    BY <2>1, SameTimers
<1>8. CASE OpenSucceeds
  BY <1>8, OpenStep, NoTimers
<1>9. CASE OpenFails
  BY <1>9, SameTimers DEF OpenFails, Opening
<1>10. CASE OpenInterrupted
  <2>1. UNCHANGED <<entry, timers>> /\ interrupted'
    BY <1>10 DEF OpenInterrupted
  <2> QED
    BY <2>1 DEF ProbeInv, IdleIsTimed
<1>11. CASE Attach
  <2>1. entry \in EntryRow /\ Schedule(entry)
    BY <1>11 DEF Attach, Types, IdleOK
  <2>2. /\ ProbeInv' /\ entry'.runtime = entry.runtime /\ entry'.busy = entry.busy
        /\ entry.runtime # 0 /\ entry.busy = 0 => Timed'
    BY <2>1, ScheduleStep DEF Types, ProbeInv
  <2> QED
    BY <2>2, TimedMeans DEF Present
<1>12. CASE AttachFails
  <2>1. CASE Present
    <3>1. entry' = NoEntry
      BY <1>12, <2>1 DEF AttachFails
    <3> QED
      BY <3>1, NoTimers DEF Present
  <2>2. CASE ~Present
    BY <1>12, <2>2, SameTimers DEF AttachFails
  <2> QED
    BY <2>1, <2>2
<1>13. CASE OpenGivesUp
  BY <1>13, SameTimers DEF OpenGivesUp, Opening, Quietly, NoFault
<1>14. CASE Close
  BY <1>14, NoTimers DEF Close, Present
<1>15. CASE TerminalDetach
  <2>1. CASE Present
    <3>1. entry' = NoEntry
      BY <1>15, <2>1 DEF TerminalDetach
    <3> QED
      BY <3>1, NoTimers DEF Present
  <2>2. CASE ~Present
    BY <1>15, <2>2, SameTimers DEF TerminalDetach, Releasing
  <2> QED
    BY <2>1, <2>2
<1>16. ASSUME NEW i \in Runtime, CloseEnds(i) PROVE ProbeInv' /\ IdleIsTimed'
  BY <1>16, SameTimers DEF CloseEnds, Releasing
<1>17. ASSUME NEW i \in Runtime, Revoke(i) PROVE ProbeInv' /\ IdleIsTimed'
  BY <1>17, SameTimers DEF Revoke, Releasing
<1>18. CASE UNCHANGED vars
  BY <1>18, SameTimers DEF vars, flags
<1>19. ASSUME IdleMoves PROVE ProbeInv' /\ IdleIsTimed'
  BY <1>1, <1>19, TimerTimed DEF IdleMoves
<1> QED
  BY <1>2, <1>3, <1>4, <1>5, <1>8, <1>9, <1>10, <1>11, <1>12, <1>13, <1>14, <1>15, <1>16, <1>17, <1>18,
     <1>19, NextStep

-----------------------------------------------------------------------------
(* Counted turns.                                                          *)
LEMMA CountedFinite ==
  /\ IsFiniteSet(Runtime) /\ IsFiniteSet(Counted) /\ Cardinality(Counted) \in Nat
<1>1. IsFiniteSet(Runtime)
  BY SessionAssumption, FS_Interval DEF Runtime
<1>2. Counted \subseteq Runtime
  BY DEF Counted
<1> QED
  BY <1>1, <1>2, FS_Subset, FS_CardinalityType

(* Steps that begin and end no turn.                                       *)
LEMMA CountKept ==
  ASSUME CountInv, UNCHANGED <<turn, marked, stray>>,
         ~Present' \/ (entry'.runtime = entry.runtime /\ entry'.busy = entry.busy),
         \A i \in Runtime : life'[i] \in Unborn => life[i] \in Unborn
  PROVE  CountInv'
BY DEF CountInv, Counted, Present

LEMMA CountStep == Types /\ LivesInv /\ CountInv /\ [Next]_vars => CountInv'
<1> SUFFICES ASSUME Types, LivesInv, CountInv, [Next]_vars PROVE CountInv'
  OBVIOUS
<1> USE OpenerFacts, NoEntryValues
<1>0. /\ entry.busy \in Nat /\ life \in [Runtime -> Life]
      /\ turn \in [Runtime -> TurnStep] /\ marked \in [Runtime -> 0..MaxRuntimes]
      /\ entry.runtime # 0 => entry.runtime \in Runtime
      /\ 0 \notin Runtime
  BY EntryFields, Ranges DEF Types, IdleOK, LivesOK, TurnsOK
<1>r. ASSUME NEW i, NEW stage \in {"idled", "closing", "revoking", "gone"},
             life' = [life EXCEPT ![i] = stage]
      PROVE  \A j \in Runtime : life'[j] \in Unborn => life[j] \in Unborn
  BY <1>0, <1>r DEF Unborn
<1>1. CASE IdleMoves
  <2>1. \A j \in Runtime : life'[j] \in Unborn => life[j] \in Unborn
    BY <1>1, <1>r, IdleStep DEF Types, Idles
  <2> QED
    BY <1>1, <2>1, CountKept, IdleStep DEF Types, Idles, Present
<1>2. ASSUME NEW i \in Runtime, BeginTurn(i) PROVE CountInv'
  <2>1. /\ UNCHANGED <<life, stray>> /\ life[i] \notin Unborn
        /\ turn' = [turn EXCEPT ![i] = "starting"]
        /\ marked' = [marked EXCEPT ![i] = entry.runtime]
        /\ \/ ~Present /\ UNCHANGED entry
           \/ Present /\ entry'.runtime = entry.runtime /\ entry'.busy = entry.busy + 1
    BY <1>2, BeginTurnStep DEF Types, flags
  <2>2. entry'.runtime = entry.runtime
    BY <2>1
  <2>3. Present => life[entry.runtime] \notin Unborn
    BY DEF LivesInv, Unborn
  <2>4. ASSUME NEW j \in Runtime, life'[j] \in Unborn
        PROVE  turn'[j] = "none" /\ \A m \in Runtime : marked'[m] # j
    BY <1>0, <2>1, <2>3, <2>4 DEF CountInv, Present
  <2>5. Present' /\ turn'[entry'.runtime] # "none" => marked'[entry'.runtime] = entry'.runtime
    BY <1>0, <2>1, <2>2 DEF CountInv, Present
  <2>6. Counted' \subseteq Counted \cup {i}
    BY <1>0, <2>1, <2>2 DEF Counted
  <2>7. Cardinality(Counted') <= Cardinality(Counted) + 1
    <3>1. /\ IsFiniteSet(Counted \cup {i})
          /\ Cardinality(Counted \cup {i}) <= Cardinality(Counted) + 1
      <4> DEFINE counted == Counted
      <4>1. IsFiniteSet(counted) /\ Cardinality(counted) \in Nat
        BY CountedFinite
      <4> HIDE DEF counted
      <4>2. IsFiniteSet(counted \cup {i}) /\ Cardinality(counted \cup {i}) <= Cardinality(counted) + 1
        <5>1. \/ Cardinality(counted \cup {i}) = Cardinality(counted)
              \/ Cardinality(counted \cup {i}) = Cardinality(counted) + 1
          BY <4>1, FS_AddElement
        <5>2. IsFiniteSet(counted \cup {i})
          BY <4>1, FS_AddElement
        <5> QED
          BY <4>1, <5>1, <5>2
      <4> QED
        BY <4>2 DEF counted
    <3>2. Cardinality(Counted') <= Cardinality(Counted \cup {i})
      BY <2>6, <3>1, FS_Subset
    <3>3. Cardinality(Counted') \in Nat /\ Cardinality(Counted \cup {i}) \in Nat
      BY <2>6, <3>1, FS_Subset, FS_CardinalityType
    <3> QED
      BY <3>1, <3>2, <3>3, CountedFinite
  <2>8. Cardinality(Counted') \in Nat
    BY <2>6, CountedFinite, FS_AddElement, FS_Subset, FS_CardinalityType
  <2>9. Present' /\ ~stray' => Cardinality(Counted') <= entry'.busy
    BY <1>0, <2>1, <2>2, <2>7, <2>8, CountedFinite DEF CountInv, Present
  <2> QED
    BY <2>4, <2>5, <2>9 DEF CountInv
<1>3. ASSUME NEW i \in Runtime, TurnGoes(i) PROVE CountInv'
  <2>1. PICK step : turn' = [turn EXCEPT ![i] = step]
    BY <1>3, TurnGoesStep DEF Types
  <2>2. /\ UNCHANGED <<entry, life, marked, stray>> /\ turn[i] # "none"
    BY <1>3, TurnGoesStep DEF Types
  <2>3. Counted' = Counted
    BY <2>2 DEF Counted
  <2>4. \A j \in Runtime : turn'[j] # "none" => turn[j] # "none"
    BY <1>0, <2>1, <2>2
  <2>5. \A j \in Runtime : turn[j] = "none" => turn'[j] = "none"
    BY <1>0, <2>1, <2>2
  <2> QED
    BY <1>0, <2>2, <2>3, <2>4, <2>5 DEF CountInv, Present
<1>4. ASSUME NEW i \in Runtime, TurnStops(i) PROVE CountInv'
  <2>1. /\ UNCHANGED life /\ turn' = [turn EXCEPT ![i] = "none"]
        /\ marked' = [marked EXCEPT ![i] = 0]
        /\ stray' = (stray \/ (Present /\ entry.runtime # marked[i]))
        /\ entry'.runtime = entry.runtime /\ entry'.busy = Less(entry.busy)
    BY <1>4, TurnStopsStep, MarkIdleStep DEF Types
  <2>2. ASSUME NEW j \in Runtime, life'[j] \in Unborn
        PROVE  turn'[j] = "none" /\ \A m \in Runtime : marked'[m] # j
    BY <1>0, <2>1, <2>2 DEF CountInv
  <2>3. Present' /\ turn'[entry'.runtime] # "none" => marked'[entry'.runtime] = entry'.runtime
    BY <1>0, <2>1 DEF CountInv, Present
  <2>4. ASSUME Present', ~stray' PROVE Cardinality(Counted') <= entry'.busy
    <3>1. Present /\ ~stray /\ marked[i] = entry.runtime /\ entry.runtime # 0
      BY <2>1, <2>4 DEF Present
    <3>2. i \in Counted /\ Counted' = Counted \ {i}
      BY <1>0, <2>1, <3>1 DEF Counted
    <3>3. Cardinality(Counted') = Cardinality(Counted) - 1
      BY <3>2, CountedFinite, FS_RemoveElement
    <3>4. Cardinality(Counted) <= entry.busy /\ Cardinality(Counted) # 0
      BY <3>1, <3>2, CountedFinite, FS_EmptySet DEF CountInv
    <3> QED
      BY <1>0, <2>1, <3>3, <3>4, CountedFinite DEF Less
  <2> QED
    BY <2>2, <2>3, <2>4 DEF CountInv
<1>b. ASSUME NEW i \in Runtime, life[i] = "none", life' = [life EXCEPT ![i] = "opening"]
      PROVE  \A j \in Runtime : life'[j] \in Unborn => life[j] \in Unborn
  BY <1>0, <1>b DEF Unborn
<1>5. CASE OpenStart
  BY <1>5, CountKept DEF OpenStart, Opening, Quietly
<1>6. CASE Resolve
  <2>1. UNCHANGED <<entry, turn, marked, stray>>
    BY <1>6 DEF Resolve, Opening, Quietly
  <2>2. \A j \in Runtime : life'[j] \in Unborn => life[j] \in Unborn
    BY <1>6, <1>b, OpenStep
  <2> QED
    BY <2>1, <2>2, CountKept
<1>7. CASE Issue
  BY <1>7, CountKept DEF Issue, Opening, Quietly
<1>a. CASE Adopt
  <2>1. UNCHANGED <<entry, turn, marked, stray>>
    BY <1>a DEF Adopt, Opening, Quietly
  <2>2. \A j \in Runtime : life'[j] \in Unborn => life[j] \in Unborn
    BY <1>a, <1>b, OpenStep
  <2> QED
    BY <2>1, <2>2, CountKept
<1>8. CASE OpenSucceeds
  <2> DEFINE i == opener.runtime
  <2>1. /\ i \in Runtime /\ life[i] = "opening" /\ entry'.runtime = i /\ entry'.busy = 0
        /\ UNCHANGED <<turn, marked, stray>> /\ life' = [life EXCEPT ![i] = "live"]
    BY <1>8, OpenStep DEF OpenSucceeds, Opening, LivesInv
  <2>2. turn[i] = "none" /\ \A j \in Runtime : marked[j] # i
    BY <2>1 DEF CountInv, Unborn
  <2>3. Counted' = {}
    BY <2>1, <2>2 DEF Counted
  <2>4. \A j \in Runtime : life'[j] \in Unborn => life[j] \in Unborn
    BY <1>0, <2>1 DEF Unborn
  <2>5. Cardinality(Counted') = 0
    BY <2>3, FS_EmptySet
  <2> QED
    BY <2>1, <2>2, <2>4, <2>5 DEF CountInv
<1>9. CASE OpenFails
  <2>1. life[opener.runtime] \in Unborn
    BY <1>9 DEF OpenFails, Opening, LivesInv, Unborn
  <2>2. \A j \in Runtime : life'[j] \in Unborn => life[j] \in Unborn
    BY <1>0, <1>9, <2>1 DEF OpenFails
  <2> QED
    BY <1>9, <2>2, CountKept DEF OpenFails, Opening
<1>10. CASE OpenInterrupted
  <2>1. opener.step = "starting" => life[opener.runtime] \in Unborn
    BY DEF LivesInv, Unborn
  <2>2. \A j \in Runtime : life'[j] \in Unborn => life[j] \in Unborn
    BY <1>0, <1>10, <2>1 DEF OpenInterrupted
  <2> QED
    BY <1>10, <2>2, CountKept DEF OpenInterrupted, Opening
<1>11. CASE Attach
  <2>1. entry'.runtime = entry.runtime /\ entry'.busy = entry.busy
    BY <1>11, ScheduleStep DEF Attach, Types, IdleOK
  <2> QED
    BY <1>11, <2>1, CountKept DEF Attach, Opening
<1>12. CASE AttachFails
  <2>1. CASE Present
    <3>1. entry' = NoEntry /\ life' = [life EXCEPT ![entry.runtime] = "closing"]
      BY <1>12, <2>1 DEF AttachFails
    <3> QED
      BY <1>12, <1>r, <3>1, CountKept DEF AttachFails, Opening, Present
  <2>2. CASE ~Present
    BY <1>12, <2>2, CountKept DEF AttachFails, Opening
  <2> QED
    BY <2>1, <2>2
<1>13. CASE OpenGivesUp
  BY <1>13, CountKept DEF OpenGivesUp, Opening, Quietly
<1>14. CASE Close
  <2>1. \A j \in Runtime : life'[j] \in Unborn => life[j] \in Unborn
    BY <1>14, <1>r DEF Close
  <2> QED
    BY <1>14, <2>1, CountKept DEF Close, Releasing, Present
<1>15. CASE TerminalDetach
  <2>1. CASE Present
    <3>1. entry' = NoEntry /\ life' = [life EXCEPT ![entry.runtime] = "closing"]
      BY <1>15, <2>1 DEF TerminalDetach
    <3> QED
      BY <1>15, <1>r, <3>1, CountKept DEF TerminalDetach, Releasing, Present
  <2>2. CASE ~Present
    BY <1>15, <2>2, CountKept DEF TerminalDetach, Releasing
  <2> QED
    BY <2>1, <2>2
<1>16. ASSUME NEW i \in Runtime, CloseEnds(i) PROVE CountInv'
  BY <1>16, <1>r, CountKept DEF CloseEnds, Releasing
<1>17. ASSUME NEW i \in Runtime, Revoke(i) PROVE CountInv'
  BY <1>17, <1>r, CountKept DEF Revoke, Releasing
<1>18. CASE UNCHANGED vars
  BY <1>18, CountKept DEF vars, flags
<1> QED
  BY <1>1, <1>2, <1>3, <1>4, <1>5, <1>6, <1>7, <1>8, <1>9, <1>10, <1>11, <1>12, <1>13, <1>14, <1>15,
     <1>16, <1>17, <1>18, <1>a, NextStep

-----------------------------------------------------------------------------
(* The results.                                                            *)
LEMMA TypeParts == TypeOK <=> Types
BY DEF TypeOK, Types, IdleOK, LivesOK, TurnsOK, OpenerOK, RegistryOK, FlagsOK, BoundsOK,
       EntryRow, TimerRow, OpenerRow, TurnStep

LEMMA InitIInv == Init => IInv
<1> SUFFICES ASSUME Init PROVE IInv
  OBVIOUS
<1> USE DEF Init
<1>1. Types
  <2>1. IdleOK /\ OpenerOK
    BY NoEntryValues, TimerTypes, OpenerTypes DEF IdleOK, OpenerOK
  <2>2. LivesOK /\ TurnsOK
    BY Ranges DEF LivesOK, TurnsOK, Life, TurnStep
  <2>3. RegistryOK /\ BoundsOK
    BY SessionAssumption DEF RegistryOK, BoundsOK
  <2>4. FlagsOK
    BY Zenon DEF FlagsOK
  <2> QED
    BY <2>1, <2>2, <2>3, <2>4 DEF Types
<1>2. ~Present /\ opener.step = "idle" /\ entry.timer = 0
  BY NoEntryValues, OpenerTypes DEF Present
<1>3. \A i \in Runtime : turn[i] = "none" /\ \A j \in Runtime : marked[j] # i
  BY Ranges
<1>4. opener.credential = 0 /\ \A i \in Runtime : credOf[i] = 0
  BY DEF NoOpener
<1> QED
  BY <1>1, <1>2, <1>3, <1>4 DEF IInv, LivesInv, ProbeInv, IdleIsTimed, IssuedInv, CredentialHeld,
     OneCredentialInv, CredentialsRevoked, CountInv

LEMMA Invariant == Spec => []IInv
<1>1. IInv /\ [Next]_vars => IInv'
  BY TypeStep, LivesStep, TimedStep, IssuedStep, HeldStep, OneStep, RevokedStep, CountStep DEF IInv
<1> QED
  BY <1>1, InitIInv, PTL DEF Spec

(* Entries, timers, processes, open calls and the registry have their types. *)
THEOREM TypeCorrect == Spec => []TypeOK
<1>1. IInv => TypeOK
  BY TypeParts DEF IInv
<1> QED
  BY <1>1, Invariant, PTL

(* However callers and idle fibers overlap, scheduleIdleReleaseInternal     *)
(* leaves an idle session with a timer of its own generation, or with one  *)
(* about to be installed: no session is forgotten.                         *)
THEOREM IdleTimersKept == Spec => []IdleIsTimed
<1>1. IInv => IdleIsTimed
  BY DEF IInv
<1> QED
  BY <1>1, Invariant, PTL

(* releaseEntry of an old process never revokes the credential of the one  *)
(* that is open or being started under the same session id.                *)
THEOREM CredentialsHeld == Spec => []CredentialHeld
<1>1. IInv => CredentialHeld
  BY DEF IInv
<1> QED
  BY <1>1, Invariant, PTL

(* Without failed and interrupted open calls, every credential that        *)
(* resolves has a process or an open call that will revoke it.             *)
THEOREM NoCredentialOutlives == Spec => []CredentialsRevoked
<1>1. IInv => CredentialsRevoked
  BY DEF IInv
<1> QED
  BY <1>1, Invariant, PTL

(* releaseIfStillIdle releases no process with a turn, however many turns  *)
(* of other processes were counted for it, unless markIdle has taken the   *)
(* end of a turn of one process for another's.                             *)
THEOREM CountedKept == Spec => CountedSessionKept
<1> DEFINE Kept == \A i \in Runtime : life'[i] = "idled" /\ life[i] # "idled" =>
                     turn[i] \notin {"starting", "running"} \/ stray
<1>1. IInv /\ [Next]_vars => [Kept]_vars
  <2> SUFFICES ASSUME IInv, Next, NEW i \in Runtime, life'[i] = "idled", life[i] # "idled", ~stray
               PROVE  turn[i] = "none"
    OBVIOUS
  <2>0. Types /\ LivesInv /\ CountInv /\ life \in [Runtime -> Life]
    BY DEF IInv, Types, LivesOK
  <2>1. CASE Idles
    <3>1. Present /\ entry.busy = 0 /\ i = entry.runtime
      BY <2>0, <2>1 DEF Idles
    <3>2. Cardinality(Counted) = 0
      BY <2>0, <3>1, CountedFinite DEF CountInv
    <3>3. Counted = {}
      BY <3>2, CountedFinite, FS_EmptySet
    <3> QED
      BY <2>0, <3>1, <3>3 DEF CountInv, Counted
  <2>2. CASE ~Idles
    <3>1. life'[i] = life[i] \/ life'[i] # "idled"
      <4>1. CASE IdleMoves
        BY <2>0, <2>2, <4>1, IdleStep DEF Types
      <4>2. CASE \E j \in Runtime : BeginTurn(j) \/ TurnGoes(j) \/ TurnStops(j)
        BY <2>0, <4>2, BeginTurnStep, TurnGoesStep, TurnStopsStep, MarkIdleStep DEF Types
      <4>3. CASE Resolve \/ Adopt
        BY <2>0, <4>3, OpenStep
      <4>4. CASE OpenStart \/ Issue \/ OpenSucceeds \/ OpenFails \/ OpenInterrupted \/ Attach
                 \/ OpenGivesUp
        BY <2>0, <4>4 DEF OpenStart, Issue, OpenSucceeds, OpenFails, OpenInterrupted, Attach, OpenGivesUp
      <4>5. CASE AttachFails \/ Close \/ TerminalDetach
        BY <2>0, <4>5 DEF AttachFails, Close, TerminalDetach
      <4>6. CASE \E j \in Runtime : CloseEnds(j) \/ Revoke(j)
        BY <2>0, <4>6 DEF CloseEnds, Revoke
      <4> QED
        BY <4>1, <4>2, <4>3, <4>4, <4>5, <4>6, NextStep
    <3> QED
      BY <3>1
  <2> QED
    BY <2>1, <2>2
<1>2. []IInv /\ [][Next]_vars => [][Kept]_vars
  BY <1>1, PTL
<1> QED
  BY <1>2, Invariant, PTL DEF Spec, CountedSessionKept
=============================================================================
