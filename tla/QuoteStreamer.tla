--------------------------- MODULE QuoteStreamer ---------------------------
(***************************************************************************)
(* The quote-streamer session (core/quote-streamer-session.ts) and its     *)
(* recovery (core/quote-streamer-recovery.ts).  The process may hold one   *)
(* dxLink session; every request for quotes opens it if there is none, one *)
(* open at a time.  A fatal condition starts a round of reconnects, or     *)
(* when rounds are used up or have failed, an exit for a restart by the    *)
(* process manager, after a delay that the file of recent restarts makes   *)
(* longer.                                                                 *)
(*                                                                         *)
(* Time is kept as ages and countdowns.  Timers may fire late.             *)
(***************************************************************************)
EXTENDS Integers, Sequences, SequencesExt

CONSTANTS
  Clients,        \* dxLink clients, reused once closed
  Rounds,         \* reconnect rounds under way; one would do, if the code is right
  MaxAttempts,    \* CORE_QUOTE_STREAMER_MAX_RECONNECT_ATTEMPTS
  MaxRounds,      \* MAX_RECONNECT_ROUNDS_PER_WINDOW
  Window,         \* RESTART_WINDOW_MS, in ticks
  FirstExitDelay, \* FIRST_RETRY_EXIT_DELAY_MS, in ticks
  MaxExitDelay,   \* MAX_EXIT_DELAY_MS, in ticks
  Callers,        \* the rest of the process asks for quotes
  Signals,        \* the process may be told to shut down
  StoreErrors,    \* the file of restarts may not be readable or writable
  NoClient, NotSet

\* What an instance assumes of them.
StreamerAssumption ==
  /\ {MaxAttempts, MaxRounds, Window, FirstExitDelay, MaxExitDelay} \subseteq Nat
  /\ {Callers, Signals, StoreErrors} \subseteq BOOLEAN
  /\ NoClient \notin Clients /\ NotSet \notin Nat

VARIABLES
  up,                 \* the process runs
  active,             \* activeClient; activeFeed is set and cleared with it
  link,               \* what became of each client's session with the server
  opening,            \* calls of openQuoteStreamerSession that await the token
  connectPromise,     \* such a call is there to be joined
  round,              \* the reconnect rounds
  reconnectRoundInProgress, restartScheduled,
  recentRoundsAt,     \* recentReconnectRoundsAt, as ages
  restarts,           \* quote-streamer-restarts.json, as ages
  exitTimer,          \* ticks until the scheduled exit begins
  flushing,           \* who closed the session for good and is about to exit
  exits               \* history: ages of the restarts within the window; kept
                      \* only where the file works, else there is no bound to them

session == <<active, link, opening, connectPromise>>
recovery == <<round, reconnectRoundInProgress, restartScheduled, recentRoundsAt,
              restarts, exitTimer>>
vars == <<up, session, recovery, flushing, exits>>

MaxAge == Window + 1      \* what is older than the window is equally old
Aged(ages) == [i \in DOMAIN ages |-> IF ages[i] < MaxAge THEN ages[i] + 1 ELSE MaxAge]
WithinWindow(ages) == SelectSeq(ages, LAMBDA a : a <= Window)

IdleRound == [at |-> "idle", attempt |-> 0, client |-> NoClient]

RoundStates == [at : {"idle", "sleeping", "opening", "authorizing"},
                attempt : 0..MaxAttempts, client : Clients \cup {NoClient}]

MemoryTypeOK ==
  /\ up \in BOOLEAN /\ connectPromise \in BOOLEAN
  /\ reconnectRoundInProgress \in BOOLEAN /\ restartScheduled \in BOOLEAN
  /\ active \in Clients \cup {NoClient}
  /\ link \in [Clients -> {"closed", "connecting", "authorized", "refused"}]
  /\ opening \in Nat
  /\ round \in [Rounds -> RoundStates]
  /\ flushing \subseteq {"restart", "signal"}

TypeOK ==
  /\ MemoryTypeOK
  /\ {recentRoundsAt, restarts, exits} \subseteq Seq(0..MaxAge)
  /\ exitTimer \in {NotSet} \cup 0..MaxExitDelay

Init ==
  /\ up = TRUE
  /\ active = NoClient /\ link = [c \in Clients |-> "closed"]
  /\ opening = 0 /\ connectPromise = FALSE
  /\ round = [r \in Rounds |-> IdleRound]
  /\ reconnectRoundInProgress = FALSE /\ restartScheduled = FALSE
  /\ recentRoundsAt = <<>> /\ exitTimer = NotSet /\ flushing = {}
  /\ restarts = <<>> /\ exits = <<>>

-----------------------------------------------------------------------------
(* The session. *)

\* closeQuoteStreamerSession; an open that awaits its token is not stopped.
closeQuoteStreamerSession ==
  /\ link' = [c \in Clients |-> IF c = active THEN "closed" ELSE link[c]]
  /\ active' = NoClient

\* Mutant: an open already in flight is not joined.
OpenAnyway == connectPromise' = TRUE /\ opening' = opening + 1

\* ensureQuoteStreamerSessionConnected, when no session is active.
joinOrOpen ==
  /\ connectPromise' = TRUE
  /\ opening' = IF connectPromise THEN opening ELSE opening + 1

\* A request for quotes (market-data.ts, option-service.ts).
RequestQuotes ==
  /\ up /\ Callers /\ active = NoClient
  /\ joinOrOpen
  /\ UNCHANGED <<up, active, link, recovery, flushing, exits>>

\* openQuoteStreamerSession returns; a round that awaits it resumes at once.
OpenSucceeds ==
  /\ up /\ opening > 0
  /\ \E c \in Clients :
       /\ link[c] = "closed"
       /\ link' = [link EXCEPT ![c] = "connecting"]
       /\ active' = c
       /\ round' = [r \in Rounds |->
            IF round[r].at = "opening"
            THEN [at |-> "authorizing", attempt |-> round[r].attempt, client |-> c]
            ELSE round[r]]
  /\ opening' = opening - 1 /\ connectPromise' = FALSE
  /\ UNCHANGED <<up, reconnectRoundInProgress, restartScheduled, recentRoundsAt,
                 restarts, exitTimer, flushing, exits>>

\* The server, and the dxLink client's own bounded transport reconnects.
ServerAnswers ==
  /\ up
  /\ \E c \in Clients, a \in {"connecting", "authorized", "refused"} :
       /\ link[c] \in {"connecting", "authorized"} /\ link[c] # a
       /\ link' = [link EXCEPT ![c] = a]
  /\ UNCHANGED <<up, active, opening, connectPromise, recovery, flushing, exits>>

-----------------------------------------------------------------------------
(* Recovery. *)

getExitDelay(count) ==
  IF count = 0 THEN 0
  ELSE LET doubled == FirstExitDelay * 2 ^ (count - 1)
       IN IF doubled < MaxExitDelay THEN doubled ELSE MaxExitDelay

\* readRecentRestartTimestamps: an unreadable file counts as an empty one.
RecentRestarts == {WithinWindow(restarts)} \cup IF StoreErrors THEN {<<>>} ELSE {}

\* Mutant: an exception of the bookkeeping escapes before the timer is set.
ScheduleThrows ==
  IF restartScheduled THEN UNCHANGED <<restartScheduled, exitTimer, restarts>>
  ELSE \E recent \in RecentRestarts :
         /\ restartScheduled' = TRUE
         /\ \/ restarts' = Append(recent, 0) /\ exitTimer' = getExitDelay(Len(recent))
            \/ StoreErrors /\ UNCHANGED <<restarts, exitTimer>>

\* scheduleQuoteStreamerExitRestart
scheduleExit ==
  IF restartScheduled THEN UNCHANGED <<restartScheduled, exitTimer, restarts>>
  ELSE \E recent \in RecentRestarts :
         /\ restartScheduled' = TRUE
         /\ exitTimer' = getExitDelay(Len(recent))
         /\ \/ restarts' = Append(recent, 0)
            \/ StoreErrors /\ UNCHANGED restarts   \* recordRestartTimestamp failed

\* triggerQuoteStreamerRestart.  The flags are set before anything is logged:
\* the console guard calls the function again from within its own log line.
triggerQuoteStreamerRestart ==
  /\ ~restartScheduled /\ ~reconnectRoundInProgress
  /\ LET recent == WithinWindow(recentRoundsAt)
     IN IF MaxAttempts > 0 /\ Len(recent) < MaxRounds
        THEN /\ reconnectRoundInProgress' = TRUE
             /\ recentRoundsAt' = Append(recent, 0)
             /\ \E r \in Rounds :
                  /\ round[r].at = "idle"
                  /\ round' = [round EXCEPT ![r] =
                       [at |-> "sleeping", attempt |-> 1, client |-> NoClient]]
             /\ UNCHANGED <<restartScheduled, exitTimer, restarts>>
        ELSE /\ recentRoundsAt' = recent
             /\ scheduleExit
             /\ UNCHANGED <<round, reconnectRoundInProgress>>

\* A request meets a session that delivers nothing.
ZeroEvents ==
  /\ up /\ Callers /\ active # NoClient /\ link[active] # "authorized"
  /\ triggerQuoteStreamerRestart
  /\ UNCHANGED <<up, session, flushing, exits>>

\* Another fatal message: an illiquid symbol, a request whose session was
\* replaced under it, a log line of a client long closed.
FatalMessage ==
  /\ up
  /\ triggerQuoteStreamerRestart
  /\ UNCHANGED <<up, session, flushing, exits>>

\* A round wakes from its delay and calls reconnectQuoteStreamerSession.
WakeUp(r) ==
  /\ up /\ round[r].at = "sleeping"
  /\ closeQuoteStreamerSession
  /\ joinOrOpen
  /\ round' = [round EXCEPT ![r].at = "opening"]
  /\ UNCHANGED <<up, reconnectRoundInProgress, restartScheduled, recentRoundsAt,
                 restarts, exitTimer, flushing, exits>>

\* The attempts of the rounds in failed come to nothing: each sleeps before its
\* next one, or has had its last, and the exit is scheduled.
AttemptsFail(failed) ==
  LET over == {r \in failed : round[r].attempt = MaxAttempts}
  IN /\ round' = [r \in Rounds |->
          IF r \in over THEN IdleRound
          ELSE IF r \in failed
               THEN [at |-> "sleeping", attempt |-> round[r].attempt + 1, client |-> NoClient]
               ELSE round[r]]
     /\ IF over = {}
        THEN UNCHANGED <<reconnectRoundInProgress, restartScheduled, exitTimer, restarts>>
        ELSE reconnectRoundInProgress' = FALSE /\ scheduleExit

\* openQuoteStreamerSession throws, having disconnected what it had opened.
OpenFails ==
  /\ up /\ opening > 0
  /\ LET joined == {r \in Rounds : round[r].at = "opening"}
     IN /\ IF joined = {} THEN UNCHANGED <<active, link>> ELSE closeQuoteStreamerSession
        /\ AttemptsFail(joined)
  /\ opening' = opening - 1 /\ connectPromise' = FALSE
  /\ UNCHANGED <<up, recentRoundsAt, flushing, exits>>

\* waitForClientAuthorized looks at the client and finds it authorized.
Authorized(r) ==
  /\ up /\ round[r].at = "authorizing" /\ link[round[r].client] = "authorized"
  /\ round' = [round EXCEPT ![r] = IdleRound]
  /\ reconnectRoundInProgress' = FALSE
  /\ UNCHANGED <<up, session, restartScheduled, recentRoundsAt, restarts, exitTimer,
                 flushing, exits>>

\* It has looked until its deadline.
NotAuthorized(r) ==
  /\ up /\ round[r].at = "authorizing" /\ link[round[r].client] # "authorized"
  /\ closeQuoteStreamerSession
  /\ AttemptsFail({r})
  /\ UNCHANGED <<up, opening, connectPromise, recentRoundsAt, flushing, exits>>

\* Mutant: exits as it is.
ExitWithoutClose ==
  /\ up /\ exitTimer = 0
  /\ exitTimer' = NotSet /\ flushing' = flushing \cup {"restart"}
  /\ UNCHANGED <<up, session, round, reconnectRoundInProgress,
                 restartScheduled, recentRoundsAt, restarts, exits>>

\* The timer of scheduleQuoteStreamerExitRestart: close, then pause briefly.
BeginExit ==
  /\ up /\ exitTimer = 0
  /\ closeQuoteStreamerSession
  /\ exitTimer' = NotSet /\ flushing' = flushing \cup {"restart"}
  /\ UNCHANGED <<up, opening, connectPromise, round, reconnectRoundInProgress,
                 restartScheduled, recentRoundsAt, restarts, exits>>

\* The end of gracefulShutdown (index.ts).
BeginShutdown ==
  /\ up /\ Signals /\ "signal" \notin flushing
  /\ closeQuoteStreamerSession
  /\ flushing' = flushing \cup {"signal"}
  /\ UNCHANGED <<up, opening, connectPromise, recovery, exits>>

\* process.exit, after the pause.
Exit(why) ==
  /\ up /\ why \in flushing
  /\ up' = FALSE /\ flushing' = {why}
  /\ exits' = IF why = "restart" /\ ~StoreErrors THEN Append(exits, 0) ELSE exits
  /\ UNCHANGED <<session, recovery>>

\* The process manager starts the process anew, unless it was the one who ended
\* it; memory went with the old process.
Restart ==
  /\ ~up /\ flushing = {"restart"} /\ up' = TRUE
  /\ active' = NoClient /\ link' = [c \in Clients |-> "closed"]
  /\ opening' = 0 /\ connectPromise' = FALSE
  /\ round' = [r \in Rounds |-> IdleRound]
  /\ reconnectRoundInProgress' = FALSE /\ restartScheduled' = FALSE
  /\ recentRoundsAt' = <<>> /\ exitTimer' = NotSet /\ flushing' = {}
  /\ UNCHANGED <<restarts, exits>>

Tick ==
  /\ recentRoundsAt' = Aged(recentRoundsAt) /\ restarts' = Aged(restarts)
  /\ exits' = WithinWindow(Aged(exits))
  /\ exitTimer' = IF exitTimer \in {NotSet, 0} THEN exitTimer ELSE exitTimer - 1
  /\ UNCHANGED <<up, session, round, reconnectRoundInProgress, restartScheduled, flushing>>

Next ==
  \/ RequestQuotes \/ OpenSucceeds \/ OpenFails \/ ServerAnswers
  \/ ZeroEvents \/ FatalMessage
  \/ \E r \in Rounds : WakeUp(r) \/ Authorized(r) \/ NotAuthorized(r)
  \/ BeginExit \/ BeginShutdown
  \/ \E why \in {"restart", "signal"} : Exit(why)
  \/ Restart \/ Tick

Spec == Init /\ [][Next]_vars

\* Timers fire and awaited calls return; as long as a session is deaf somebody
\* asks it for quotes, every cycle does.  The server owes nothing.
Fairness ==
  /\ WF_vars(OpenSucceeds \/ OpenFails) /\ WF_vars(ZeroEvents)
  /\ \A r \in Rounds : WF_vars(WakeUp(r)) /\ WF_vars(Authorized(r) \/ NotAuthorized(r))
  /\ WF_vars(Tick) /\ WF_vars(BeginExit)
  /\ \A why \in {"restart", "signal"} : WF_vars(Exit(why))

-----------------------------------------------------------------------------
(* Properties. *)

\* No session is left behind: at most one open is in flight, and only while
\* there is no session, and a client that is not the active one is closed.  A
\* second one would stay with the server as a zombie until the limit on user
\* sessions is hit, the failure openQuoteStreamerSession was written against.
OneSession ==
  /\ opening = IF connectPromise THEN 1 ELSE 0
  /\ connectPromise => active = NoClient
  /\ \A c \in Clients : link[c] # "closed" => c = active

\* At most one recovery is under way, a round or an exit and never both, and the
\* flag that keeps others out is up exactly as long as the round runs, however
\* it ends.
OneRecovery ==
  /\ \A r \in Rounds : round[r].at # "idle" => reconnectRoundInProgress
  /\ \A r, t \in Rounds : round[r].at # "idle" /\ round[t].at # "idle" => r = t
  /\ reconnectRoundInProgress => \E r \in Rounds : round[r].at # "idle"
  /\ ~(reconnectRoundInProgress /\ restartScheduled)

\* Restarts back off across the restarts themselves: the first of m + 2 restarts
\* within a window is as old as the delays for 0 .. m known restarts add up to.
\* (The first one's own entry may be older than the window.)
RestartsBackOff ==
  \A i, j \in DOMAIN exits :
    i < j => exits[i] - exits[j] >=
             FoldLeft(+, 0, [m \in 1..(j - i) |-> getExitDelay(m - 1)])

\* A round that reports success leaves the process with a session that is
\* active and authorized: nobody closed it while the round waited.
SuccessIsAuthorized ==
  [][\A r \in Rounds :
       /\ up /\ round[r].at # "idle" /\ round'[r].at = "idle"
       /\ up' /\ ~restartScheduled'
       => active # NoClient /\ link[active] = "authorized"]_vars

\* An exit that nobody disturbs, by asking for quotes or by a second way to
\* end, leaves no session with the server.
ExitLeavesNoSession ==
  [][up /\ ~up' => \A c \in Clients : link[c] = "closed"]_vars

\* A session that delivers nothing is authorized again in the end, or the
\* process ends for a restart: no fault switches the recovery itself off.
DeafIsRecovered ==
  /\ up /\ active # NoClient /\ link[active] # "authorized"
  ~> \/ ~up
     \/ active # NoClient /\ link[active] = "authorized"
=============================================================================
