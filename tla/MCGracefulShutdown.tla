------------------------- MODULE MCGracefulShutdown -------------------------
(***************************************************************************)
(* Instances for TLC of what lives as long as the process does, each in    *)
(* worlds of its own.                                                      *)
(*                                                                         *)
(* The scheduler and the shutdown on top of it: two worlds without a       *)
(* signal, in which the scheduler is not (with the constants of the .cfg)  *)
(* or is stopped under a running tick, and one that a signal ends.         *)
(*                                                                         *)
(* Two of the IPC server's connections, whose client waits for its         *)
(* answers, or writes on while each line comes by itself.                  *)
(*                                                                         *)
(* The quote streamer, which the shutdown closes: a process that only      *)
(* recovers, over many restarts; and one that is asked for quotes, may be  *)
(* told to shut down and cannot rely on its file of restarts.              *)
(***************************************************************************)
EXTENDS GracefulShutdown

CONSTANTS
  Requests, Pieces,   \* of IpcServer
  Clients, Rounds, NoClient, NotSet,   \* of QuoteStreamer, in both worlds
  MaxAttempts, MaxRounds, Window, FirstExitDelay, MaxExitDelay,   \* in the first
  Callers, Signals, StoreErrors

ASSUME LinesAssumption == Requests \in Nat /\ Pieces \in Nat \ {0}

VARIABLES
  world,
  written, wire, buffer, newlineIndex, waiting, ran,
  up, active, link, opening, connectPromise, round, reconnectRoundInProgress,
  restartScheduled, recentRoundsAt, restarts, exitTimer, flushing, exits

channelVars == <<written, wire, buffer, newlineIndex, waiting, ran>>
streamerVars ==
  <<up, active, link, opening, connectPromise, round, reconnectRoundInProgress,
    restartScheduled, recentRoundsAt, restarts, exitTimer, flushing, exits>>

Ipc == INSTANCE IpcServer WITH Pipelined <- TRUE, Coalesced <- FALSE
OneByOne == INSTANCE IpcServer WITH Pipelined <- FALSE, Coalesced <- TRUE

Interrupted == INSTANCE GracefulShutdown WITH StopInFlight <- TRUE
Signalled == INSTANCE GracefulShutdown WITH
  OpenInterval <- 1, MaxStops <- 0, StopInFlight <- FALSE

Streamer == INSTANCE QuoteStreamer
Busy == INSTANCE QuoteStreamer WITH
  MaxAttempts <- 2, MaxRounds <- 2, Window <- 1, MaxExitDelay <- 1,
  Callers <- TRUE, Signals <- TRUE, StoreErrors <- TRUE

ASSUME StreamerAssumptions == Streamer!StreamerAssumption /\ Busy!StreamerAssumption

LineWorlds == {"lines", "apart"}
StreamerWorlds == {"alone", "busy"}

MCInit ==
  /\ Ipc!Init /\ Streamer!Init
  /\ \/ world = "undisturbed" /\ ShutdownInit /\ ~connections
     \/ world = "interrupted" /\ Interrupted!ShutdownInit /\ ~connections
     \/ world = "signalled" /\ Signalled!ShutdownInit
     \/ world \in LineWorlds \cup StreamerWorlds /\ ShutdownInit /\ open /\ connections

MCNext ==
  /\ \/ world = "undisturbed" /\ SchedulerStep
     \/ world = "interrupted" /\ Interrupted!SchedulerStep
     \/ world = "signalled" /\ Signalled!ShutdownNext
     \/ world = "lines" /\ Ipc!Next
     \/ world = "apart" /\ OneByOne!Next
     \/ world = "alone" /\ Streamer!Next
     \/ world = "busy" /\ Busy!Next
  /\ IF world \in LineWorlds THEN UNCHANGED <<allVars, streamerVars>>
     ELSE IF world \in StreamerWorlds THEN UNCHANGED <<allVars, channelVars>>
          ELSE UNCHANGED <<channelVars, streamerVars>>
  /\ UNCHANGED world

\* The fairness of the scheduler where it is not disturbed, of the shutdown, and
\* of the streamer that is asked for quotes.
MCFairness ==
  LET Calm == world = "undisturbed"
      Asked == world = "busy"
  IN  /\ WF_vars(Calm /\ TimePasses)
      /\ WF_vars(Calm /\ \E t \in Ticks : runSchedulerTick(t))
      /\ \A t \in Ticks :
           /\ SF_vars(Calm /\ SessionAnswers(t))
           /\ WF_vars(Calm /\ (CycleSucceeds(t) \/ TickThrows(t)))
      /\ WF_allVars(world = "signalled" /\ Shutdown)
      /\ WF_streamerVars(Asked /\ (Busy!OpenSucceeds \/ Busy!OpenFails))
      /\ WF_streamerVars(Asked /\ Busy!ZeroEvents)
      /\ \A r \in Rounds :
           /\ WF_streamerVars(Asked /\ Busy!WakeUp(r))
           /\ WF_streamerVars(Asked /\ (Busy!Authorized(r) \/ Busy!NotAuthorized(r)))
      /\ WF_streamerVars(Asked /\ Busy!Tick)
      /\ WF_streamerVars(Asked /\ Busy!BeginExit)
      /\ \A why \in {"restart", "signal"} : WF_streamerVars(Asked /\ Busy!Exit(why))

MCSpec ==
  MCInit /\ [][MCNext]_<<allVars, channelVars, streamerVars, world>> /\ MCFairness

\* CyclesRecur, as long as nobody stops the scheduler during a tick: neither
\* early wake-ups nor errors nor a closed market keep the cycles from coming.
CyclesRecurUndisturbed == world = "undisturbed" => CyclesRecur

\* CyclesSpaced under the same assumption: two cycles begin an interval apart
\* unless the earlier one failed.
CyclesSpacedUndisturbed ==
  [][(world = "undisturbed" /\ ~CycleRuns /\ CycleRuns')
       => spacing \in {Never, OpenInterval}]_vars

\* EachRunsOnce, of lines that come one by one or while others' commands run.
EachRunsOnceIfApart ==
  world \in LineWorlds => Ipc!EachRunsOnce

\* OneSession, whether the streamer only recovers or is asked for quotes besides.
OneSession == Streamer!OneSession

\* ExitLeavesNoSession, where nobody asks for quotes and no signal arrives.
ExitLeavesNoSessionAlone ==
  [][world = "alone" /\ up /\ ~up' => \A c \in Clients : link[c] = "closed"]_streamerVars

\* DeafIsRecovered, under the fairness of the busy world.
DeafIsRecoveredIfBusy ==
  /\ world = "busy" /\ up /\ active # NoClient /\ link[active] # "authorized"
  ~> \/ ~up
     \/ active # NoClient /\ link[active] = "authorized"
=============================================================================
