----------------------------- MODULE MCRunCycle -----------------------------
(***************************************************************************)
(* Instances for TLC of the run cycle and of the registry it keeps, each   *)
(* in worlds of its own.                                                   *)
(*                                                                         *)
(* RunCycle: a cycle alone, with the constants of the .cfg (a cash         *)
(* account's through the day, or a margin account's), two cash cycles at   *)
(* once, and a cycle whose broker holds orders back and fails cancels.     *)
(*                                                                         *)
(* PositionRegistry: a quiet world, where cycles with a sweep that works   *)
(* are all that touches the registry, on several symbols; and a disturbed  *)
(* one, where orders survive the sweep, the process crashes, and the       *)
(* secret auto-seed and a person are at work.                              *)
(***************************************************************************)
EXTENDS RunCycle

CONSTANTS
  Worlds,       \* the worlds of this run
  s1,           \* a symbol the registry tracks
  Tracked,      \* the symbols it tracks in the quiet world
  TicksPerDay, MaxNow, KeepDays, MaxCrashes,   \* of the quiet world
  NoRow, NoEntry, Torn

VARIABLES
  world,
  now, rows, buying, selling, file, write, registryCycle, seeder, crashes

registryVars ==
  <<now, rows, buying, selling, file, write, registryCycle, seeder, crashes>>

OneSymbol == {"A"}
JustCalls == {"call"}
Two(sides) == [g \in OneSymbol \X sides |-> 2]
TwoCalls == Two(JustCalls)
Shares == {"call", "none"}
\* Two groups held overnight, one of them shares that are not to be touched.
SomeShares == [g \in OneSymbol \X Shares |-> IF g[2] = "call" THEN 1 ELSE 2]
SharesOnly == OneSymbol \X {"none"}

\* The scheduler's cycle and one asked for over IPC.
Overlap == INSTANCE RunCycle WITH
  Cycles <- {"scheduler", "ipc"}, LastPhase <- 2, MaxOrders <- 2, MaxHeld <- 1,
  HeldAtOpen <- [g \in Groups |-> 1], Resting <- {}, FillsInCycle <- FALSE

\* The broker holds orders and fails cancels.
Rough == INSTANCE RunCycle WITH Flaky <- TRUE, Resting <- {}, LastPhase <- 2, MaxOrders <- 2,
  Throws <- FALSE

Quiet == INSTANCE PositionRegistry WITH
  Symbols <- Tracked, cycle <- registryCycle,
  SweepFails <- FALSE, Outside <- FALSE, Manual <- FALSE

Disturbed == INSTANCE PositionRegistry WITH
  Symbols <- {s1}, TicksPerDay <- 2, MaxNow <- 4, MaxCrashes <- 1,
  cycle <- registryCycle, SweepFails <- TRUE, Outside <- TRUE, Manual <- TRUE

ASSUME RegistryAssumptions ==
  /\ Quiet!RegistryAssumption /\ Quiet!NullAssumption
  /\ Disturbed!RegistryAssumption /\ Disturbed!NullAssumption

RegistryWorlds == {"quiet", "disturbed"}

MCInit ==
  /\ world \in Worlds
  /\ \/ world = "alone" /\ Init
     \/ world = "overlap" /\ Overlap!Init
     \/ world = "rough" /\ Rough!Init
     \/ world \in RegistryWorlds /\ Init /\ orders = <<>> /\ phase = 1
  /\ IF world = "disturbed" THEN Disturbed!Init ELSE Quiet!Init

MCNext ==
  /\ \/ world = "alone" /\ Next
     \/ world = "overlap" /\ Overlap!Next
     \/ world = "rough" /\ Rough!Next
     \/ world = "quiet" /\ Quiet!Next
     \/ world = "disturbed" /\ Disturbed!Next
  /\ IF world \in RegistryWorlds THEN UNCHANGED vars ELSE UNCHANGED registryVars
  /\ UNCHANGED world

MCFairness ==
  /\ \A w \in {"cycle", "seeder"} :
       /\ WF_registryVars(world = "disturbed" /\ Disturbed!Truncate(w))
       /\ WF_registryVars(world = "disturbed" /\ Disturbed!Fill(w))
  /\ WF_registryVars(world = "disturbed" /\ Disturbed!CycleBegins)
  /\ WF_registryVars(world = "disturbed" /\ Disturbed!CycleSteps)
  /\ WF_registryVars(world = "disturbed" /\ Disturbed!SeederRecords)
  /\ SF_registryVars(world = "disturbed" /\ Disturbed!Tick)

MCSpec == MCInit /\ [][MCNext]_<<vars, registryVars, world>> /\ MCFairness

\* OneReduction, without a second cycle beside.
OneReductionIfAlone == world = "alone" => OneReduction

\* OvernightIsTrue, where nothing but cycles touches positions and registry.
OvernightIsTrueIfQuiet == world = "quiet" => Quiet!OvernightIsTrue

\* StaleIsClosed, whatever else trades and however often the process crashes.
StaleIsClosedIfDisturbed == world = "disturbed" => Disturbed!StaleIsClosed
=============================================================================
