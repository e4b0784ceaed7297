-------------------------- MODULE GracefulShutdown --------------------------
(***************************************************************************)
(* The end of the process (src/index.ts, gracefulShutdown) and the second  *)
(* handler of the same signals in src/ipc-server.ts, on top of the         *)
(* scheduler whose cycle may be placing orders at that moment.             *)
(*                                                                         *)
(* The wait loop of gracefulShutdown has no action of its own: it polls    *)
(* the inFlight flag that stopMarketOpenScheduler has just cleared, so it  *)
(* is left in the step that enters it.                                     *)
(***************************************************************************)
EXTENDS MarketOpenScheduler

CONSTANT OrderIds   \* the orders the cycles may place

VARIABLES
  down,         \* how far gracefulShutdown has come
  sweep,        \* live orders its cancel sweep has listed
  uncancelled,  \* history: orders whose cancellation failed
  late,         \* history: orders placed after the sweep listed them
  ipcClosing,   \* has server.close been called?
  connections,  \* is an IPC connection open?
  live, used    \* live orders of the managed accounts; ids given out

exitVars == <<down, sweep, uncancelled, late, ipcClosing, connections>>
orderVars == <<live, used>>
allVars == <<vars, exitVars, orderVars>>

\* The variables of the scheduler and of the shutdown keep their types.
ShutdownTypeOK ==
  /\ TypeOK
  /\ down \in {"up", "sweeping", "cancelling", "closing", "exited"}
  /\ sweep \subseteq OrderIds /\ uncancelled \subseteq OrderIds
  /\ late \subseteq OrderIds /\ live \subseteq used /\ used \subseteq OrderIds
  /\ ipcClosing \in BOOLEAN /\ connections \in BOOLEAN
  /\ down # "up" <=> ipcClosing

ShutdownInit ==
  /\ Init
  /\ down = "up"
  /\ sweep = {} /\ uncancelled = {} /\ late = {}
  /\ ipcClosing = FALSE /\ connections \in BOOLEAN
  /\ live = {} /\ used = {}

\* The scheduler and its cycles go on until the process is gone.
SchedulerStep ==
  /\ down # "exited"
  /\ Next
  /\ UNCHANGED <<exitVars, orderVars>>

CyclePlacesOrder(o) ==
  /\ down # "exited"
  /\ CycleRuns /\ o \notin used
  /\ live' = live \cup {o} /\ used' = used \cup {o}
  /\ late' = IF down \in {"cancelling", "closing"} THEN late \cup {o} ELSE late
  /\ UNCHANGED <<vars, down, sweep, uncancelled, ipcClosing, connections>>

OrderLeavesBook(o) ==
  /\ o \in live
  /\ live' = live \ {o}
  /\ UNCHANGED <<vars, exitVars, used>>

\* Both handlers run in this step, the IPC server's first.
Signal ==
  /\ down = "up"
  /\ ipcClosing' = TRUE
  /\ Stopped /\ stops' = stops
  /\ down' = "sweeping"
  /\ UNCHANGED <<sweep, uncancelled, late, connections, orderVars>>

\* server.close calls back once no connection is left: the process exits.
IpcServerExits ==
  /\ down # "exited"
  /\ ipcClosing /\ ~connections
  /\ down' = "exited"
  /\ UNCHANGED <<vars, sweep, uncancelled, late, ipcClosing, connections,
                 orderVars>>

\* A closing server accepts no new connection.
ConnectionChanges ==
  /\ down # "exited"
  /\ connections' = ~connections
  /\ ipcClosing => connections
  /\ UNCHANGED <<vars, down, sweep, uncancelled, late, ipcClosing, orderVars>>

\* cancelAllLiveOrders asks for the live orders of every managed account.
ListLiveOrders ==
  /\ down = "sweeping"
  /\ sweep' = live
  /\ down' = "cancelling"
  /\ UNCHANGED <<vars, uncancelled, late, ipcClosing, connections, orderVars>>

\* An error before or in the sweep is caught: the shutdown goes on.
SweepFails ==
  /\ down \in {"sweeping", "cancelling"}
  /\ uncancelled' = live
  /\ down' = "closing"
  /\ UNCHANGED <<vars, sweep, late, ipcClosing, connections, orderVars>>

\* Mutant: orders are listed and none is cancelled.
CancelNothing ==
  /\ down = "cancelling"
  /\ down' = "closing"
  /\ UNCHANGED <<vars, sweep, uncancelled, late, ipcClosing, connections,
                 orderVars>>

CancelListed ==
  /\ down = "cancelling"
  /\ \E kept \in SUBSET sweep :  \* protected, or the cancel is refused
       /\ live' = live \ (sweep \ kept)
       /\ uncancelled' = kept
  /\ down' = "closing"
  /\ UNCHANGED <<vars, sweep, late, ipcClosing, connections, used>>

\* Mutant: an open IPC connection holds the process.
ExitWhenDisconnected ==
  /\ down = "closing"
  /\ ~connections
  /\ down' = "exited"
  /\ UNCHANGED <<vars, sweep, uncancelled, late, ipcClosing, connections,
                 orderVars>>

\* The quote streamer is closed and, 250 ms later, the process exits.
CloseAndExit ==
  /\ down = "closing"
  /\ down' = "exited"
  /\ UNCHANGED <<vars, sweep, uncancelled, late, ipcClosing, connections,
                 orderVars>>

Shutdown == ListLiveOrders \/ SweepFails \/ CancelListed \/ CloseAndExit

ShutdownNext ==
  \/ SchedulerStep
  \/ \E o \in OrderIds : CyclePlacesOrder(o) \/ OrderLeavesBook(o)
  \/ Signal \/ IpcServerExits \/ ConnectionChanges
  \/ Shutdown

\* The shutdown's awaited calls return; no fairness for connections.
ShutdownSpec ==
  ShutdownInit /\ [][ShutdownNext]_allVars /\ WF_allVars(Shutdown)

-----------------------------------------------------------------------------

\* A signal ends the process even if an IPC connection stays open for ever and
\* the cancel sweep fails (index.ts, the catch before closeQuoteStreamerSession).
SignalEndsProcess == (down = "sweeping") ~> (down = "exited")

\* When gracefulShutdown gets to its end, every order still live is one whose
\* cancellation failed or one a cycle placed behind the sweep's back.
OnlyExcusedOrdersRemain == down = "closing" => live \subseteq uncancelled \cup late

\* A cycle in flight when the signal arrives is waited for (index.ts, "Wait for
\* any in-flight cycle to finish, up to 30s"): the sweep does not begin in the
\* very step that finds it running.
CycleAllowedToFinish ==
  [][(down = "up" /\ down' = "sweeping") => ~CycleRuns]_allVars

\* The process does not exit before the cancel sweep is over (README, "all live
\* orders on managed accounts are cancelled before exit").
SweptBeforeExit ==
  [][down' = "exited" => down \in {"closing", "exited"}]_allVars
=============================================================================
