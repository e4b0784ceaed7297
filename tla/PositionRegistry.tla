-------------------------- MODULE PositionRegistry --------------------------
(***************************************************************************)
(* The position registry (bot/position-registry.ts) and the run cycle      *)
(* around it (bot/run-cycle.ts): one JSON file with an entry for every     *)
(* position, by symbol and UTC day of opening.  Every operation reads the  *)
(* file, edits its copy and writes the copy back; nothing orders the       *)
(* operations of the cycle against those of the secret auto-seed.  The     *)
(* margin account closes what the registry says was held overnight.        *)
(*                                                                         *)
(* The account is left out: a symbol stands for an account's symbol.  So   *)
(* are sides and entry context.  A tick is the grace of half an hour.      *)
(***************************************************************************)
EXTENDS Integers

CONSTANTS
  Symbols,
  TicksPerDay,    \* of the trading day; the night is the step to the next day
  MaxNow,         \* bound: the last tick; nothing is opened in it.  Where it is a
                  \* day's first, nothing is under way when it comes
  KeepDays,       \* pruneOldEntries
  SweepFails,     \* the cancel sweep may leave orders at work
  Outside,        \* the secret auto-seed places orders beside the cycle
  Manual,         \* positions are opened and closed by hand
  MaxCrashes,     \* bound: crashes of the process
  NoRow, NoEntry, Torn

RegistryAssumption ==
  /\ {TicksPerDay, KeepDays} \subseteq Nat \ {0} /\ {MaxNow, MaxCrashes} \subseteq Nat
  /\ {SweepFails, Outside, Manual} \subseteq BOOLEAN

VARIABLES
  now,
  rows,           \* the broker's position rows; a closed one stays until the day ends
  buying, selling,\* symbols with a working seed or close order
  file,           \* position-registry.json
  write,          \* what each activity is about to write
  cycle,          \* the run cycle
  seeder,         \* the secret auto-seed
  crashes

vars == <<now, rows, buying, selling, file, write, cycle, seeder, crashes>>

Ticks == 0..MaxNow
Day(t) == t \div TicksPerDay
Days == {Day(t) : t \in Ticks}
NotClosed == -1

Entry == [opened : Ticks, closed : {NotClosed} \cup Ticks]
Registry == [Symbols -> [Days -> Entry \cup {NoEntry}]]
Row == [created : Ticks, open : BOOLEAN]
NullAssumption == NoRow \notin Row /\ NoEntry \notin Entry /\ Torn \notin Registry
NotWriting == [at |-> "none"]
NoCycle == [at |-> "idle"]

EmptyRegistry == [s \in Symbols |-> [d \in Days |-> NoEntry]]
Held(r) == {s \in Symbols : r[s] # NoRow /\ r[s].open}   \* toHeldUnderlyingSymbols

TypeOK ==
  /\ now \in Ticks /\ crashes \in 0..MaxCrashes
  /\ rows \in [Symbols -> Row \cup {NoRow}]
  /\ buying \subseteq Symbols /\ selling \subseteq Symbols
  /\ file \in Registry \cup {Torn}
  /\ \A w \in {"cycle", "seeder"} :
       /\ write[w].at \in {"none", "ready", "open", "overlapped"}
       /\ write[w] # NotWriting => write[w].data \in Registry
  /\ cycle.at \in {"idle", "prune", "snapshot", "reconcile", "sync", "overnight",
                   "close", "recordClose", "seed", "recordOpen"}
  /\ seeder \in Symbols \cup {"idle"}

Init ==
  /\ now = 0 /\ crashes = 0
  /\ rows = [s \in Symbols |-> NoRow]
  /\ buying = {} /\ selling = {}
  /\ file = EmptyRegistry
  /\ write = [w \in {"cycle", "seeder"} |-> NotWriting]
  /\ cycle = NoCycle /\ seeder = "idle"

-----------------------------------------------------------------------------
(* Reading and editing.  readRegistry takes an unparsable file for an empty *)
(* one.                                                                     *)

readRegistry == IF file = Torn THEN EmptyRegistry ELSE file

OpenDays(data, s) == {d \in Days : data[s][d] # NoEntry /\ data[s][d].closed = NotClosed}

\* openEntryForSymbol: the latest, where the caller knows that there is one.
openEntryDay(data, s) ==
  CHOOSE d \in OpenDays(data, s) :
    \A e \in OpenDays(data, s) : data[s][e].opened <= data[s][d].opened

\* recordPositionOpened
Opened(data, s) ==
  IF OpenDays(data, s) # {} THEN data
  ELSE [data EXCEPT ![s][Day(now)] = [opened |-> now, closed |-> NotClosed]]

\* recordPositionClosed; without an open entry it makes a closed one.
Closed(data, s, created) ==
  IF OpenDays(data, s) # {}
  THEN [data EXCEPT ![s][openEntryDay(data, s)].closed = now]
  ELSE [data EXCEPT ![s][Day(created)] = [opened |-> created, closed |-> now]]

\* RECONCILE_GRACE_MS
InGrace(entry) == now - entry.opened < 1

\* reconcileWithBrokerPositions
Reconciled(data, held) ==
  [s \in Symbols |-> [d \in Days |->
    IF /\ s \notin held
       /\ d \in OpenDays(data, s)
       /\ ~InGrace(data[s][d])
    THEN [data[s][d] EXCEPT !.closed = now] ELSE data[s][d]]]

\* Mutant: opens what it finds as of now.
SyncedNow(data, snapshot) ==
  [s \in Symbols |->
    IF s \in Held(snapshot) /\ OpenDays(data, s) = {}
    THEN [data[s] EXCEPT ![Day(now)] = [opened |-> now, closed |-> NotClosed]]
    ELSE data[s]]

\* Mutant: takes the rows of closed positions for open ones.
SyncedRows(data, snapshot) ==
  [s \in Symbols |->
    IF snapshot[s] # NoRow /\ OpenDays(data, s) = {}
    THEN [data[s] EXCEPT ![Day(snapshot[s].created)] =
           [opened |-> snapshot[s].created, closed |-> NotClosed]]
    ELSE data[s]]

\* toPositionOpenSnapshots, syncPositionOpens
Synced(data, snapshot) ==
  [s \in Symbols |->
    IF s \in Held(snapshot) /\ OpenDays(data, s) = {}
    THEN [data[s] EXCEPT ![Day(snapshot[s].created)] =
           [opened |-> snapshot[s].created, closed |-> NotClosed]]
    ELSE data[s]]

\* pruneOldEntries
Pruned(data) ==
  [s \in Symbols |-> [d \in Days |->
    IF /\ data[s][d] # NoEntry /\ data[s][d].closed # NotClosed
       /\ data[s][d].closed < now - KeepDays * TicksPerDay
    THEN NoEntry ELSE data[s][d]]]

\* isOvernightPosition
isOvernight(data, s) ==
  OpenDays(data, s) # {} /\ Day(data[s][openEntryDay(data, s)].opened) # Day(now)

\* An operation has read the file and edited its copy; unchanged, it writes nothing.
Edit(w, edited) ==
  write' = IF edited = readRegistry THEN write
           ELSE [write EXCEPT ![w] = [at |-> "ready", data |-> edited]]

\* writeRegistry: fs.writeFile truncates the file, then fills it.
Truncate(w) ==
  /\ write[w].at = "ready"
  /\ file' = Torn
  /\ write' = [write EXCEPT ![w].at = "open"]
  /\ UNCHANGED <<now, rows, buying, selling, cycle, seeder, crashes>>

\* Two writes of different lengths that overlap may leave what no one can parse.
Fill(w) ==
  /\ write[w].at \in {"open", "overlapped"}
  /\ file' \in {write[w].data} \cup IF write[w].at = "overlapped" THEN {Torn} ELSE {}
  /\ write' = [v \in DOMAIN write |->
       IF v = w THEN NotWriting
       ELSE IF write[v].at = "open" THEN [write[v] EXCEPT !.at = "overlapped"]
       ELSE write[v]]
  /\ UNCHANGED <<now, rows, buying, selling, cycle, seeder, crashes>>

-----------------------------------------------------------------------------
(* The run cycle, in the order of runBotCycle.                              *)

At(step) == cycle.at = step /\ write["cycle"] = NotWriting

\* cancelAllLiveOrders, then pruneOldEntries
CycleBegins ==
  /\ At("idle")
  /\ cycle' = [at |-> "snapshot"]
  /\ \E left \in SUBSET (buying \cup selling) :
       /\ left = {} \/ SweepFails
       /\ buying' = buying \cap left /\ selling' = selling \cap left
  /\ Edit("cycle", Pruned(readRegistry))
  /\ UNCHANGED <<now, rows, file, seeder, crashes>>

\* buildRunCycleContext
TakeSnapshot ==
  /\ At("snapshot")
  /\ cycle' = [at |-> "reconcile", rows |-> rows]
  /\ UNCHANGED <<now, rows, buying, selling, file, write, seeder, crashes>>

Reconcile ==
  /\ At("reconcile")
  /\ cycle' = [cycle EXCEPT !.at = "sync"]
  /\ Edit("cycle", Reconciled(readRegistry, Held(cycle.rows)))
  /\ UNCHANGED <<now, rows, buying, selling, file, seeder, crashes>>

Sync ==
  /\ At("sync")
  /\ cycle' = [cycle EXCEPT !.at = "overnight"]
  /\ Edit("cycle", Synced(readRegistry, cycle.rows))
  /\ UNCHANGED <<now, rows, buying, selling, file, seeder, crashes>>

\* withOvernightCloseOverrides; what another rule closes anyway is not told apart.
ReadOvernight ==
  /\ At("overnight")
  /\ cycle' = [at |-> "close", rows |-> cycle.rows, overnight |->
       {s \in Held(cycle.rows) : isOvernight(readRegistry, s)}]
  /\ UNCHANGED <<now, rows, buying, selling, file, write, seeder, crashes>>

\* executePositionEvaluations closes a position, or has nothing to close.
PlaceClose ==
  /\ At("close")
  /\ \/ \E s \in Held(cycle.rows) :
          /\ selling' = selling \cup (Held(rows) \cap {s})
          /\ cycle' = [at |-> "recordClose", rows |-> cycle.rows, symbol |-> s]
     \/ /\ selling' = selling
        /\ cycle' = [at |-> "seed", closed |-> {}]
  /\ UNCHANGED <<now, rows, buying, file, write, seeder, crashes>>

RecordClose ==
  /\ At("recordClose")
  /\ Edit("cycle", Closed(readRegistry, cycle.symbol, cycle.rows[cycle.symbol].created))
  /\ cycle' = [at |-> "seed", closed |-> {cycle.symbol}]
  /\ UNCHANGED <<now, rows, buying, selling, file, seeder, crashes>>

\* maybeSeed... places an order for a symbol that is not held, or none.
PlaceSeed ==
  /\ At("seed")
  /\ \/ \E s \in Symbols \ (cycle.closed \cup Held(rows)) :
          /\ now < MaxNow
          /\ buying' = buying \cup {s}
          /\ cycle' = [at |-> "recordOpen", symbol |-> s]
     \/ buying' = buying /\ cycle' = NoCycle
  /\ UNCHANGED <<now, rows, selling, file, write, seeder, crashes>>

RecordOpen ==
  /\ At("recordOpen")
  /\ Edit("cycle", Opened(readRegistry, cycle.symbol))
  /\ cycle' = NoCycle
  /\ UNCHANGED <<now, rows, buying, selling, file, seeder, crashes>>

CycleSteps ==
  \/ TakeSnapshot \/ Reconcile \/ Sync \/ ReadOvernight
  \/ PlaceClose \/ RecordClose \/ PlaceSeed \/ RecordOpen

-----------------------------------------------------------------------------
(* The secret auto-seed, the broker, the clock and the process.             *)

SeederPlaces ==
  /\ Outside /\ seeder = "idle" /\ write["seeder"] = NotWriting /\ now < MaxNow
  /\ \E s \in Symbols \ Held(rows) :
       buying' = buying \cup {s} /\ seeder' = s
  /\ UNCHANGED <<now, rows, selling, file, write, cycle, crashes>>

SeederRecords ==
  /\ seeder # "idle"
  /\ Edit("seeder", Opened(readRegistry, seeder))
  /\ seeder' = "idle"
  /\ UNCHANGED <<now, rows, buying, selling, file, cycle, crashes>>

\* A seed order fills, or a position is opened by hand.
PositionOpens ==
  /\ \E s \in Symbols \ Held(rows) :
       /\ s \in buying \/ Manual
       /\ now < MaxNow
       /\ rows' = [rows EXCEPT ![s] = [created |-> now, open |-> TRUE]]
       /\ buying' = buying \ {s}
  /\ UNCHANGED <<now, selling, file, write, cycle, seeder, crashes>>

PositionCloses ==
  /\ \E s \in Held(rows) :
       /\ s \in selling \/ Manual
       /\ rows' = [rows EXCEPT ![s].open = FALSE]
       /\ selling' = selling \ {s}
  /\ UNCHANGED <<now, buying, file, write, cycle, seeder, crashes>>

\* Cancelled, by the sweep of the next cycle or by hand, or expired.
OrderEnds ==
  /\ \E s \in buying \cup selling :
       buying' = buying \ {s} /\ selling' = selling \ {s}
  /\ UNCHANGED <<now, rows, file, write, cycle, seeder, crashes>>

\* Nothing runs over night; Day orders and rows of closed positions end.
Tick ==
  /\ now < MaxNow
  /\ now' = now + 1
  /\ IF Day(now + 1) = Day(now)
     THEN UNCHANGED <<rows, buying, selling>>
     ELSE /\ cycle = NoCycle /\ seeder = "idle"
          /\ write = [w \in {"cycle", "seeder"} |-> NotWriting]
          /\ rows' = [s \in Symbols |-> IF s \in Held(rows) THEN rows[s] ELSE NoRow]
          /\ buying' = {} /\ selling' = {}
  /\ UNCHANGED <<file, write, cycle, seeder, crashes>>

Crash ==
  /\ crashes < MaxCrashes /\ crashes' = crashes + 1
  /\ write' = [w \in {"cycle", "seeder"} |-> NotWriting]
  /\ cycle' = NoCycle /\ seeder' = "idle"
  /\ UNCHANGED <<now, rows, buying, selling, file>>

Next ==
  \/ \E w \in {"cycle", "seeder"} : Truncate(w) \/ Fill(w)
  \/ CycleBegins \/ CycleSteps
  \/ SeederPlaces \/ SeederRecords
  \/ PositionOpens \/ PositionCloses \/ OrderEnds \/ Tick \/ Crash

Spec == Init /\ [][Next]_vars

\* Cycles go on, awaited calls return, and time passes: the market closes, so
\* that the night comes although it waits for a moment in which nothing runs.
Fairness ==
  /\ \A w \in {"cycle", "seeder"} : WF_vars(Truncate(w)) /\ WF_vars(Fill(w))
  /\ WF_vars(CycleBegins) /\ WF_vars(CycleSteps) /\ WF_vars(SeederRecords)
  /\ SF_vars(Tick)

-----------------------------------------------------------------------------
(* Properties. *)

\* The overnight override closes exactly the positions that the broker opened
\* on an earlier day: a margin position is not carried a second night, and a
\* position of today is not sold for what an old entry says of the symbol.
OvernightIsTrue ==
  cycle.at = "close" =>
    cycle.overnight = {s \in Held(cycle.rows) : Day(cycle.rows[s].created) < Day(now)}

\* The half of it that the comment on reconciliation promises: no re-entry of
\* the symbol is sold for a stale entry (run-cycle.ts, withOvernightCloseOverrides).
FreshIsNotOvernight ==
  cycle.at = "close" =>
    \A s \in cycle.overnight : Day(cycle.rows[s].created) < Day(now)

\* A symbol that is neither held nor ordered any more has no open entry in the
\* end, whatever was lost, torn or recorded late: phantom entries do not stay.
StaleIsClosed ==
  \A s \in Symbols :
    <>[](s \notin Held(rows) \cup buying)
    => <>[](file # Torn => OpenDays(file, s) = {})

\* A position that is held on is tracked as open again and again, whatever was
\* lost and however often a close of it was recorded that did not fill.
HeldIsTracked ==
  \A s \in Symbols :
    <>[](s \in Held(rows)) => []<>(file # Torn /\ OpenDays(file, s) # {})
=============================================================================
