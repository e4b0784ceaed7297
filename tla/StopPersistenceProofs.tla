----------------------- MODULE StopPersistenceProofs -----------------------
(***************************************************************************)
(* That a stop fires only on distinct cycles (StopPersistence), for any    *)
(* number of groups and evaluators, any count of required cycles and any   *)
(* interval, whether reads are torn or not.                                *)
(*                                                                         *)
(* The gate decides on a stored streak, the property is about the cycles   *)
(* that saw the trigger; between them stand a clock and a recording that   *)
(* waits in a chain.  The invariant therefore says of a stored row how old *)
(* it is: a row of this cycle is young enough not to be advanced again, a  *)
(* row of an earlier cycle is old enough to be, and a row whose cycle has  *)
(* been counted but not yet recorded still lacks that cycle.               *)
(***************************************************************************)
EXTENDS MCStopPersistence, TLAPS

\* The evaluations of a group come one after another, all from the run cycle;
\* what they record is written; a re-entry moves the cost basis.
InTurn == ~SameGroupOverlap /\ ~OutsideEvaluations /\ ~StoreErrors /\ ~NearBasis

\* A cycle evaluates its groups in less than half an interval.
ShortCycles == 2 * CycleSpan < Interval

StoredRow == [streak : 1..Required, age : Nat, waf : Bases]
Files == [Groups -> StoredRow \cup {NoRow}]
Running ==
  [at : {"observe", "decide", "queued", "write"}, group : Groups, held : BOOLEAN,
   waf : Bases, lag : Nat, observed : Nat, data : Files \cup {NoFile}]

Types ==
  /\ file \in Files
  /\ trigger \in [Groups -> BOOLEAN] /\ basis \in [Groups -> Bases]
  /\ stopped \in [Groups -> BOOLEAN]
  /\ eval \in [Evaluators -> Running \cup {Idle}]
  /\ chain \in Seq(Evaluators)
  /\ inCycle \in BOOLEAN /\ cycleAge \in Nat /\ calls \in [Groups -> Nat]
  /\ sighted \in [Groups -> 0..Required] /\ counted \in [Groups -> BOOLEAN]

ClockInv == inCycle => cycleAge <= CycleSpan

CountInv == \A g \in Groups : counted[g] => sighted[g] >= 1

\* What an evaluation in flight may rely on: it is alone in its group, its clock
\* was read in this cycle, what it read is still the file, and what it observed
\* exceeds the cycles seen by at most the one it is about to count.
EvalInv ==
  \A e \in InFlight :
    /\ inCycle
    /\ eval[e].waf = basis[eval[e].group]
    /\ eval[e].lag <= cycleAge
    /\ \A f \in InFlight : eval[f].group = eval[e].group => f = e
    /\ eval[e].at \in {"queued", "write"} /\ eval[e].held => counted[eval[e].group]
    /\ eval[e].at = "write" => MyTurn(e) /\ eval[e].data = file
    /\ eval[e].at = "decide" =>
         Least(Required, eval[e].observed)
           <= sighted[eval[e].group] + (IF counted[eval[e].group] THEN 0 ELSE 1)

Recording(g, held) ==
  \E e \in Evaluators :
    eval[e].at \in {"queued", "write"} /\ eval[e].group = g /\ eval[e].held = held

\* A row written in this cycle, in an earlier one, or before the coming one.
Fresh(row) == row.age <= cycleAge
Old(row) == row.age >= Interval - CycleSpan + cycleAge
Aged(row) == row.age >= cycleAge - CycleSpan \/ row.age >= Interval - CycleSpan

RowIsEarned(g) ==
  /\ file[g].streak <= sighted[g]
  /\ ~inCycle => Aged(file[g])
  /\ inCycle /\ ~counted[g] => Old(file[g])
  /\ inCycle /\ counted[g] =>
       \/ Fresh(file[g])
       \/ /\ Recording(g, TRUE) /\ Old(file[g])
          /\ Least(Required, file[g].streak + 1) <= sighted[g]

RowInv ==
  \A g \in Groups :
    file[g] # NoRow /\ file[g].waf = basis[g] /\ ~Recording(g, FALSE) => RowIsEarned(g)

GateInv == Types /\ ClockInv /\ CountInv /\ EvalInv /\ RowInv

-----------------------------------------------------------------------------
(* The store's windows and the evaluations. *)

\* Half an interval, twice, is the interval, and the window is longer than it.
LEMMA Windows ==
  /\ StreakAdvanceMin \in Nat /\ 2 * StreakAdvanceMin = Interval
  /\ StreakWindow \in Nat /\ MaxAge \in Nat /\ Interval <= MaxAge
  /\ Interval \in Nat /\ Required \in Nat /\ Required >= 1 /\ CycleSpan \in Nat
  /\ MaxGap \in Nat /\ MaxLag = MaxGap /\ Interval <= MaxGap
BY StopAssumption, SMTT(30) DEF StreakAdvanceMin, StreakWindow, MaxAge, MaxLag

\* An evaluation that is not idle is a record of one in flight.
LEMMA InFlightIsRunning ==
  ASSUME Types
  PROVE  \A e \in Evaluators :
           eval[e].at # "idle" => e \in InFlight /\ eval[e] \in Running
BY DEF Types, InFlight, Idle

\* What the last recording of an evaluation leaves in the file: the rows of other
\* groups stand or expire; a trigger that does not hold leaves no row; one that
\* holds keeps, advances or begins the row.
LEMMA Recorded ==
  ASSUME Types, NEW v \in Running,
         NEW new, new = applyStopTrigger(file, v)
  PROVE  /\ new \in Files
         /\ \A h \in Groups \ {v.group} : new[h] = file[h] \/ new[h] = NoRow
         /\ ~v.held => new[v.group] = NoRow
         /\ v.held => \/ new[v.group] = NoRow
                      \/ new[v.group] = [streak |-> 1, age |-> v.lag, waf |-> v.waf]
                      \/ /\ file[v.group] # NoRow /\ file[v.group].waf = v.waf
                         /\ ~isSameCycleAsRow(file[v.group], v.lag)
                         /\ new[v.group] =
                              [streak |-> Least(Required, file[v.group].streak + 1),
                               age |-> v.lag, waf |-> v.waf]
                      \/ /\ file[v.group] # NoRow /\ file[v.group].waf = v.waf
                         /\ isSameCycleAsRow(file[v.group], v.lag)
                         /\ new[v.group] = file[v.group]
<1> DEFINE g == v.group
           prior == IF isUsableRow(file[g], v.waf, v.lag) THEN file[g] ELSE NoRow
           row == IF v.held THEN nextRow(prior, v.waf, v.lag) ELSE NoRow
           given == [file EXCEPT ![g] = row]
<1>1. /\ g \in Groups /\ v.waf \in Bases /\ v.lag \in Nat /\ v.held \in BOOLEAN
      /\ file \in Files /\ \A h \in Groups : file[h] \in StoredRow \cup {NoRow}
  BY DEF Types, Running, Files
<1>2. file[g] # NoRow =>
        /\ file[g] \in StoredRow /\ file[g].streak \in 1..Required
        /\ file[g].age \in Nat /\ file[g].waf \in Bases
  BY <1>1 DEF StoredRow
<1>3. row \in StoredRow \cup {NoRow}
  <2>1. CASE prior = NoRow
    BY <2>1, <1>1, Windows DEF nextRow, StoredRow
  <2>2. CASE prior # NoRow
    <3>1. prior = file[g] /\ file[g] # NoRow
      BY <2>2
    <3>2. [file[g] EXCEPT !.waf = v.waf] \in StoredRow
      BY <3>1, <1>1, <1>2 DEF StoredRow
    <3>3. Least(Required, file[g].streak + 1) \in 1..Required
      BY <3>1, <1>2, Windows DEF Least
    <3> QED  BY <2>2, <3>1, <3>2, <3>3, <1>1 DEF nextRow, StoredRow
  <2> QED  BY <2>1, <2>2
<1>4. CASE ~v.held /\ file[g] = NoRow
  BY <1>4, <1>1 DEF applyStopTrigger
<1>5. CASE v.held \/ file[g] # NoRow
  <2>1. new = pruneExpired(given, v.lag)
    BY <1>5 DEF applyStopTrigger
  <2>2. given \in Files /\ given[g] = row /\ \A h \in Groups \ {g} : given[h] = file[h]
    BY <1>1, <1>3 DEF Files
  <2>3. new \in [Groups -> StoredRow \cup {NoRow}]
        /\ \A h \in Groups : new[h] = given[h] \/ new[h] = NoRow
    BY <2>1, <2>2 DEF pruneExpired, Files
  <2>4. new[g] = row \/ new[g] = NoRow
    BY <2>2, <2>3, <1>1
  <2>5. \A h \in Groups \ {g} : new[h] = file[h] \/ new[h] = NoRow
    BY <2>2, <2>3
  <2>6. v.held /\ prior = NoRow => row = [streak |-> 1, age |-> v.lag, waf |-> v.waf]
    BY DEF nextRow
  <2>7. ASSUME v.held, prior # NoRow
        PROVE  /\ file[g] # NoRow /\ file[g].waf = v.waf
               /\ isSameCycleAsRow(file[g], v.lag) => row = file[g]
               /\ ~isSameCycleAsRow(file[g], v.lag) =>
                    row = [streak |-> Least(Required, file[g].streak + 1),
                           age |-> v.lag, waf |-> v.waf]
    <3>1. prior = file[g] /\ isUsableRow(file[g], v.waf, v.lag)
      BY <2>7
    <3>2. file[g] # NoRow /\ file[g].waf = v.waf
      BY <3>1 DEF isUsableRow
    <3>3. [file[g] EXCEPT !.waf = v.waf] = file[g]
      BY <3>2, <1>2 DEF StoredRow
    <3> QED  BY <2>7, <3>1, <3>2, <3>3 DEF nextRow
  <2> HIDE DEF prior, given
  <2>8. ~v.held => row = NoRow
    OBVIOUS
  <2> HIDE DEF row
  <2> QED  BY <2>3, <2>4, <2>5, <2>6, <2>7, <2>8 DEF Files
<1> QED  BY <1>4, <1>5

-----------------------------------------------------------------------------
(* The types, and the evaluations. *)

\* The state stays well formed.
LEMMA TypesKept ==
  ASSUME GateInv, [Next]_vars
  PROVE  Types'
<1> USE DEF GateInv
<1>0. /\ \A e \in Evaluators : eval[e].at # "idle" => e \in InFlight /\ eval[e] \in Running
      /\ Idle \in Running \cup {Idle}
  BY InFlightIsRunning
<1>1. ASSUME NEW e \in Evaluators, NEW g \in Groups, BeginEvaluation(e, g)
      PROVE  Types'
  <2>1. [at |-> "observe", group |-> g, held |-> trigger[g], waf |-> basis[g],
         lag |-> 0, observed |-> 1, data |-> NoFile] \in Running
    BY DEF Types, Running
  <2> QED  BY <1>1, <2>1 DEF BeginEvaluation, Types
<1>2. ASSUME NEW e \in Evaluators, Observe(e)
      PROVE  Types'
  <2>1. eval[e] \in Running
    BY <1>0, <1>2 DEF Observe
  <2>2. PICK n \in {ObservedCycles(file[eval[e].group], eval[e].waf, eval[e].lag)} \cup {1} :
          eval' = [eval EXCEPT ![e].at = "decide", ![e].observed = n]
    BY <1>2 DEF Observe
  <2>3. n \in Nat
    <3>1. file[eval[e].group] # NoRow => file[eval[e].group].streak \in Nat
      BY <2>1, Windows DEF Types, Files, StoredRow, Running
    <3> QED  BY <2>2, <3>1 DEF ObservedCycles, isUsableRow
  <2>4. eval'[e] \in Running /\ eval' \in [Evaluators -> Running \cup {Idle}]
    BY <2>1, <2>2, <2>3 DEF Running, Types
  <2> QED  BY <1>2, <2>4 DEF Observe, Types
<1>3. ASSUME NEW e \in Evaluators, Decide(e)
      PROVE  Types'
  <2>1. eval[e] \in Running
    BY <1>0, <1>3 DEF Decide
  <2>2. eval' \in [Evaluators -> Running \cup {Idle}]
    BY <1>3, <2>1 DEF Decide, Running, Types
  <2>3. chain' \in Seq(Evaluators)
    BY <1>3 DEF Decide, Types
  <2>4. stopped' \in [Groups -> BOOLEAN]
    BY <1>3 DEF Decide, Types
  <2>5. eval[e].group \in Groups /\ eval[e].held \in BOOLEAN
    BY <2>1 DEF Running
  <2>6. sighted' \in [Groups -> 0..Required] /\ counted' \in [Groups -> BOOLEAN]
    <3>1. CASE eval[e].held
      <4>1. sighted' = [sighted EXCEPT ![eval[e].group] =
              IF inCycle /\ ~counted[eval[e].group] THEN Least(Required, @ + 1) ELSE @]
        BY <1>3, <3>1 DEF Decide
      <4>2. counted' = [counted EXCEPT ![eval[e].group] = @ \/ inCycle]
        BY <1>3, <3>1 DEF Decide
      <4>3. \A n \in 0..Required : Least(Required, n + 1) \in 0..Required
        BY Windows DEF Least
      <4> QED  BY <2>5, <4>1, <4>2, <4>3 DEF Types
    <3>2. CASE ~eval[e].held
      <4>1. sighted' = [sighted EXCEPT ![eval[e].group] = 0]
            /\ counted' = [counted EXCEPT ![eval[e].group] = FALSE]
        BY <1>3, <3>2 DEF Decide
      <4> QED  BY <2>5, <4>1, Windows DEF Types
    <3> QED  BY <3>1, <3>2
  <2> QED  BY <1>3, <2>2, <2>3, <2>4, <2>6 DEF Decide, Types
<1>4. ASSUME NEW e \in Evaluators, RecordReads(e)
      PROVE  Types'
  <2>1. eval[e] \in Running
    BY <1>0, <1>4 DEF RecordReads
  <2>2. eval' \in [Evaluators -> Running \cup {Idle}]
    BY <1>4, <2>1 DEF RecordReads, Running, Types
  <2> QED  BY <1>4, <2>2 DEF RecordReads, Types
<1>5. ASSUME NEW e \in Evaluators, RecordWrites(e)
      PROVE  Types'
  <2>1. eval[e] \in Running /\ eval[e].data = file /\ MyTurn(e)
    BY <1>0, <1>5 DEF RecordWrites, EvalInv
  <2>2. file' \in Files
    BY <1>5, <2>1, Recorded DEF RecordWrites, Types
  <2>3. chain' \in Seq(Evaluators)
    BY <1>5, <2>1 DEF RecordWrites, MyTurn, Types
  <2> QED  BY <1>5, <2>2, <2>3 DEF RecordWrites, Types
<1>6. CASE CycleBegins \/ CycleEnds
  <2>1. CASE CycleBegins
    BY <2>1 DEF CycleBegins, Types
  <2>2. CASE CycleEnds
    BY <2>2 DEF CycleEnds, Types
  <2> QED  BY <1>6, <2>1, <2>2
<1>7. ASSUME NEW g \in Groups, MarketMoves(g) \/ Reenter(g)
      PROVE  Types'
  <2>1. CASE MarketMoves(g)
    BY <2>1 DEF MarketMoves, Types
  <2>2. CASE Reenter(g)
    BY <2>2, Windows DEF Reenter, Types
  <2> QED  BY <1>7, <2>1, <2>2
<1>8. CASE TimePasses
  <2>1. ASSUME NEW g \in Groups
        PROVE  Older(file[g]) \in StoredRow \cup {NoRow}
    <3>1. file[g] # NoRow => file[g] \in StoredRow
      BY DEF Types, Files
    <3> QED  BY <3>1, Windows DEF Older, StoredRow, Least
  <2>2. file' \in Files
    BY <1>8, <2>1 DEF TimePasses, Files
  <2>3. ASSUME NEW e \in Evaluators, eval[e].at # "idle"
        PROVE  [eval[e] EXCEPT !.lag = Least(MaxLag, @ + 1)] \in Running
    <3>1. eval[e] \in Running
      BY <1>0, <2>3
    <3> QED  BY <3>1, Windows DEF Running, Least
  <2>4. eval' \in [Evaluators -> Running \cup {Idle}]
    BY <1>8, <2>3 DEF TimePasses
  <2> QED  BY <1>8, <2>2, <2>4 DEF TimePasses, Types
<1>9. CASE UNCHANGED vars
  BY <1>9 DEF vars, Types
<1> QED
  BY <1>1, <1>2, <1>3, <1>4, <1>5, <1>6, <1>7, <1>8, <1>9 DEF Next, Evaluates

\* The rows and evaluations a tick leaves are those it found, one tick older.
LEMMA Aging ==
  ASSUME Types, TimePasses
  PROVE  /\ cycleAge' = cycleAge + 1 /\ inCycle' = inCycle
         /\ inCycle => cycleAge + 1 <= CycleSpan
         /\ \A g \in Groups :
              /\ file'[g] # NoRow => file[g] # NoRow
              /\ file[g] # NoRow =>
                   /\ file'[g].streak = file[g].streak /\ file'[g].waf = file[g].waf
                   /\ file'[g].age = Least(MaxAge, file[g].age + 1)
         /\ \A e \in Evaluators :
              /\ eval'[e].at = eval[e].at
              /\ eval[e].at # "idle" =>
                   /\ eval'[e].group = eval[e].group /\ eval'[e].held = eval[e].held
                   /\ eval'[e].waf = eval[e].waf /\ eval'[e].observed = eval[e].observed
                   /\ eval'[e].lag <= eval[e].lag + 1
         /\ \A e \in Evaluators : eval[e].at # "write"
<1>1. cycleAge' = cycleAge + 1 /\ inCycle' = inCycle /\ (inCycle => cycleAge + 1 <= CycleSpan)
  BY Windows DEF TimePasses, Types
<1>2. ASSUME NEW g \in Groups
      PROVE  /\ file'[g] # NoRow => file[g] # NoRow
             /\ file[g] # NoRow =>
                  /\ file'[g].streak = file[g].streak /\ file'[g].waf = file[g].waf
                  /\ file'[g].age = Least(MaxAge, file[g].age + 1)
  <2>1. file'[g] = Older(file[g])
    BY DEF TimePasses
  <2>2. file[g] # NoRow => file[g] \in StoredRow
    BY DEF Types, Files
  <2> QED  BY <2>1, <2>2 DEF Older, StoredRow
<1>3. ASSUME NEW e \in Evaluators
      PROVE  /\ eval'[e].at = eval[e].at
             /\ eval[e].at # "idle" =>
                  /\ eval'[e].group = eval[e].group /\ eval'[e].held = eval[e].held
                  /\ eval'[e].waf = eval[e].waf /\ eval'[e].observed = eval[e].observed
                  /\ eval'[e].lag <= eval[e].lag + 1
  <2>1. eval'[e] = IF eval[e].at = "idle" THEN Idle
                   ELSE [eval[e] EXCEPT !.lag = Least(MaxLag, @ + 1)]
    BY DEF TimePasses
  <2>2. eval[e].at # "idle" => eval[e] \in Running
    BY InFlightIsRunning
  <2>3. CASE eval[e].at = "idle"
    BY <2>1, <2>3 DEF Idle
  <2>4. CASE eval[e].at # "idle"
    BY <2>1, <2>2, <2>4, Windows DEF Running, Least
  <2> QED  BY <2>3, <2>4
<1> QED  BY <1>1, <1>2, <1>3 DEF TimePasses

-----------------------------------------------------------------------------
(* The evaluations and what they rely on. *)

\* A cycle does not outlast its span; no cycle is counted that no sight earned.
LEMMA ClockAndCountKept ==
  ASSUME GateInv, Types', InTurn, [Next]_vars
  PROVE  ClockInv' /\ CountInv'
<1> USE DEF GateInv
<1>1. ASSUME NEW e \in Evaluators, Decide(e)
      PROVE  ClockInv' /\ CountInv'
  <2>1. ClockInv'
    BY <1>1 DEF Decide, ClockInv
  <2>2. eval[e].group \in Groups
    BY <1>1, InFlightIsRunning DEF Decide, Running
  <2>3. \A g \in Groups \ {eval[e].group} :
          sighted'[g] = sighted[g] /\ counted'[g] = counted[g]
    BY <1>1, <2>2 DEF Decide, Types
  <2>4. counted'[eval[e].group] => sighted'[eval[e].group] >= 1
    <3>1. CASE eval[e].held
      <4>1. /\ sighted'[eval[e].group] = IF inCycle /\ ~counted[eval[e].group]
                                         THEN Least(Required, sighted[eval[e].group] + 1)
                                         ELSE sighted[eval[e].group]
            /\ counted'[eval[e].group] = (counted[eval[e].group] \/ inCycle)
        BY <1>1, <2>2, <3>1 DEF Decide, Types
      <4>2. sighted[eval[e].group] \in 0..Required
        BY <2>2 DEF Types
      <4>3. Least(Required, sighted[eval[e].group] + 1) >= 1
        BY <4>2, Windows DEF Least
      <4> QED  BY <2>2, <4>1, <4>3 DEF CountInv
    <3>2. CASE ~eval[e].held
      BY <1>1, <2>2, <3>2 DEF Decide, Types
    <3> QED  BY <3>1, <3>2
  <2>5. CountInv'
    BY <2>2, <2>3, <2>4 DEF CountInv
  <2> QED  BY <2>1, <2>5
<1>2. ASSUME NEW e \in Evaluators, Observe(e) \/ RecordReads(e) \/ RecordWrites(e)
      PROVE  ClockInv' /\ CountInv'
  BY <1>2 DEF Observe, RecordReads, RecordWrites, ClockInv, CountInv
<1>3. ASSUME NEW e \in Evaluators, NEW g \in Groups, BeginEvaluation(e, g)
      PROVE  ClockInv' /\ CountInv'
  BY <1>3 DEF BeginEvaluation, ClockInv, CountInv
<1>4. CASE CycleBegins
  BY <1>4, Windows DEF CycleBegins, ClockInv, CountInv
<1>5. CASE CycleEnds
  BY <1>5 DEF CycleEnds, ClockInv, CountInv
<1>6. ASSUME NEW g \in Groups, MarketMoves(g)
      PROVE  ClockInv' /\ CountInv'
  BY <1>6 DEF MarketMoves, ClockInv, CountInv
<1>7. ASSUME NEW g \in Groups, Reenter(g)
      PROVE  ClockInv' /\ CountInv'
  <2>1. \A h \in Groups : counted'[h] => counted[h] /\ sighted'[h] = sighted[h]
    BY <1>7 DEF Reenter, Types
  <2> QED  BY <1>7, <2>1 DEF Reenter, ClockInv, CountInv
<1>8. CASE TimePasses
  <2>1. ClockInv'
    BY <1>8, Aging DEF ClockInv
  <2>2. CountInv'
    BY <1>8 DEF TimePasses, CountInv
  <2> QED  BY <2>1, <2>2
<1>9. CASE UNCHANGED vars
  BY <1>9 DEF vars, ClockInv, CountInv
<1> QED
  BY <1>1, <1>2, <1>3, <1>4, <1>5, <1>6, <1>7, <1>8, <1>9 DEF Next, Evaluates

\* What EvalInv says of one evaluation.
Relies(e) ==
  /\ inCycle
  /\ eval[e].waf = basis[eval[e].group]
  /\ eval[e].lag <= cycleAge
  /\ \A f \in InFlight : eval[f].group = eval[e].group => f = e
  /\ eval[e].at \in {"queued", "write"} /\ eval[e].held => counted[eval[e].group]
  /\ eval[e].at = "write" => MyTurn(e) /\ eval[e].data = file
  /\ eval[e].at = "decide" =>
       Least(Required, eval[e].observed)
         <= sighted[eval[e].group] + (IF counted[eval[e].group] THEN 0 ELSE 1)

LEMMA AllRely == EvalInv <=> \A e \in InFlight : Relies(e)
BY DEF EvalInv, Relies

\* An evaluation begins: it is the only one of its group.
LEMMA BeginRelies ==
  ASSUME GateInv, Types', InTurn, NEW e \in Evaluators, NEW g \in Groups,
         BeginEvaluation(e, g)
  PROVE  EvalInv'
<1> USE DEF GateInv
<1>1. /\ eval'[e] = [at |-> "observe", group |-> g, held |-> trigger[g], waf |-> basis[g],
                     lag |-> 0, observed |-> 1, data |-> NoFile]
      /\ \A f \in Evaluators \ {e} : eval'[f] = eval[f]
      /\ UNCHANGED <<file, basis, chain, inCycle, cycleAge, sighted, counted>>
      /\ inCycle /\ eval[e].at = "idle" /\ \A f \in InFlight : eval[f].group # g
  BY DEF BeginEvaluation, InTurn, Types
<1>2. \A f \in Evaluators : f # e => (f \in InFlight' <=> f \in InFlight)
  BY <1>1 DEF InFlight
<1>3. ASSUME NEW f \in InFlight'
      PROVE  Relies(f)'
  <2>1. CASE f = e
    <3>1. \A x \in InFlight' : eval'[x].group = g => x = e
      BY <1>1, <1>2 DEF InFlight
    <3>2. eval'[e].at = "observe" /\ eval'[e].group = g /\ eval'[e].waf = basis[g]
          /\ eval'[e].lag = 0
      BY <1>1
    <3> QED  BY <1>1, <2>1, <3>1, <3>2 DEF Relies, Types
  <2>2. CASE f # e
    <3>1. f \in InFlight /\ Relies(f) /\ eval'[f] = eval[f] /\ eval[f].group # g
      BY <1>1, <1>2, <1>3, <2>2, AllRely DEF InFlight
    <3>2. \A x \in InFlight' : eval'[x].group = eval[f].group => x = f
      <4> SUFFICES ASSUME NEW x \in InFlight', eval'[x].group = eval[f].group
                   PROVE  x = f
        OBVIOUS
      <4>1. x # e
        BY <1>1, <3>1
      <4>2. x \in InFlight /\ eval'[x] = eval[x]
        BY <1>1, <1>2, <4>1 DEF InFlight
      <4> QED  BY <3>1, <4>2 DEF Relies
    <3> QED  BY <1>1, <3>1, <3>2 DEF Relies, MyTurn
  <2> QED  BY <2>1, <2>2
<1> QED  BY <1>3, AllRely DEF EvalInv, Relies

\* A step of one evaluation in flight that leaves the state of the others' groups
\* alone: what they rely on still holds.
LEMMA OthersRely ==
  ASSUME GateInv, Types', NEW e \in InFlight, NEW f \in InFlight', f # e,
         \A x \in Evaluators \ {e} : eval'[x] = eval[x],
         eval'[e].at # "idle" => eval'[e].group = eval[e].group,
         UNCHANGED <<basis, inCycle, cycleAge>>,
         eval[f].at = "write" => file' = file /\ MyTurn(f)',
         \A g \in Groups \ {eval[e].group} :
           sighted'[g] = sighted[g] /\ counted'[g] = counted[g]
  PROVE  Relies(f)'
<1> USE DEF GateInv
<1>1. f \in InFlight /\ Relies(f) /\ eval'[f] = eval[f] /\ eval[f].group \in Groups
  BY AllRely, InFlightIsRunning DEF InFlight, Running
<1>2. eval[f].group # eval[e].group
  BY <1>1 DEF Relies
<1>3. \A x \in InFlight' : eval'[x].group = eval[f].group => x = f
  <2> SUFFICES ASSUME NEW x \in InFlight', eval'[x].group = eval[f].group
               PROVE  x = f
    OBVIOUS
  <2>1. x # e
    BY <1>2 DEF InFlight
  <2>2. x \in InFlight /\ eval'[x] = eval[x]
    BY <2>1 DEF InFlight
  <2> QED  BY <1>1, <2>2 DEF Relies
<1> QED  BY <1>1, <1>2, <1>3 DEF Relies

\* What the evaluations rely on is kept: evaluations of a group come one after
\* another, so nothing moves between what one reads and what it records.
LEMMA EvaluationsKept ==
  ASSUME GateInv, Types', InTurn, ShortCycles, [Next]_vars
  PROVE  EvalInv'
<1> USE DEF GateInv
<1>0. \A f \in Evaluators : eval[f].at # "idle" => f \in InFlight /\ Relies(f)
  BY AllRely DEF InFlight
<1>1. ASSUME NEW e \in Evaluators, Observe(e)
      PROVE  EvalInv'
  <2>1. e \in InFlight /\ eval[e] \in Running /\ Relies(e) /\ eval[e].at = "observe"
    BY <1>0, <1>1, InFlightIsRunning DEF Observe
  <2>2. PICK n \in {ObservedCycles(file[eval[e].group], eval[e].waf, eval[e].lag)} \cup {1} :
          eval' = [eval EXCEPT ![e].at = "decide", ![e].observed = n]
    BY <1>1 DEF Observe
  <2>3. /\ eval'[e].at = "decide" /\ eval'[e].observed = n
        /\ eval'[e].group = eval[e].group /\ eval'[e].waf = eval[e].waf
        /\ eval'[e].lag = eval[e].lag /\ eval'[e].held = eval[e].held
        /\ \A x \in Evaluators \ {e} : eval'[x] = eval[x]
    BY <2>1, <2>2 DEF Running, Types
  <2>4. UNCHANGED <<file, basis, chain, inCycle, cycleAge, sighted, counted>>
    BY <1>1 DEF Observe
  <2>5. ASSUME NEW f \in InFlight', f # e
        PROVE  Relies(f)'
    <3>1. eval[f].at = "write" => file' = file /\ MyTurn(f)'
      BY <1>0, <2>4, <2>5 DEF Relies, MyTurn, InFlight
    <3> QED  BY <2>1, <2>3, <2>4, <2>5, <3>1, OthersRely
  <2>6. Relies(e)'
    <3>1. \A x \in InFlight' : eval'[x].group = eval[e].group => x = e
      BY <2>1, <2>3 DEF Relies, InFlight
    <3> DEFINE g == eval[e].group
    <3>2. /\ g \in Groups /\ sighted[g] \in 0..Required /\ counted[g] \in BOOLEAN
          /\ eval[e].lag \in Nat /\ eval[e].lag <= cycleAge /\ cycleAge <= CycleSpan
          /\ cycleAge \in Nat /\ eval[e].waf = basis[g] /\ inCycle
          /\ counted[g] => sighted[g] >= 1
      BY <2>1 DEF Relies, Running, Types, ClockInv, CountInv
    <3>3. Least(Required, n) <= sighted[g] + (IF counted[g] THEN 0 ELSE 1)
      <4>1. CASE n = 1
        BY <3>2, <4>1, Windows DEF Least
      <4>2. CASE n # 1
        <5>1. /\ file[g] # NoRow /\ file[g].waf = basis[g]
              /\ n = IF isSameCycleAsRow(file[g], eval[e].lag)
                     THEN file[g].streak ELSE file[g].streak + 1
          BY <2>2, <3>2, <4>2 DEF ObservedCycles, isUsableRow
        <5>2. /\ file[g].streak \in 1..Required /\ file[g].age \in Nat
          BY <3>2, <5>1 DEF Types, Files, StoredRow
        <5>3. \A b \in BOOLEAN : ~Recording(g, b)
          BY <2>1 DEF Recording, Relies, InFlight
        <5>4. RowIsEarned(g)
          BY <3>2, <5>1, <5>3 DEF RowInv
        <5>5. file[g].streak <= sighted[g]
          BY <5>4 DEF RowIsEarned
        <5>6. counted[g] => isSameCycleAsRow(file[g], eval[e].lag)
          <6>1. counted[g] => file[g].age <= cycleAge
            BY <3>2, <5>3, <5>4 DEF RowIsEarned, Fresh
          <6> QED  BY <3>2, <5>2, <6>1, Windows DEF isSameCycleAsRow, ShortCycles
        <5> QED  BY <3>2, <5>1, <5>2, <5>5, <5>6, Windows DEF Least
      <4> QED  BY <4>1, <4>2
    <3> QED  BY <2>1, <2>3, <2>4, <3>1, <3>2, <3>3 DEF Relies
  <2> QED  BY <2>5, <2>6 DEF EvalInv, Relies
<1>2. ASSUME NEW e \in Evaluators, Decide(e)
      PROVE  EvalInv'
  <2>1. e \in InFlight /\ eval[e] \in Running /\ Relies(e) /\ eval[e].at = "decide"
    BY <1>0, <1>2, InFlightIsRunning DEF Decide
  <2>2. /\ eval'[e].at = "queued"
        /\ eval'[e].group = eval[e].group /\ eval'[e].waf = eval[e].waf
        /\ eval'[e].lag = eval[e].lag /\ eval'[e].held = eval[e].held
        /\ \A x \in Evaluators \ {e} : eval'[x] = eval[x]
    BY <1>2, <2>1 DEF Decide, Running, Types
  <2>3. UNCHANGED <<file, basis, inCycle, cycleAge>> /\ chain' = Append(chain, e)
    BY <1>2 DEF Decide
  <2>4. \A g \in Groups \ {eval[e].group} :
          sighted'[g] = sighted[g] /\ counted'[g] = counted[g]
    BY <1>2, <2>1 DEF Decide, Types, Running
  <2>5. ASSUME NEW f \in InFlight', f # e
        PROVE  Relies(f)'
    <3>1. ASSUME eval[f].at = "write"
          PROVE  file' = file /\ MyTurn(f)'
      <4>1. MyTurn(f) /\ chain \in Seq(Evaluators)
        BY <3>1, <1>0 DEF Relies, Types, InFlight
      <4>2. chain' # << >> /\ Head(chain') = Head(chain)
        BY <2>3, <4>1 DEF MyTurn
      <4> QED  BY <2>3, <4>1, <4>2 DEF MyTurn
    <3> QED  BY <2>1, <2>2, <2>3, <2>4, <2>5, <3>1, OthersRely
  <2>6. Relies(e)'
    <3>1. \A x \in InFlight' : eval'[x].group = eval[e].group => x = e
      BY <2>1, <2>2 DEF Relies, InFlight
    <3>2. eval[e].held => counted'[eval[e].group]
      <4>1. eval[e].group \in Groups /\ inCycle
        BY <2>1 DEF Running, Relies
      <4> QED  BY <1>2, <4>1 DEF Decide, Types
    <3> QED  BY <2>1, <2>2, <2>3, <3>1, <3>2 DEF Relies
  <2> QED  BY <2>5, <2>6 DEF EvalInv, Relies
<1>3. ASSUME NEW e \in Evaluators, RecordReads(e)
      PROVE  EvalInv'
  <2>1. e \in InFlight /\ eval[e] \in Running /\ Relies(e) /\ eval[e].at = "queued"
    BY <1>0, <1>3, InFlightIsRunning DEF RecordReads
  <2>2. /\ eval'[e].at = "write" /\ eval'[e].data = file
        /\ eval'[e].group = eval[e].group /\ eval'[e].waf = eval[e].waf
        /\ eval'[e].lag = eval[e].lag /\ eval'[e].held = eval[e].held
        /\ \A x \in Evaluators \ {e} : eval'[x] = eval[x]
    BY <1>3, <2>1 DEF RecordReads, Running, Types
  <2>3. UNCHANGED <<file, basis, chain, inCycle, cycleAge, sighted, counted>> /\ MyTurn(e)
    BY <1>3 DEF RecordReads
  <2>4. ASSUME NEW f \in InFlight', f # e
        PROVE  Relies(f)'
    <3>1. eval[f].at = "write" => file' = file /\ MyTurn(f)'
      BY <1>0, <2>3, <2>4 DEF Relies, MyTurn, InFlight
    <3> QED  BY <2>1, <2>2, <2>3, <2>4, <3>1, OthersRely
  <2>5. \A x \in InFlight' : eval'[x].group = eval[e].group => x = e
    BY <2>1, <2>2 DEF Relies, InFlight
  <2>6. Relies(e)'
    BY <2>1, <2>2, <2>3, <2>5 DEF Relies, MyTurn
  <2> QED  BY <2>4, <2>6 DEF EvalInv, Relies
<1>4. ASSUME NEW e \in Evaluators, RecordWrites(e)
      PROVE  EvalInv'
  <2>1. e \in InFlight /\ eval[e] \in Running /\ Relies(e) /\ eval[e].at = "write"
        /\ MyTurn(e)
    BY <1>0, <1>4, InFlightIsRunning DEF RecordWrites, Relies
  <2>2. eval'[e] = Idle /\ eval'[e].at = "idle"
        /\ \A x \in Evaluators \ {e} : eval'[x] = eval[x]
    BY <1>4 DEF RecordWrites, Types, Idle
  <2>3. UNCHANGED <<basis, inCycle, cycleAge, sighted, counted>>
    BY <1>4 DEF RecordWrites
  <2>4. ASSUME NEW f \in InFlight'
        PROVE  Relies(f)'
    <3>1. f # e /\ f \in Evaluators
      BY <2>2, <2>4 DEF InFlight
    <3>2. eval[f].at # "write"
      BY <1>0, <2>1, <3>1 DEF Relies, MyTurn
    <3> QED  BY <2>1, <2>2, <2>3, <2>4, <3>1, <3>2, OthersRely
  <2> QED  BY <2>4 DEF EvalInv, Relies
<1>5. ASSUME NEW e \in Evaluators, NEW g \in Groups, BeginEvaluation(e, g)
      PROVE  EvalInv'
  BY <1>5, BeginRelies
<1>6. CASE CycleBegins
  <2>1. InFlight = {}
    BY <1>6 DEF CycleBegins, EvalInv
  <2> QED  BY <1>6, <2>1 DEF CycleBegins, EvalInv, InFlight
<1>7. CASE CycleEnds
  BY <1>7 DEF CycleEnds, EvalInv, InFlight
<1>8. ASSUME NEW g \in Groups, MarketMoves(g)
      PROVE  EvalInv'
  BY <1>8 DEF MarketMoves, EvalInv, InFlight, MyTurn
<1>9. ASSUME NEW g \in Groups, Reenter(g)
      PROVE  EvalInv'
  <2>1. /\ UNCHANGED <<file, eval, chain, inCycle, cycleAge>>
        /\ \A h \in Groups \ {g} :
             basis'[h] = basis[h] /\ sighted'[h] = sighted[h] /\ counted'[h] = counted[h]
    BY <1>9 DEF Reenter, Types
  <2>2. \A e \in InFlight : eval[e].group \in Groups \ {g}
    BY <1>9, InFlightIsRunning DEF Reenter, Running, InFlight
  <2>3. InFlight' = InFlight
    BY <2>1 DEF InFlight
  <2>4. ASSUME NEW e \in InFlight
        PROVE  Relies(e)'
    BY <2>1, <2>2, <2>3, <1>0 DEF Relies, MyTurn, InFlight
  <2> QED  BY <2>3, <2>4 DEF EvalInv, Relies
<1>10. CASE TimePasses
  <2>1. InFlight' = InFlight
    BY <1>10, Aging DEF InFlight
  <2>2. UNCHANGED <<basis, sighted, counted>>
    BY <1>10 DEF TimePasses
  <2>3. ASSUME NEW e \in InFlight
        PROVE  Relies(e)'
    <3>1. Relies(e) /\ e \in Evaluators /\ eval[e] \in Running /\ eval'[e] \in Running
      BY <1>0, <2>1, InFlightIsRunning DEF InFlight, Types, Idle
    <3>2. /\ eval'[e].at = eval[e].at /\ eval'[e].at # "write"
          /\ eval'[e].group = eval[e].group /\ eval'[e].held = eval[e].held
          /\ eval'[e].waf = eval[e].waf /\ eval'[e].observed = eval[e].observed
      BY <1>10, <2>3, Aging DEF InFlight
    <3>3. eval'[e].lag <= cycleAge'
      <4>1. /\ eval'[e].lag <= eval[e].lag + 1 /\ cycleAge' = cycleAge + 1
            /\ eval[e].lag <= cycleAge
        BY <1>10, <2>3, <3>1, Aging DEF InFlight, Relies
      <4> QED  BY <3>1, <4>1 DEF Running, Types
    <3>4. \A f \in InFlight' : eval'[f].group = eval'[e].group => f = e
      <4>1. \A f \in InFlight : eval'[f].group = eval[f].group
        BY <1>10, Aging DEF InFlight
      <4> QED  BY <2>1, <3>1, <3>2, <4>1 DEF Relies
    <3>5. inCycle'
      BY <1>10, <3>1, Aging DEF Relies
    <3> QED  BY <2>2, <3>1, <3>2, <3>3, <3>4, <3>5 DEF Relies
  <2> QED  BY <2>1, <2>3 DEF EvalInv, Relies
<1>11. CASE UNCHANGED vars
  BY <1>11 DEF vars, EvalInv, InFlight, MyTurn
<1> QED
  BY <1>1, <1>2, <1>3, <1>4, <1>5, <1>6, <1>7, <1>8, <1>9, <1>10, <1>11 DEF Next, Evaluates

-----------------------------------------------------------------------------
(* The rows. *)

\* Evaluations that neither reach nor leave the chain leave the recordings as
\* they were.
LEMMA SameRecordings ==
  ASSUME NEW g \in Groups, NEW b \in BOOLEAN,
         \A f \in Evaluators :
           /\ eval'[f].at \in {"queued", "write"} <=> eval[f].at \in {"queued", "write"}
           /\ eval[f].at \in {"queued", "write"} =>
                eval'[f].group = eval[f].group /\ eval'[f].held = eval[f].held
  PROVE  Recording(g, b)' <=> Recording(g, b)
BY DEF Recording

\* What the invariant says of the row of one group.
RowKept(g) ==
  file[g] # NoRow /\ file[g].waf = basis[g] /\ ~Recording(g, FALSE) => RowIsEarned(g)

\* A row whose group nothing touches stands as earned; so does one that expires.
LEMMA RowStands ==
  ASSUME GateInv, NEW g \in Groups,
         file'[g] = file[g] \/ file'[g] = NoRow, basis'[g] = basis[g],
         sighted'[g] = sighted[g], counted'[g] = counted[g],
         UNCHANGED <<inCycle, cycleAge>>,
         \A b \in BOOLEAN : Recording(g, b)' <=> Recording(g, b)
  PROVE  RowKept(g)'
<1>1. SUFFICES ASSUME file'[g] # NoRow, file'[g].waf = basis'[g], ~Recording(g, FALSE)'
               PROVE  RowIsEarned(g)'
  BY DEF RowKept
<1>2. file'[g] = file[g] /\ RowIsEarned(g)
  BY <1>1 DEF GateInv, RowInv
<1>3. Recording(g, TRUE)' <=> Recording(g, TRUE)
  OBVIOUS
<1> QED  BY <1>2, <1>3 DEF RowIsEarned, Fresh, Old, Aged

\* The evaluation in flight is the only one of its group that can be recording.
LEMMA OnlyRecording ==
  ASSUME GateInv, NEW e \in InFlight
  PROVE  \A b \in BOOLEAN :
           Recording(eval[e].group, b)
             <=> eval[e].at \in {"queued", "write"} /\ eval[e].held = b
BY DEF GateInv, EvalInv, Recording, InFlight

\* The facts about a group's row and counts that arithmetic needs.
LEMMA RowTypes ==
  ASSUME GateInv, NEW g \in Groups
  PROVE  /\ sighted[g] \in 0..Required /\ counted[g] \in BOOLEAN /\ basis[g] \in Bases
         /\ cycleAge \in Nat /\ inCycle \in BOOLEAN /\ (inCycle => cycleAge <= CycleSpan)
         /\ counted[g] => sighted[g] >= 1
         /\ file[g] # NoRow =>
              file[g].streak \in 1..Required /\ file[g].age \in Nat /\ file[g].waf \in Bases
BY DEF GateInv, Types, ClockInv, CountInv, Files, StoredRow

\* A trigger that holds is counted before it is recorded: until then the row
\* lacks this cycle.
LEMMA DecideKeepsRows ==
  ASSUME GateInv, NEW e \in Evaluators, Decide(e), NEW g \in Groups
  PROVE  RowKept(g)'
<1>1. e \in InFlight /\ eval[e] \in Running /\ eval[e].at = "decide"
  BY InFlightIsRunning DEF Decide, GateInv
<1>2. eval[e].group \in Groups /\ eval[e].held \in BOOLEAN /\ inCycle
  BY <1>1 DEF Running, GateInv, EvalInv
<1>3. /\ eval'[e].at = "queued" /\ eval'[e].group = eval[e].group
      /\ eval'[e].held = eval[e].held
      /\ \A x \in Evaluators \ {e} : eval'[x] = eval[x]
  BY <1>1 DEF Decide, Running, GateInv, Types
<1>4. UNCHANGED <<file, basis, inCycle, cycleAge>>
  BY DEF Decide
<1>5. CASE g # eval[e].group
  <2>1. sighted'[g] = sighted[g] /\ counted'[g] = counted[g]
    BY <1>2, <1>5 DEF Decide, GateInv, Types
  <2>2. \A b \in BOOLEAN : Recording(g, b)' <=> Recording(g, b)
    BY <1>1, <1>3, <1>5 DEF Recording
  <2> QED  BY <1>4, <2>1, <2>2, RowStands
<1>6. CASE g = eval[e].group /\ ~eval[e].held
  <2>1. Recording(g, FALSE)'
    BY <1>2, <1>3, <1>6 DEF Recording
  <2> QED  BY <2>1 DEF RowKept
<1>7. CASE g = eval[e].group /\ eval[e].held
  <2>1. SUFFICES ASSUME file[g] # NoRow, file[g].waf = basis[g]
                 PROVE  RowIsEarned(g)'
    BY <1>4 DEF RowKept
  <2>2. ~Recording(g, FALSE) /\ ~Recording(g, TRUE)
    BY <1>1, <1>7, OnlyRecording
  <2>3. RowIsEarned(g)
    BY <2>1, <2>2 DEF GateInv, RowInv
  <2>4. Recording(g, TRUE)'
    BY <1>2, <1>3, <1>7 DEF Recording
  <2>5. /\ counted'[g]
        /\ sighted'[g] = IF ~counted[g] THEN Least(Required, sighted[g] + 1) ELSE sighted[g]
    BY <1>2, <1>7 DEF Decide, GateInv, Types
  <2>6. CASE counted[g]
    BY <1>2, <1>4, <2>2, <2>3, <2>5, <2>6 DEF RowIsEarned, Fresh
  <2>7. CASE ~counted[g]
    <3>1. file[g].streak <= sighted[g] /\ Old(file[g])
      BY <1>2, <2>3, <2>7 DEF RowIsEarned
    <3>2. /\ file[g].streak <= sighted'[g]
          /\ Least(Required, file[g].streak + 1) <= sighted'[g]
      BY <2>1, <2>5, <2>7, <3>1, RowTypes, Windows DEF Least
    <3>3. Old(file[g])'
      BY <1>4, <3>1 DEF Old
    <3> QED  BY <1>2, <1>4, <2>4, <2>5, <3>2, <3>3 DEF RowIsEarned
  <2> QED  BY <2>6, <2>7
<1> QED  BY <1>2, <1>5, <1>6, <1>7

\* The recording adds the counted cycle once: a row of this cycle is too young to
\* be advanced, a row of an earlier one is not.
LEMMA WriteKeepsRows ==
  ASSUME GateInv, InTurn, ShortCycles, NEW e \in Evaluators, RecordWrites(e), NEW g \in Groups
  PROVE  RowKept(g)'
<1>1. e \in InFlight /\ eval[e] \in Running /\ eval[e].at = "write"
  BY InFlightIsRunning DEF RecordWrites, GateInv
<1>2. /\ eval[e].data = file /\ inCycle /\ eval[e].lag <= cycleAge
      /\ eval[e].waf = basis[eval[e].group]
      /\ eval[e].held => counted[eval[e].group]
  BY <1>1 DEF GateInv, EvalInv
<1>3. /\ eval[e].group \in Groups /\ eval[e].lag \in Nat
      /\ eval[e].held \in BOOLEAN
  BY <1>1 DEF Running
<1>4. file' = applyStopTrigger(file, eval[e])
  BY <1>2 DEF RecordWrites, InTurn
<1>5. UNCHANGED <<basis, inCycle, cycleAge, sighted, counted>>
      /\ eval' = [eval EXCEPT ![e] = Idle]
  BY DEF RecordWrites
<1>6. eval'[e].at = "idle" /\ \A x \in Evaluators \ {e} : eval'[x] = eval[x]
  BY <1>5 DEF GateInv, Types, Idle
<1>7. /\ \A h \in Groups \ {eval[e].group} : file'[h] = file[h] \/ file'[h] = NoRow
      /\ ~eval[e].held => file'[eval[e].group] = NoRow
  BY <1>1, <1>4, Recorded DEF GateInv
<1>8. CASE g # eval[e].group
  <2>1. \A b \in BOOLEAN : Recording(g, b)' <=> Recording(g, b)
    BY <1>6, <1>8 DEF Recording
  <2> QED  BY <1>5, <1>7, <1>8, <2>1, RowStands
<1>9. CASE g = eval[e].group /\ ~eval[e].held
  BY <1>7, <1>9 DEF RowKept
<1>10. CASE g = eval[e].group /\ eval[e].held
  <2>1. SUFFICES ASSUME file'[g] # NoRow
                 PROVE  /\ file'[g].streak <= sighted[g] /\ file'[g].age <= cycleAge
    BY <1>2, <1>5, <1>10 DEF RowKept, RowIsEarned, Fresh
  <2>2. sighted[g] \in 1..Required /\ cycleAge \in Nat /\ cycleAge <= CycleSpan
    BY <1>2, <1>10, RowTypes
  <2>3. CASE file'[g] = [streak |-> 1, age |-> eval[e].lag, waf |-> eval[e].waf]
    BY <1>2, <2>2, <2>3
  <2>4. ASSUME file[g] # NoRow, file[g].waf = eval[e].waf
        PROVE  IF isSameCycleAsRow(file[g], eval[e].lag)
               THEN file[g].streak <= sighted[g] /\ file[g].age <= cycleAge
               ELSE Least(Required, file[g].streak + 1) <= sighted[g]
    <3>1. RowIsEarned(g)
      BY <1>1, <1>2, <1>10, <2>4, OnlyRecording DEF GateInv, RowInv
    <3>2. file[g].age \in Nat
      BY <2>4, RowTypes
    <3>3. Fresh(file[g]) => isSameCycleAsRow(file[g], eval[e].lag)
      BY <1>3, <2>2, <3>2, Windows DEF Fresh, isSameCycleAsRow, ShortCycles
    <3>4. Old(file[g]) => ~isSameCycleAsRow(file[g], eval[e].lag)
      BY <1>2, <1>3, <2>2, <3>2, Windows DEF Old, isSameCycleAsRow, ShortCycles
    <3> QED  BY <1>2, <1>10, <3>1, <3>3, <3>4 DEF RowIsEarned, Fresh
  <2>5. \/ file'[g] = [streak |-> 1, age |-> eval[e].lag, waf |-> eval[e].waf]
        \/ /\ file[g] # NoRow /\ file[g].waf = eval[e].waf
           /\ ~isSameCycleAsRow(file[g], eval[e].lag)
           /\ file'[g] = [streak |-> Least(Required, file[g].streak + 1),
                          age |-> eval[e].lag, waf |-> eval[e].waf]
        \/ /\ file[g] # NoRow /\ file[g].waf = eval[e].waf
           /\ isSameCycleAsRow(file[g], eval[e].lag)
           /\ file'[g] = file[g]
    BY <1>1, <1>4, <1>10, <2>1, Recorded DEF GateInv
  <2> QED  BY <1>2, <2>3, <2>4, <2>5
<1> QED  BY <1>3, <1>8, <1>9, <1>10

\* A tick ages the rows and the cycle alike.
LEMMA TickKeepsRows ==
  ASSUME GateInv, ShortCycles, TimePasses, NEW g \in Groups
  PROVE  RowKept(g)'
<1>1. /\ cycleAge' = cycleAge + 1 /\ inCycle' = inCycle
      /\ inCycle => cycleAge + 1 <= CycleSpan
      /\ file'[g] # NoRow => file[g] # NoRow
      /\ file[g] # NoRow =>
           /\ file'[g].streak = file[g].streak /\ file'[g].waf = file[g].waf
           /\ file'[g].age = Least(MaxAge, file[g].age + 1)
  BY Aging DEF GateInv
<1>2. UNCHANGED <<basis, sighted, counted>>
  BY DEF TimePasses
<1>3. \A b \in BOOLEAN : Recording(g, b)' <=> Recording(g, b)
  BY SameRecordings, Aging DEF GateInv
<1>4. SUFFICES ASSUME file'[g] # NoRow, file'[g].waf = basis'[g], ~Recording(g, FALSE)'
               PROVE  RowIsEarned(g)'
  BY DEF RowKept
<1>5. file[g] # NoRow /\ RowIsEarned(g)
  BY <1>1, <1>2, <1>3, <1>4 DEF GateInv, RowInv
<1>6. /\ file[g].age \in Nat /\ cycleAge \in Nat
  BY <1>5, RowTypes
<1>7. Aged(file[g]) => Aged(file[g])'
  BY <1>1, <1>5, <1>6, Windows DEF Aged, Least
<1>8. Fresh(file[g]) => Fresh(file[g])'
  BY <1>1, <1>5, <1>6, Windows DEF Fresh, Least
<1>9. inCycle /\ Old(file[g]) => Old(file[g])'
  BY <1>1, <1>5, <1>6, Windows DEF Old, Least
<1>10. Recording(g, TRUE)' <=> Recording(g, TRUE)
  BY <1>3
<1> QED  BY <1>1, <1>2, <1>5, <1>7, <1>8, <1>9, <1>10 DEF RowIsEarned

\* Every step keeps every row earned.
LEMMA RowsKept ==
  ASSUME GateInv, InTurn, ShortCycles, [Next]_vars
  PROVE  RowInv'
<1> SUFFICES ASSUME NEW g \in Groups
             PROVE  RowKept(g)'
  BY DEF RowInv, RowKept
<1>1. ASSUME NEW e \in Evaluators, NEW h \in Groups, BeginEvaluation(e, h)
      PROVE  RowKept(g)'
  <2>1. /\ eval[e].at = "idle" /\ eval'[e].at = "observe"
        /\ \A x \in Evaluators \ {e} : eval'[x] = eval[x]
        /\ UNCHANGED <<file, basis, inCycle, cycleAge, sighted, counted>>
    BY <1>1 DEF BeginEvaluation, GateInv, Types
  <2>2. \A b \in BOOLEAN : Recording(g, b)' <=> Recording(g, b)
    BY <2>1, SameRecordings
  <2> QED  BY <2>1, <2>2, RowStands
<1>2. ASSUME NEW e \in Evaluators, Observe(e) \/ RecordReads(e)
      PROVE  RowKept(g)'
  <2>1. e \in InFlight /\ eval[e] \in Running
    BY <1>2, InFlightIsRunning DEF Observe, RecordReads, GateInv
  <2>2. /\ eval[e].at \in {"queued", "write"} <=> eval'[e].at \in {"queued", "write"}
        /\ eval'[e].group = eval[e].group /\ eval'[e].held = eval[e].held
        /\ \A x \in Evaluators \ {e} : eval'[x] = eval[x]
    <3>1. CASE Observe(e)
      BY <2>1, <3>1 DEF Observe, Running, GateInv, Types
    <3>2. CASE RecordReads(e)
      BY <2>1, <3>2 DEF RecordReads, Running, GateInv, Types
    <3> QED  BY <1>2, <3>1, <3>2
  <2>3. UNCHANGED <<file, basis, inCycle, cycleAge, sighted, counted>>
    BY <1>2 DEF Observe, RecordReads
  <2>4. \A b \in BOOLEAN : Recording(g, b)' <=> Recording(g, b)
    BY <2>2, SameRecordings
  <2> QED  BY <2>3, <2>4, RowStands
<1>3. ASSUME NEW e \in Evaluators, Decide(e)
      PROVE  RowKept(g)'
  BY <1>3, DecideKeepsRows
<1>4. ASSUME NEW e \in Evaluators, RecordWrites(e)
      PROVE  RowKept(g)'
  BY <1>4, WriteKeepsRows
<1>5. CASE CycleBegins
  <2>1. /\ ~inCycle /\ inCycle' /\ cycleAge >= Interval /\ cycleAge' = 0
        /\ UNCHANGED <<file, basis, eval, sighted>> /\ ~counted'[g]
    BY <1>5 DEF CycleBegins
  <2>2. SUFFICES ASSUME file[g] # NoRow, file[g].waf = basis[g], ~Recording(g, FALSE)'
                 PROVE  RowIsEarned(g)'
    BY <2>1 DEF RowKept
  <2>3. ~Recording(g, FALSE)
    BY <2>1, <2>2 DEF Recording
  <2>4. RowIsEarned(g) /\ file[g].age \in Nat /\ cycleAge \in Nat
    BY <2>2, <2>3, RowTypes DEF GateInv, RowInv
  <2>5. file[g].age >= Interval - CycleSpan + 0
    BY <2>1, <2>4, Windows DEF RowIsEarned, Aged
  <2>6. Old(file[g])'
    BY <2>1, <2>5 DEF Old
  <2>7. file[g].streak <= sighted[g]
    BY <2>4 DEF RowIsEarned
  <2> QED  BY <2>1, <2>6, <2>7 DEF RowIsEarned
<1>6. CASE CycleEnds
  <2>1. /\ inCycle /\ ~inCycle'
        /\ UNCHANGED <<file, basis, eval, cycleAge, sighted, counted>>
    BY <1>6 DEF CycleEnds
  <2>2. SUFFICES ASSUME file[g] # NoRow, file[g].waf = basis[g], ~Recording(g, FALSE)'
                 PROVE  RowIsEarned(g)'
    BY <2>1 DEF RowKept
  <2>3. ~Recording(g, FALSE)
    BY <2>1, <2>2 DEF Recording
  <2>4. /\ RowIsEarned(g) /\ file[g].age \in Nat /\ cycleAge \in Nat
        /\ cycleAge <= CycleSpan
    BY <2>1, <2>2, <2>3, RowTypes DEF GateInv, RowInv
  <2>5. Aged(file[g])'
    BY <2>1, <2>4, Windows DEF Aged
  <2>6. file[g].streak <= sighted[g]
    BY <2>4 DEF RowIsEarned
  <2> QED  BY <2>1, <2>5, <2>6 DEF RowIsEarned
<1>7. ASSUME NEW h \in Groups, MarketMoves(h)
      PROVE  RowKept(g)'
  <2>1. UNCHANGED <<file, basis, eval, inCycle, cycleAge, sighted, counted>>
    BY <1>7 DEF MarketMoves
  <2>2. \A b \in BOOLEAN : Recording(g, b)' <=> Recording(g, b)
    BY <2>1, SameRecordings
  <2> QED  BY <2>1, <2>2, RowStands
<1>8. ASSUME NEW h \in Groups, Reenter(h)
      PROVE  RowKept(g)'
  <2>1. UNCHANGED <<file, eval, inCycle, cycleAge>>
    BY <1>8 DEF Reenter
  <2>2. CASE g = h
    <3>1. file[g] # NoRow => basis'[g] # file[g].waf
      BY <1>8, <2>2 DEF Reenter, InTurn, GateInv, Types
    <3> QED  BY <2>1, <3>1 DEF RowKept
  <2>3. CASE g # h
    <3>1. basis'[g] = basis[g] /\ sighted'[g] = sighted[g] /\ counted'[g] = counted[g]
      BY <1>8, <2>3 DEF Reenter, GateInv, Types
    <3>2. \A b \in BOOLEAN : Recording(g, b)' <=> Recording(g, b)
      BY <2>1, SameRecordings
    <3> QED  BY <2>1, <3>1, <3>2, RowStands
  <2> QED  BY <2>2, <2>3
<1>9. CASE TimePasses
  BY <1>9, TickKeepsRows
<1>10. CASE UNCHANGED vars
  <2>1. UNCHANGED <<file, basis, eval, inCycle, cycleAge, sighted, counted>>
    BY <1>10 DEF vars
  <2>2. \A b \in BOOLEAN : Recording(g, b)' <=> Recording(g, b)
    BY <2>1, SameRecordings
  <2> QED  BY <2>1, <2>2, RowStands
<1> QED
  BY <1>1, <1>2, <1>3, <1>4, <1>5, <1>6, <1>7, <1>8, <1>9, <1>10 DEF Next, Evaluates

-----------------------------------------------------------------------------
(* The theorems. *)

LEMMA GateStarts == Init => GateInv
<1> SUFFICES ASSUME Init
             PROVE  GateInv
  OBVIOUS
<1>1. /\ \A e \in Evaluators : eval[e] = Idle /\ eval[e].at = "idle"
      /\ \A g \in Groups : file[g] = NoRow
  BY DEF Init, Idle
<1>2. Types
  <2>1. file \in Files
    BY DEF Init, Files
  <2>2. chain \in Seq(Evaluators)
    BY DEF Init
  <2>3. eval \in [Evaluators -> Running \cup {Idle}]
    BY DEF Init
  <2>4. sighted \in [Groups -> 0..Required] /\ calls \in [Groups -> Nat]
    BY Windows DEF Init
  <2>5. /\ trigger \in [Groups -> BOOLEAN] /\ basis \in [Groups -> Bases]
        /\ stopped \in [Groups -> BOOLEAN] /\ counted \in [Groups -> BOOLEAN]
    BY DEF Init, Bases
  <2>6. inCycle \in BOOLEAN /\ cycleAge \in Nat
    BY Windows DEF Init
  <2> QED  BY <2>1, <2>2, <2>3, <2>4, <2>5, <2>6 DEF Types
<1>3. EvalInv
  BY <1>1 DEF EvalInv, InFlight
<1>4. RowInv
  BY <1>1 DEF RowInv
<1> QED  BY <1>2, <1>3, <1>4 DEF Init, ClockInv, CountInv, GateInv

LEMMA GateKept ==
  ASSUME InTurn, ShortCycles, GateInv, [Next]_vars
  PROVE  GateInv'
<1>1. Types'
  BY TypesKept
<1> QED  BY <1>1, ClockAndCountKept, EvaluationsKept, RowsKept DEF GateInv

\* What a step that lets a stop fire has seen: the gate counts at most the cycle
\* that is being evaluated beyond the cycles seen before it.
LEMMA FiringIsEarned ==
  ASSUME GateInv, [Next]_vars, NEW g \in Groups, stopped'[g], ~stopped[g]
  PROVE  sighted'[g] >= Required
<1>1. PICK e \in Evaluators : Decide(e)
  BY DEF Next, Evaluates, vars, GateInv, Types, BeginEvaluation, Observe, RecordReads,
         RecordWrites, CycleBegins, CycleEnds, MarketMoves, Reenter, TimePasses
<1>2. e \in InFlight /\ eval[e] \in Running /\ eval[e].at = "decide"
  BY <1>1, InFlightIsRunning DEF Decide, GateInv
<1>3. g = eval[e].group /\ eval[e].held /\ eval[e].observed >= Required
  BY <1>1, <1>2, Windows DEF Decide, defer, GateInv, Types, Running
<1>4. /\ inCycle
      /\ Least(Required, eval[e].observed) <= sighted[g] + (IF counted[g] THEN 0 ELSE 1)
  BY <1>2, <1>3 DEF GateInv, EvalInv
<1>5. sighted'[g] = IF ~counted[g] THEN Least(Required, sighted[g] + 1) ELSE sighted[g]
  BY <1>1, <1>3, <1>4 DEF Decide, GateInv, Types
<1>6. sighted[g] \in 0..Required /\ eval[e].observed \in Nat
  BY <1>2, RowTypes DEF Running
<1> QED  BY <1>3, <1>4, <1>5, <1>6, Windows DEF Least

\* "Cycles, not evaluations", for every number of groups and evaluators, any
\* required count and any interval: where the evaluations of a group come one
\* after another and a cycle takes less than half an interval, a stop fires only
\* after Required distinct cycles in a row saw the position's trigger hold; a
\* read that meets a half-written file changes nothing about it.
THEOREM StopsFireOnDistinctCycles ==
  ASSUME InTurn, ShortCycles
  PROVE  Spec => FiresOnDistinctCycles
<1>1. Init => GateInv
  BY GateStarts
<1>2. GateInv /\ [Next]_vars => GateInv'
  BY GateKept
<1>3. GateInv /\ [Next]_vars =>
        [\A g \in Groups : stopped'[g] /\ ~stopped[g] => sighted'[g] >= Required]_vars
  BY FiringIsEarned
<1> QED  BY <1>1, <1>2, <1>3, PTL DEF Spec, FiresOnDistinctCycles

\* The streak the file holds for a position nobody is evaluating is no longer than
\* the run of cycles that earned it.
THEOREM StreaksAreEarned ==
  ASSUME InTurn, ShortCycles
  PROVE  Spec => []StreakIsEarned
<1>1. Init => GateInv
  BY GateStarts
<1>2. GateInv /\ [Next]_vars => GateInv'
  BY GateKept
<1>3. GateInv => StreakIsEarned
  BY DEF GateInv, RowInv, RowIsEarned, Recording, StreakIsEarned, InFlight
<1> QED  BY <1>1, <1>2, <1>3, PTL DEF Spec

\* The same in the two worlds of the run whose evaluations come in turn: groups
\* that share the file, and a group evaluated repeatedly in a cycle that takes time.
THEOREM StopsFireOnDistinctCyclesInTurn ==
  ASSUME InTurn, ShortCycles
  PROVE  MCSpec => FiresOnDistinctCyclesInTurn
<1> DEFINE Mine == world = "shared" \/ world = "slow"
           Inv == Mine => GateInv
<1>1. MCInit => Inv
  BY GateStarts DEF MCInit
<1>2. Inv /\ [MCNext]_<<vars, world>> => Inv'
  <2> SUFFICES ASSUME Inv, [MCNext]_<<vars, world>>, Mine'
               PROVE  GateInv'
    OBVIOUS
  <2>1. Mine /\ [Next]_vars
    BY DEF MCNext
  <2> QED  BY <2>1, GateKept
<1>3. Inv /\ [MCNext]_<<vars, world>> =>
        [world = "shared" \/ world = "slow" =>
           \A g \in Groups : stopped'[g] /\ ~stopped[g] => sighted'[g] >= Required]_vars
  <2> SUFFICES ASSUME Inv, [MCNext]_<<vars, world>>, Mine,
                      NEW g \in Groups, stopped'[g], ~stopped[g]
               PROVE  sighted'[g] >= Required
    OBVIOUS
  <2>1. [Next]_vars
    BY DEF MCNext
  <2> QED  BY <2>1, FiringIsEarned
<1> HIDE DEF Inv
<1> QED  BY <1>1, <1>2, <1>3, PTL DEF MCSpec, FiresOnDistinctCyclesInTurn
=============================================================================
