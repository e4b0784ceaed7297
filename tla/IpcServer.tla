----------------------------- MODULE IpcServer -----------------------------
(***************************************************************************)
(* One connection to the IPC server (src/ipc-server.ts): the client's      *)
(* lines arrive in chunks, and the handler of a chunk awaits the command   *)
(* of every line it finds, while the next chunk enters the same handler    *)
(* again with the same buffer.  Between two awaits a handler runs alone.   *)
(*                                                                         *)
(* A line is the pieces of its request and a newline.  That commands of a  *)
(* connection, and of several, run side by side is what the other modules  *)
(* are about; GracefulShutdown has the server's end.                       *)
(***************************************************************************)
EXTENDS Integers, Sequences, SequencesExt

CONSTANTS
  Requests,    \* bound: the requests a client writes
  Pieces,      \* the pieces of a request
  Pipelined,   \* the client writes on while it waits for an answer
  Coalesced    \* a chunk may go on after the end of a line

VARIABLES
  written,      \* requests written
  wire,         \* what has been written and has not arrived
  buffer,
  newlineIndex, \* of the handler that runs; 0: none, or none left
  waiting,      \* the handlers that await a command, each with its newlineIndex
  ran           \* history: what was handed to handleRequest

ipcVars == <<written, wire, buffer, newlineIndex, waiting, ran>>

Newline == <<0, 0>>
Text(r) == [k \in 1 .. Pieces |-> <<r, k>>]

indexOfNewline(s) ==
  IF Newline \in ToSet(s) THEN SelectInSeq(s, LAMBDA x : x = Newline) ELSE 0

\* String.trim: newlines at either end.
Trim(s) ==
  LET kept == {i \in DOMAIN s : s[i] # Newline}
  IN  IF kept = {} THEN << >> ELSE SubSeq(s, Min(kept), Max(kept))

\* String.slice up to an index and after it; the index may lie beyond the end.
Before(s, i) == SubSeq(s, 1, IF i <= Len(s) THEN i - 1 ELSE Len(s))
After(s, i) == SubSeq(s, i + 1, Len(s))

Nobody == newlineIndex = 0

\* sendIpcRequest writes one line; it uses a connection for one request, other
\* clients may go on.
SendRequest ==
  /\ written < Requests
  /\ Pipelined \/ (Len(ran) = written /\ waiting = {})
  /\ written' = written + 1
  /\ wire' = wire \o Text(written + 1) \o <<Newline>>
  /\ UNCHANGED <<buffer, newlineIndex, waiting, ran>>

\* The data handler up to its loop.
DataArrives(n) ==
  /\ Nobody
  /\ Coalesced \/ Newline \notin ToSet(SubSeq(wire, 1, n - 1))
  /\ buffer' = buffer \o SubSeq(wire, 1, n)
  /\ wire' = SubSeq(wire, n + 1, Len(wire))
  /\ newlineIndex' = indexOfNewline(buffer')
  /\ UNCHANGED <<written, waiting, ran>>

\* Mutant: the next newline is looked for before the line is cut off.
TakeLineThenCut ==
  LET raw == Trim(Before(buffer, newlineIndex))
  IN  /\ ~Nobody
      /\ buffer' = After(buffer, newlineIndex)
      /\ ran' = Append(ran, raw)
      /\ waiting' = waiting \cup {[raw |-> raw, newlineIndex |-> newlineIndex]}
      /\ newlineIndex' = 0
      /\ UNCHANGED <<written, wire>>

\* One turn of the loop: an empty line is passed over, a command is awaited.
TakeLine ==
  LET raw == Trim(Before(buffer, newlineIndex))
      rest == After(buffer, newlineIndex)
  IN  /\ ~Nobody
      /\ buffer' = rest
      /\ \/ /\ raw = << >>
            /\ newlineIndex' = indexOfNewline(rest)
            /\ UNCHANGED <<waiting, ran>>
         \/ /\ raw # << >>
            /\ ran' = Append(ran, raw)
            /\ waiting' = waiting \cup
                 {[raw |-> raw, newlineIndex |-> indexOfNewline(rest)]}
            /\ newlineIndex' = 0
      /\ UNCHANGED <<written, wire>>

\* handleRequest answers, with the result or an error: the handler goes on where
\* it was.
Answers(h) ==
  /\ Nobody
  /\ waiting' = waiting \ {h}
  /\ newlineIndex' = h.newlineIndex
  /\ UNCHANGED <<written, wire, buffer, ran>>

Init ==
  /\ written = 0 /\ wire = << >> /\ buffer = << >>
  /\ newlineIndex = 0 /\ waiting = {} /\ ran = << >>

Next ==
  \/ SendRequest
  \/ \E n \in 1 .. Len(wire) : DataArrives(n)
  \/ TakeLine
  \/ \E h \in waiting : Answers(h)

Spec == Init /\ [][Next]_ipcVars

-----------------------------------------------------------------------------
\* Every request runs once, whole and in its turn, however its line is cut into
\* chunks and whatever is still running; none is left over.  Fails when a chunk
\* may go on after the end of a line: the handler that waits with the index of
\* the second line cuts whatever is in the buffer by then.
EachRunsOnce ==
  /\ \A i \in DOMAIN ran : ran[i] = Text(i)
  /\ wire = << >> /\ Nobody /\ waiting = {} => Len(ran) = written
=============================================================================
