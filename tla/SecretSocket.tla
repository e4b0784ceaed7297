---------------------------- MODULE SecretSocket ----------------------------
(***************************************************************************)
(* The feed behind the auto-seed (strategy/secret/secret-socket-state.ts): *)
(* a socket that connects and authenticates anew after every break, a      *)
(* bounded queue for the log lines that cannot go out meanwhile, and a     *)
(* cache of the feed that a restarted process takes from disk.             *)
(*                                                                         *)
(* An update is named by the time it came.  AutoSeed has what an update    *)
(* sets off; how long the process has been up, and what is configured      *)
(* apart from the key, stay as they are.                                   *)
(***************************************************************************)
EXTENDS Integers, Sequences, SequencesExt

CONSTANTS
  HasKey,      \* isSecretAuthConfigured
  MaxPending,  \* MAX_PENDING_SECRET_LOGS
  MaxAge,      \* SECRET_CACHE_MAX_AGE_MS
  MaxLogs,     \* bound: the log lines of one process
  MaxTime      \* bound: time

Feeds == {"positions", "tickerRecs"}
Never == -1

VARIABLES
  up,         \* startSecretSocketConnection has run in this process
  connected, authed,
  asked,      \* the attemptAuth of this connection is unanswered
  pending,    \* pendingSecretLogs: the process's log lines, counted
  said, sent, \* how many there were; history: those that were emitted
  now, since, \* the time; when the process started
  cached,     \* of each feed, the update in the cache and its timestamp
  regime,     \* cachedRegime
  disk        \* the cache file

logVars == <<pending, said, sent>>
linkVars == <<connected, authed, asked>>
cacheVars == <<cached, regime, disk>>
socketVars == <<up, linkVars, logVars, now, since, cacheVars>>

Empty == [feed \in Feeds |-> [of |-> Never, at |-> Never]]

isReadyToEmitSecretLog == up /\ connected /\ (authed \/ ~HasKey)

-----------------------------------------------------------------------------
(* The process and its link. *)

Init ==
  /\ up = FALSE
  /\ connected = FALSE /\ authed = FALSE /\ asked = FALSE
  /\ pending = << >> /\ said = 0 /\ sent = << >>
  /\ now = 0 /\ since = 0
  /\ cached = Empty /\ regime = "unknown" /\ disk = Empty

Recent(entry) == entry.at # Never /\ now - entry.at <= MaxAge

\* Mutant: what is rehydrated counts as new.
RehydratedNow(feed) ==
  IF Recent(disk[feed]) THEN [disk[feed] EXCEPT !.at = now] ELSE cached[feed]

\* rehydrateSecretCacheFromDisk: each feed by its own age.
Rehydrated(feed) == IF Recent(disk[feed]) THEN disk[feed] ELSE cached[feed]

startSecretSocketConnection ==
  /\ ~up /\ up' = TRUE
  /\ cached' = [feed \in Feeds |-> Rehydrated(feed)]
  /\ UNCHANGED <<linkVars, logVars, now, since, regime, disk>>

\* The process ends at any moment and starts anew; only the file is left.
Restarts ==
  /\ up' = FALSE
  /\ connected' = FALSE /\ authed' = FALSE /\ asked' = FALSE
  /\ pending' = << >> /\ said' = 0 /\ sent' = << >>
  /\ since' = now
  /\ cached' = Empty /\ regime' = "unknown"
  /\ UNCHANGED <<now, disk>>

Connects ==
  /\ up /\ ~connected
  /\ connected' = TRUE /\ authed' = FALSE /\ asked' = HasKey
  /\ UNCHANGED <<up, logVars, now, since, cacheVars>>

\* Mutant: the queue is flushed before the socket counts as authenticated, and so
\* not at all.
AckedTooLate ==
  /\ asked /\ asked' = FALSE /\ authed' = TRUE
  /\ UNCHANGED <<up, connected, logVars, now, since, cacheVars>>

\* The acknowledgement flushes the queue.
AuthAcked ==
  /\ asked /\ asked' = FALSE
  /\ authed' = TRUE
  /\ sent' = sent \o pending /\ pending' = << >>
  /\ UNCHANGED <<up, connected, said, now, since, cacheVars>>

AuthRejected ==
  /\ asked /\ asked' = FALSE
  /\ UNCHANGED <<up, connected, authed, logVars, now, since, cacheVars>>

\* disconnect, and connect_error: an answer that was awaited does not come.
Disconnects ==
  /\ connected
  /\ connected' = FALSE /\ authed' = FALSE /\ asked' = FALSE
  /\ UNCHANGED <<up, logVars, now, since, cacheVars>>

-----------------------------------------------------------------------------
(* Log lines and updates. *)

\* Pushed, and the oldest dropped past the cap.
Queued(line) ==
  IF Len(pending) < MaxPending THEN Append(pending, line)
  ELSE Append(Tail(pending), line)

emitSecretLog ==
  /\ said < MaxLogs /\ said' = said + 1
  /\ \/ /\ isReadyToEmitSecretLog
        /\ sent' = Append(sent, said') /\ UNCHANGED pending
     \/ /\ ~isReadyToEmitSecretLog
        /\ pending' = Queued(said') /\ UNCHANGED sent
  /\ UNCHANGED <<up, linkVars, now, since, cacheVars>>

\* server:data-update with some of the feeds: positions first, each with its own
\* attempt to write the file.
Update(feeds) ==
  /\ connected
  /\ cached' = [feed \in Feeds |->
       IF feed \in feeds THEN [of |-> now, at |-> now] ELSE cached[feed]]
  /\ \E announced \in {"unknown", "calm", "crash"} :
       regime' = IF "positions" \in feeds /\ announced # "unknown" THEN announced ELSE regime
  /\ LET first == [cached EXCEPT !["positions"] = cached'["positions"]]
     IN  disk' \in {disk, cached'} \cup
           IF feeds = Feeds THEN {first} ELSE {}
  /\ UNCHANGED <<up, linkVars, logVars, now, since>>

TimePasses ==
  /\ now < MaxTime /\ now' = now + 1
  /\ UNCHANGED <<up, linkVars, logVars, since, cacheVars>>

Next ==
  \/ startSecretSocketConnection \/ Restarts
  \/ Connects \/ AuthAcked \/ AuthRejected \/ Disconnects
  \/ emitSecretLog
  \/ \E feeds \in SUBSET Feeds \ {{}} : Update(feeds)
  \/ TimePasses

Spec == Init /\ [][Next]_socketVars

-----------------------------------------------------------------------------
(* Properties. *)

\* "drop oldest past the cap" and nothing else: a line that is lost is followed
\* by as many as the queue holds, lines never overtake each other, and once
\* lines can go out none waits.  Without a key the last part fails: only the
\* acknowledgement flushes.
LogsGoOut ==
  /\ isReadyToEmitSecretLog => pending = << >>
  /\ LET lines == sent \o pending
     IN  /\ \A i, j \in DOMAIN lines : i < j => lines[i] < lines[j]
         /\ \A line \in 1 .. said : line \in ToSet(lines) \/ said - line >= MaxPending

\* The cache never looks newer than it is, and a process that starts takes
\* nothing that was too old by then.
CacheAgeIsTrue ==
  \A feed \in Feeds : cached[feed].at # Never =>
    /\ cached[feed].at = cached[feed].of
    /\ cached[feed].of >= since - MaxAge
=============================================================================
