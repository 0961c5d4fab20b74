------------------------------ MODULE Activity ------------------------------
(***************************************************************************)
(* What agents are doing, as their hooks tell it: internal/ingest and the  *)
(* activity stream of the dashboard.  A hook of an agent's session drops a *)
(* file into a directory; the watcher of the relay reads files, one at a   *)
(* time, and removes them.  The detector keeps an entry for each session,  *)
(* which a ticker ages, and tells every browser that streams it after each *)
(* change, over a bounded channel.  A relay that starts first reads the    *)
(* files that it finds, in the order of their names, and only then watches.*)
(*                                                                         *)
(* Not modelled: which tool maps to which activity, the tool's and the     *)
(* file's names, files that are not JSON, and the log of events, which     *)
(* main empties without end.                                               *)
(***************************************************************************)
EXTENDS Integers, Sequences, FiniteSets

CONSTANTS
    Session,     \* sessions of agents
    Hook,        \* bound: the files hooks write
    Tells,       \* Tells[h]: the event that h tells of
    Stream,      \* browsers that stream the activity
    WaitingAge,  \* waitingThreshold
    IdleAge,     \* idleThreshold
    ExitAge,     \* exitThreshold
    DisplayTime, \* minDisplayTime
    StreamSize,  \* the capacity of a subscriber's channel, 8
    MaxSeconds   \* bound: the clock

ASSUME ActivityAssumption ==
    /\ WaitingAge \in Nat
    /\ IdleAge \in Nat
    /\ ExitAge \in Nat
    /\ WaitingAge < IdleAge
    /\ IdleAge < ExitAge
    /\ DisplayTime \in Nat
    /\ StreamSize \in Nat \ {0}
    /\ MaxSeconds \in Nat
    /\ Tells \in [Hook -> {"agent_exit", "agent_spawn", "stop", "tool_end", "tool_start"}]

VARIABLES
    hookFile, \* hookFile[h]: the file of h, and the event in it
    watch,    \* the hooks watcher: what it is at, and what it has yet to read
    entry,    \* entry[s]: sessions[s] of the detector
    stream,   \* stream[b]: the subscription of b, and what b was last sent
    seconds   \* the time

activityVars == <<hookFile, watch, entry, stream, seconds>>

-----------------------------------------------------------------------------
\* File names begin with the kind of event: a directory is listed in that order.
NameOrder == <<"agent_exit", "agent_spawn", "stop", "tool_end", "tool_start">>

NoFile == [at |-> "none"]

Removed == [at |-> "removed"]

NoEntry == [state |-> "none"]

\* No subscription.
NoStream == [at |-> "none"]

\* What getSessionsLocked tells of a session.
Shown(e) == IF e = NoEntry THEN NoEntry ELSE [state |-> e.state, activity |-> e.activity]

Sessions == [s \in Session |-> Shown(entry[s])]

\* A relay has just stopped, with a directory that is empty.
ActivityInit ==
    /\ hookFile = [h \in Hook |-> NoFile]
    /\ watch = [at |-> "stopped", unread |-> <<>>]
    /\ entry = [s \in Session |-> NoEntry]
    /\ stream = [b \in Stream |-> NoStream]
    /\ seconds = 0

-----------------------------------------------------------------------------
(* The detector. *)

\* A subscriber whose channel is full misses the snapshot.
Broadcast(entries) ==
    LET snap == [s \in Session |-> Shown(entries[s])] IN
    stream' = [b \in Stream |->
        IF stream[b].at = "none" THEN NoStream
        ELSE IF Len(stream[b].channel) < StreamSize
             THEN [stream[b] EXCEPT !.channel = Append(@, snap), !.missed = FALSE]
             ELSE [stream[b] EXCEPT !.missed = TRUE]]

\* A tool counts as work until it ends, and agent_exit as the default: active but idle.
MapToolToActivity(event) ==
    CASE event = "agent_exit" -> "idle"
      [] event = "stop"       -> "waiting"
      [] OTHER                -> "work"

\* What an entry begins with; an event overwrites it.
Fresh == [state |-> "thinking", activity |-> "thinking", until |-> 0, pending |-> FALSE,
          last |-> 0, type |-> "tool_end", idleSent |-> FALSE, waitSent |-> FALSE]

\* A bug that lets the end of a tool, still waiting to be shown, outlive a stop.
MutRecorded(e, event, ts) ==
    LET heard == [(IF e = NoEntry THEN Fresh ELSE e) EXCEPT
                     !.last = ts, !.type = event, !.idleSent = FALSE, !.waitSent = FALSE]
    IN CASE event = "stop" ->
              [heard EXCEPT !.state = "waiting", !.activity = "waiting"]
         [] event = "tool_end" /\ seconds < heard.until ->
              [heard EXCEPT !.pending = TRUE]
         [] event = "tool_end" /\ seconds >= heard.until ->
              [heard EXCEPT !.state = "thinking", !.activity = "thinking"]
         [] OTHER ->
              [heard EXCEPT !.state = "active", !.activity = MapToolToActivity(event),
                            !.until = seconds + DisplayTime, !.pending = FALSE]

\* The entry of a session after an event: the end of a tool waits until the tool was
\* displayed long enough, and nothing waits behind a stop or the next tool.
Recorded(e, event, ts) ==
    LET heard == [(IF e = NoEntry THEN Fresh ELSE e) EXCEPT
                     !.last = ts, !.type = event, !.idleSent = FALSE, !.waitSent = FALSE]
    IN CASE event = "stop" ->
              [heard EXCEPT !.state = "waiting", !.activity = "waiting", !.until = 0, !.pending = FALSE]
         [] event = "tool_end" /\ seconds < heard.until ->
              [heard EXCEPT !.pending = TRUE]
         [] event = "tool_end" /\ seconds >= heard.until ->
              [heard EXCEPT !.state = "thinking", !.activity = "thinking"]
         [] OTHER ->
              [heard EXCEPT !.state = "active", !.activity = MapToolToActivity(event),
                            !.until = seconds + DisplayTime, !.pending = FALSE]

RecordEvent(h) ==
    LET s == hookFile[h].session
    IN /\ entry' = [entry EXCEPT ![s] = Recorded(@, hookFile[h].type, hookFile[h].ts)]
       /\ Broadcast(entry')

\* The entry of a session after a tick: the waiting end of a tool is shown, and a
\* session that was silent for long is dropped, idle, or waiting for a tool that ended.
Aged(e) ==
    LET elapsed == seconds - e.last
        due == [e EXCEPT !.state = "thinking", !.activity = "thinking", !.pending = FALSE]
        f == IF e.pending /\ seconds > e.until THEN due ELSE e
    IN CASE elapsed > ExitAge -> NoEntry
         [] elapsed \in (IdleAge + 1)..ExitAge /\ ~f.idleSent ->
              [f EXCEPT !.state = "idle", !.activity = "idle", !.idleSent = TRUE]
         [] elapsed \in (WaitingAge + 1)..ExitAge /\ (elapsed > IdleAge => f.idleSent)
              /\ f.type = "tool_end" /\ ~f.waitSent ->
              [f EXCEPT !.state = "waiting", !.activity = "waiting", !.waitSent = TRUE]
         [] OTHER -> f

\* A bug that tells subscribers what the sessions were before the tick.
MutTick ==
    /\ watch.at # "stopped"
    /\ entry' = [s \in Session |-> IF entry[s] = NoEntry THEN NoEntry ELSE Aged(entry[s])]
    /\ Broadcast(entry)
    /\ UNCHANGED <<hookFile, watch, seconds>>

Tick ==
    /\ watch.at # "stopped"
    /\ entry' = [s \in Session |-> IF entry[s] = NoEntry THEN NoEntry ELSE Aged(entry[s])]
    /\ Broadcast(entry')
    /\ UNCHANGED <<hookFile, watch, seconds>>

-----------------------------------------------------------------------------
(* The hooks and their watcher. *)

\* A hook writes a file under another name and renames it; who watches hears of it.
WriteHook(h, s) ==
    /\ hookFile[h] = NoFile
    /\ hookFile' = [hookFile EXCEPT ![h] =
          [at |-> "written", session |-> s, type |-> Tells[h], ts |-> seconds]]
    /\ watch' = IF watch.at = "watching" THEN [watch EXCEPT !.unread = Append(@, h)] ELSE watch
    /\ UNCHANGED <<entry, stream, seconds>>

Rank(h) == CHOOSE i \in 1..Len(NameOrder) : NameOrder[i] = hookFile[h].type

Written == {h \in Hook : hookFile[h].at = "written"}

\* The relay starts and lists the directory, by name.
ListFiles ==
    /\ watch.at = "stopped"
    /\ \E names \in [1..Cardinality(Written) -> Written] :
          /\ \A i, j \in DOMAIN names : i < j => names[i] # names[j] /\ Rank(names[i]) <= Rank(names[j])
          /\ watch' = [at |-> "catching up", unread |-> names]
    /\ UNCHANGED <<hookFile, entry, stream, seconds>>

\* The next file is read, told to the detector and removed.
ProcessFile ==
    /\ watch.at # "stopped"
    /\ watch.unread # <<>>
    /\ LET h == Head(watch.unread)
       IN /\ watch' = [watch EXCEPT !.unread = Tail(@)]
          /\ RecordEvent(h)
          /\ hookFile' = [hookFile EXCEPT ![h] = Removed]
    /\ UNCHANGED seconds

\* The files that came after the listing are left for the next start.
StartWatching ==
    /\ watch.at = "catching up"
    /\ watch.unread = <<>>
    /\ watch' = [watch EXCEPT !.at = "watching"]
    /\ UNCHANGED <<hookFile, entry, stream, seconds>>

\* The relay stops: the sessions are forgotten, the files are not.
StopIngest ==
    /\ watch.at # "stopped"
    /\ watch' = [at |-> "stopped", unread |-> <<>>]
    /\ entry' = [s \in Session |-> NoEntry]
    /\ stream' = [b \in Stream |-> NoStream]
    /\ UNCHANGED <<hookFile, seconds>>

-----------------------------------------------------------------------------
(* GET /activity/stream. *)

SubscribeActivity(b) ==
    /\ watch.at # "stopped"
    /\ stream[b] = NoStream
    /\ stream' = [stream EXCEPT ![b] =
          [at |-> "subscribed", channel |-> <<>>, missed |-> FALSE,
           sent |-> [s \in Session |-> NoEntry]]]
    /\ UNCHANGED <<hookFile, watch, entry, seconds>>

\* The first payload is read after the subscription.
SendInitial(b) ==
    /\ stream[b].at = "subscribed"
    /\ stream' = [stream EXCEPT ![b].at = "streaming", ![b].sent = Sessions]
    /\ UNCHANGED <<hookFile, watch, entry, seconds>>

SendSnapshot(b) ==
    /\ stream[b].at = "streaming"
    /\ stream[b].channel # <<>>
    /\ stream' = [stream EXCEPT ![b].sent = Head(stream[b].channel), ![b].channel = Tail(@)]
    /\ UNCHANGED <<hookFile, watch, entry, seconds>>

UnsubscribeActivity(b) ==
    /\ stream[b].at # "none"
    /\ stream' = [stream EXCEPT ![b] = NoStream]
    /\ UNCHANGED <<hookFile, watch, entry, seconds>>

-----------------------------------------------------------------------------
\* A second passes.
SecondPasses ==
    /\ seconds < MaxSeconds
    /\ seconds' = seconds + 1
    /\ UNCHANGED <<hookFile, watch, entry, stream>>

ActivityNext ==
    \/ Tick
    \/ \E h \in Hook, s \in Session : WriteHook(h, s)
    \/ ListFiles \/ ProcessFile \/ StartWatching \/ StopIngest
    \/ \E b \in Stream : SubscribeActivity(b) \/ SendInitial(b) \/ SendSnapshot(b) \/ UnsubscribeActivity(b)
    \/ SecondPasses

-----------------------------------------------------------------------------
ActivityTypeOK ==
    /\ \A h \in Hook : hookFile[h] \in {NoFile, Removed} \/ hookFile[h].type = Tells[h]
    /\ watch.at \in {"stopped", "catching up", "watching"}
    /\ watch.unread \in Seq(Hook)
    /\ \A s \in Session : Shown(entry[s]).state \in {"none", "active", "thinking", "waiting", "idle"}
    /\ \A b \in Stream : stream[b] = NoStream \/ Len(stream[b].channel) <= StreamSize
    /\ seconds \in 0..MaxSeconds

\* A browser that has been sent all that is in its channel shows the sessions as they
\* are, unless a snapshot found the channel full: then until the next tick. And what it
\* shows fits the last event: what a stop or a new tool made of a session is not undone
\* by a tool that ended before (detector.go:126, 142).
ActivityFollows ==
    /\ \A b \in Stream :
          stream[b].at = "streaming" /\ stream[b].channel = <<>> /\ ~stream[b].missed
          => stream[b].sent = Sessions
    /\ \A s \in Session : entry[s] # NoEntry =>
          /\ entry[s].type = "stop" => entry[s].state \in {"waiting", "idle"}
          /\ entry[s].type = "tool_start" => entry[s].state \in {"active", "idle"}
==============================================================================
