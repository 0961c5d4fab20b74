------------------------------ MODULE Terminal ------------------------------
(***************************************************************************)
(* Interactive terminals (internal/spawn/pty.go, pty_manager.go and        *)
(* internal/relay/ws_terminal.go): processes on a pseudo terminal, the     *)
(* reader that keeps the end of their output and hands it on, and the      *)
(* browsers that watch and type.                                           *)
(*                                                                         *)
(* Output comes in chunks, numbered per session in the order they are      *)
(* read; the ring holds whole chunks, where the code's may cut one.  Each  *)
(* browser has two goroutines: its handler, which reads what is typed, and *)
(* the pump, which writes output.                                          *)
(***************************************************************************)
EXTENDS Naturals, Sequences, FiniteSets

CONSTANTS
    Pty,        \* ids of the sessions that may be started
    Viewer,     \* browsers
    MaxPTY,     \* sessions the manager tracks at most, 5
    RingSize, ChanSize,     \* in chunks: the 128KB ring, a subscriber's channel
    MaxChunk,
    Output      \* bound: the chunks each process puts out, at most MaxChunk

ASSUME TerminalAssumption ==
    /\ {MaxPTY, RingSize, ChanSize, MaxChunk} \subseteq Nat \ {0}
    /\ Output \in [Pty -> 0 .. MaxChunk]

VARIABLES
    ptys,       \* PTYManager.sessions
    pty,        \* pty[s]: the session s
    viewer      \* viewer[v]: the browser v

terminalVars == <<ptys, pty, viewer>>

Chunk == 1 .. MaxChunk

\* mu: the viewer whose input holds the lock; read: the chunks read so far.
PtySession ==
    [reader : {"none", "read", "store", "tell", "done"}, read : 0 .. MaxChunk,
     alive : BOOLEAN, closed : BOOLEAN, killed : BOOLEAN, mu : SUBSET Viewer,
     ring : [0 .. RingSize - 1 -> 0 .. MaxChunk], ringPos : 0 .. RingSize - 1,
     ringLen : 0 .. RingSize]

NoPty == [reader |-> "none", read |-> 0, alive |-> FALSE, closed |-> FALSE, killed |-> FALSE,
          mu |-> {}, ring |-> [i \in 0 .. RingSize - 1 |-> 0], ringPos |-> 0, ringLen |-> 0]

EndedPty == [NoPty EXCEPT !.reader = "done"]

\* pc is where the handler is, held the chunk the pump is writing, 0 for the exit
\* notice.  History only: shown, the length of the replay, the first chunk owed
\* and the chunks that found the channel full.
NoViewer == [pc |-> "off"]

ViewerAt ==
    [pc : {"open", "replay", "read", "input", "pong", "leave", "gone"}, at : Pty,
     connected : BOOLEAN, live : Seq(Chunk), pump : {"off", "wait", "write"},
     held : 0 .. MaxChunk, replay : Seq(Chunk), shown : Seq(Chunk),
     replayed : 0 .. RingSize, since : 1 .. MaxChunk + 1, missed : SUBSET Chunk]

Opened(s) == [pc |-> "open", at |-> s, connected |-> TRUE, live |-> <<>>, pump |-> "off",
              held |-> 0, replay |-> <<>>, shown |-> <<>>, replayed |-> 0, since |-> 1,
              missed |-> {}]

TerminalTypeOK ==
    /\ ptys \subseteq Pty
    /\ pty \in [Pty -> PtySession]
    /\ viewer \in [Viewer -> ViewerAt \cup {NoViewer}]

TerminalInit ==
    /\ ptys = {}
    /\ pty = [s \in Pty |-> NoPty]
    /\ viewer = [v \in Viewer |-> NoViewer]

\* --- the manager ---

\* PTYManager.Spawn counts, starts the process and enters it under one lock.
SpawnPTY(s) ==
    /\ pty[s] = NoPty
    /\ Cardinality(ptys) < MaxPTY
    /\ ptys' = ptys \cup {s}
    /\ pty' = [pty EXCEPT ![s].reader = "read", ![s].alive = TRUE]
    /\ UNCHANGED viewer

\* Kill forgets the session first and closes it once its lock is free.
KillPTY(s) ==
    /\ s \in ptys
    /\ ptys' = ptys \ {s}
    /\ pty' = [pty EXCEPT ![s].killed = TRUE]
    /\ UNCHANGED viewer

ClosePTY(s) ==
    /\ pty[s].killed
    /\ pty[s].mu = {}
    /\ ~pty[s].closed
    /\ pty' = [pty EXCEPT ![s].closed = TRUE]
    /\ UNCHANGED <<ptys, viewer>>

\* By itself, at the end of its TTL or because the session was closed.
ProcessExits(s) ==
    /\ pty[s].alive
    /\ pty' = [pty EXCEPT ![s].alive = FALSE]
    /\ UNCHANGED <<ptys, viewer>>

\* The goroutine that waits for the process.
ForgetPTY(s) ==
    /\ s \in ptys
    /\ ~pty[s].alive
    /\ ptys' = ptys \ {s}
    /\ UNCHANGED <<pty, viewer>>

\* --- the reader ---

\* What the process wrote before it exited may still be read.
ReadChunk(s) ==
    /\ pty[s].reader = "read"
    /\ ~pty[s].closed
    /\ pty[s].read < Output[s]
    /\ pty' = [pty EXCEPT ![s].reader = "store", ![s].read = @ + 1]
    /\ UNCHANGED <<ptys, viewer>>

StoreChunk(s) ==
    /\ pty[s].reader = "store"
    /\ pty[s].mu = {}
    /\ pty' = [pty EXCEPT ![s].reader = "tell",
                          ![s].ring[pty[s].ringPos] = pty[s].read,
                          ![s].ringPos = (@ + 1) % RingSize,
                          ![s].ringLen = IF @ < RingSize THEN @ + 1 ELSE @]
    /\ UNCHANGED <<ptys, viewer>>

Subscribed(v) == viewer[v].pc \in {"replay", "read", "input", "pong", "leave"}

Subscribers(s) == {v \in Viewer : Subscribed(v) /\ viewer[v].at = s}

\* A subscriber whose channel is full loses the chunk.
Offer(w, c) ==
    IF Len(w.live) < ChanSize THEN [w EXCEPT !.live = Append(@, c)]
    ELSE [w EXCEPT !.missed = @ \cup {c}]

TellChunk(s) ==
    /\ pty[s].reader = "tell"
    /\ viewer' = [v \in Viewer |->
                    IF v \in Subscribers(s) THEN Offer(viewer[v], pty[s].read) ELSE viewer[v]]
    /\ pty' = [pty EXCEPT ![s].reader = "read"]
    /\ UNCHANGED ptys

ReaderStops(s) ==
    /\ pty[s].reader = "read"
    /\ pty[s].closed \/ ~pty[s].alive
    /\ pty' = [pty EXCEPT ![s].reader = "done"]
    /\ UNCHANGED <<ptys, viewer>>

\* --- a browser's handler ---

Connect(v, s) ==
    /\ viewer[v] = NoViewer
    /\ s \in ptys
    /\ viewer' = [viewer EXCEPT ![v] = Opened(s)]
    /\ UNCHANGED <<ptys, pty>>

\* A bug that copies a ring that has wrapped from its first byte.
MutSnapshot(s) == [i \in 1 .. pty[s].ringLen |-> pty[s].ring[i - 1]]

\* The ring from its oldest chunk.
Snapshot(s) ==
    LET p == pty[s] IN
    [i \in 1 .. p.ringLen |->
        IF p.ringLen < RingSize THEN p.ring[i - 1] ELSE p.ring[(p.ringPos + i - 1) % RingSize]]

\* Chunks that subscribers have been told of.
Told(s) == IF pty[s].reader \in {"store", "tell"} THEN pty[s].read - 1 ELSE pty[s].read

\* Both locks: no chunk is told in between, but one may be stored and not yet told.
Subscribe(v) ==
    LET s == viewer[v].at
        p == pty[s] IN
    /\ viewer[v].pc = "open"
    /\ p.mu = {}
    /\ viewer' = [viewer EXCEPT
            ![v].pc = "replay", ![v].replay = Snapshot(s), ![v].replayed = p.ringLen,
            ![v].since = 1 + (IF p.reader = "store" THEN p.read - 1 ELSE p.read) - p.ringLen]
    /\ UNCHANGED <<ptys, pty>>

\* The pump starts when the replay is sent; when that fails the handler unsubscribes.
SendReplay(v) ==
    /\ viewer[v].pc = "replay"
    /\ viewer' = [viewer EXCEPT ![v].pc = "read", ![v].pump = "wait",
                                ![v].shown = viewer[v].replay, ![v].replay = <<>>]
    /\ UNCHANGED <<ptys, pty>>

\* PTYSession.Write holds the session's lock until the process has room for the
\* input; a session that is closed refuses it.
TakeInput(v) ==
    LET s == viewer[v].at IN
    /\ viewer[v].pc = "read"
    /\ viewer[v].connected
    /\ pty[s].mu = {}
    /\ ~pty[s].closed
    /\ viewer' = [viewer EXCEPT ![v].pc = "input"]
    /\ pty' = [pty EXCEPT ![s].mu = {v}]
    /\ UNCHANGED ptys

InputTaken(v) ==
    /\ viewer[v].pc = "input"
    /\ viewer' = [viewer EXCEPT ![v].pc = "read"]
    /\ pty' = [pty EXCEPT ![viewer[v].at].mu = {}]
    /\ UNCHANGED ptys

\* The answer to a ping is written by the handler.  The connection takes one
\* writer: a second one panics, and a panic here ends the handler only.
Pong(v) ==
    /\ viewer[v].pc = "read"
    /\ viewer[v].connected
    /\ viewer' = IF viewer[v].pump = "write"
                 THEN [viewer EXCEPT ![v].pc = "gone", ![v].connected = FALSE]
                 ELSE [viewer EXCEPT ![v].pc = "pong"]
    /\ UNCHANGED <<ptys, pty>>

PongSent(v) ==
    /\ viewer[v].pc = "pong"
    /\ viewer' = [viewer EXCEPT ![v].pc = "read"]
    /\ UNCHANGED <<ptys, pty>>

Disconnect(v) ==
    /\ viewer[v].pc \in {"open", "replay", "read", "input", "pong", "leave"}
    /\ viewer[v].connected
    /\ viewer' = [viewer EXCEPT ![v].connected = FALSE]
    /\ UNCHANGED <<ptys, pty>>

\* Neither the upgrade nor the replay reaches a browser that is gone.
FailReplay(v) ==
    /\ \/ viewer[v].pc = "open"
       \/ viewer[v].pc = "replay" /\ viewer[v].replay # <<>>
    /\ ~viewer[v].connected
    /\ viewer' = [viewer EXCEPT ![v] = NoViewer]
    /\ UNCHANGED <<ptys, pty>>

\* The read fails, and the handler waits for the pump before it unsubscribes.
StopReading(v) ==
    /\ viewer[v].pc = "read"
    /\ ~viewer[v].connected
    /\ viewer' = [viewer EXCEPT ![v].pc = "leave"]
    /\ UNCHANGED <<ptys, pty>>

LeavePTY(v) ==
    /\ viewer[v].pc \in {"leave", "gone"}
    /\ viewer[v].pump = "off"
    /\ viewer' = [viewer EXCEPT ![v] = NoViewer]
    /\ UNCHANGED <<ptys, pty>>

\* --- a browser's pump ---

\* The select: a chunk, or the end of the reader, of the subscription.  A pump that
\* panics because the handler is writing takes the relay down, and the terminals.
PumpTakes(v) ==
    LET w == viewer[v]
        over == pty[w.at].reader = "done" \/ w.pc = "gone" IN
    /\ w.pc # "off"
    /\ w.pump = "wait"
    /\ \E c \in (IF w.live = <<>> THEN {} ELSE {Head(w.live)}) \cup (IF over THEN {0} ELSE {}) :
        IF w.pc = "pong"
        THEN /\ ptys' = {}
             /\ pty' = [s \in Pty |-> IF pty[s] = NoPty THEN NoPty ELSE EndedPty]
             /\ viewer' = [u \in Viewer |-> NoViewer]
        ELSE /\ viewer' = [viewer EXCEPT ![v] =
                    [w EXCEPT !.pump = "write", !.held = c,
                              !.live = IF c = 0 THEN @ ELSE Tail(@)]]
             /\ UNCHANGED <<ptys, pty>>

PumpWrites(v) ==
    LET w == viewer[v] IN
    /\ w.pc # "off"
    /\ w.pump = "write"
    /\ \/ /\ w.pc # "gone"
          /\ viewer' = [viewer EXCEPT ![v] =
                IF w.held = 0 THEN [w EXCEPT !.pump = "off"]
                ELSE [w EXCEPT !.pump = "wait", !.held = 0, !.shown = Append(@, w.held)]]
       \/ /\ ~w.connected
          /\ viewer' = [viewer EXCEPT ![v] = [w EXCEPT !.pump = "off", !.held = 0]]
    /\ UNCHANGED <<ptys, pty>>

TerminalNext ==
    \/ \E s \in Pty : \/ SpawnPTY(s) \/ KillPTY(s) \/ ClosePTY(s) \/ ProcessExits(s)
                      \/ ForgetPTY(s) \/ ReadChunk(s) \/ StoreChunk(s) \/ TellChunk(s)
                      \/ ReaderStops(s)
    \/ \E v \in Viewer : \/ \E s \in Pty : Connect(v, s)
                         \/ Subscribe(v) \/ SendReplay(v) \/ TakeInput(v) \/ InputTaken(v)
                         \/ Pong(v) \/ PongSent(v) \/ Disconnect(v) \/ FailReplay(v) \/ StopReading(v)
                         \/ LeavePTY(v) \/ PumpTakes(v) \/ PumpWrites(v)

\* --- what viewers see ---

\* The pump has taken the end rather than a chunk, or could not write: it writes no more.
Over(w) ==
    \/ w.pump = "write" /\ w.held = 0
    \/ w.pump = "off" /\ w.pc \notin {"open", "replay"}

\* All that v has been or will be shown, in order,
ShownTo(v) ==
    LET w == viewer[v] IN
    w.shown \o w.replay \o (IF w.held = 0 THEN <<>> ELSE <<w.held>>)
            \o (IF Over(w) THEN <<>> ELSE w.live)

\* and what was told to it and stays in its channel for good.
NeverShown(v) == IF Over(viewer[v]) THEN viewer[v].live ELSE <<>>

\* A viewer gets the output in the order it was written, from the oldest chunk in
\* the ring on.  None is repeated but the last of the replay, for one who subscribed
\* after it was stored and before it was told.  While it is connected and the session
\* lasts, none is left out but those that found its channel full (Subscribe and
\* startReader, pty.go:71 and 113); when the session ends it may lose the last ones as
\* well, for the pump picks at random between a chunk and the end (ws_terminal.go:116).
OutputInOrder ==
    \A v \in Viewer : Subscribed(v) =>
        LET w == viewer[v]
            told == ShownTo(v) \o NeverShown(v) IN
        /\ \A i, j \in 1 .. Len(told) :
            i < j => \/ told[i] < told[j]
                     \/ told[i] = told[j] /\ i = w.replayed /\ j = i + 1
        /\ w.connected =>
            /\ \A c \in w.since .. Told(w.at) :
                  c \in w.missed \cup {told[i] : i \in 1 .. Len(told)}
            /\ NeverShown(v) # <<>> => pty[w.at].reader = "done"
==============================================================================
