------------------------------ MODULE Memories ------------------------------
(***************************************************************************)
(* The versioned memories of one key: set, resolve, delete, and the        *)
(* queries that read them (internal/db/memories.go, the memory handlers of *)
(* internal/relay/handlers.go and api.go).                                 *)
(*                                                                         *)
(* Keys never meet, so one is enough.  set_memory reads the current        *)
(* version, archives it and inserts the next one in three statements, and  *)
(* resolve_conflict reads outside the transaction it then writes in; the   *)
(* calls of several agents interleave between any two of them.             *)
(***************************************************************************)
EXTENDS Naturals, Sequences

CONSTANTS
    Writer,     \* agents calling the MCP tools
    Dashboard,  \* users of the REST API
    Home,       \* the project each of them works in
    Uses,       \* bound: the scopes each of them writes to
    Value,
    Layer,
    MaxVersions \* bound: versions ever stored

Caller == Writer \cup Dashboard

Scope == {"agent", "project", "global"}

NotGiven == ""   \* of a scope or name that is not given

ASSUME MemoryAssumption ==
    /\ MaxVersions \in Nat
    /\ NotGiven \notin Caller
    /\ Writer \cap Dashboard = {}
    /\ DOMAIN Home = Caller
    /\ Uses \in [Caller -> SUBSET Scope]

VARIABLES
    mem,    \* the rows of table memories, in order of insertion
    call,   \* call[a]: where the call of a is
    gone    \* history only: places whose last version was removed on purpose,
            \* by a call that stopped halfway or by a resolution that crossed
            \* another call

memoryVars == <<mem, call, gone>>

Row == [scope : Scope, agent : Caller, value : Value, layer : Layer,
        version : 1 .. MaxVersions, conflict : BOOLEAN, archived : BOOLEAN]

Idle == [pc |-> "idle"]

Setting == [pc : {"archive", "insert"}, scope : Scope, value : Value,
            layer : Layer, on : 0 .. MaxVersions, conflict : BOOLEAN]

Resolving == [pc : {"resolve"}, scope : Scope, value : Value, top : 1 .. MaxVersions,
              found : SUBSET (1 .. MaxVersions)]

\* A place is where a key is looked up: one for an agent, one for its project,
\* one for everybody.
Place(s, a) ==
    [scope |-> s,
     project |-> IF s = "global" THEN "" ELSE Home[a],
     agent |-> IF s = "agent" THEN a ELSE ""]

Places == {Place(s, a) : s \in Scope, a \in Caller}

\* Rows keep the project and the name of whoever wrote them.
PlaceOf(i) == Place(mem[i].scope, mem[i].agent)

Rows == 1 .. Len(mem)

Active == {i \in Rows : ~mem[i].archived}

ActiveAt(p) == {i \in Active : PlaceOf(i) = p}

\* ORDER BY version DESC; versions may tie.
Newest(S) == {i \in S : \A j \in S : mem[j].version <= mem[i].version}

Oldest(S) == {i \in S : \A j \in S : mem[i].version <= mem[j].version}

MemoryInit ==
    /\ mem = <<>>
    /\ call = [a \in Caller |-> Idle]
    /\ gone = {}

Goto(a, c) == call' = [call EXCEPT ![a] = c]

Done(a) == Goto(a, Idle)

Archive(S) ==
    [i \in Rows |-> IF i \in S THEN [mem[i] EXCEPT !.archived = TRUE] ELSE mem[i]]

\* --- set_memory ---

\* The read that decides which of the branches the call will take.  For the same
\* value only the timestamp, tags and confidence are written: a step of nothing.
SetMemory(a, s, v, l, upsert) ==
    /\ call[a] = Idle
    /\ Len(mem) < MaxVersions
    /\ LET found == Newest(ActiveAt(Place(s, a)))
           Set(pc, i, flag) == [pc |-> pc, scope |-> s, value |-> v, layer |-> l,
                                on |-> i, conflict |-> flag]
       IN \/ found = {} /\ Goto(a, Set("insert", 0, FALSE))
          \/ \E i \in found :
                /\ mem[i].value # v
                /\ Goto(a, Set(IF upsert THEN "archive" ELSE "insert", i, ~upsert))
    /\ UNCHANGED <<mem, gone>>

HandleSetMemory(a) ==
    \E s \in Uses[a], v \in Value, l \in Layer, upsert \in BOOLEAN :
        SetMemory(a, s, v, l, upsert)

ApiPostMemory(a) ==
    \E s \in Uses[a], v \in Value, l \in Layer : SetMemory(a, s, v, l, TRUE)

ArchiveOld(a) ==
    /\ call[a].pc = "archive"
    /\ mem' = Archive({call[a].on})
    /\ Goto(a, [call[a] EXCEPT !.pc = "insert"])
    /\ UNCHANGED gone

\* A bug that numbers the first version 0.
MutInsertMemory(a) ==
    LET c == call[a] IN
    /\ c.pc = "insert"
    /\ Len(mem) < MaxVersions
    /\ mem' = Append(mem,
         [scope |-> c.scope, agent |-> a, value |-> c.value, layer |-> c.layer,
          version |-> IF c.on = 0 THEN 0 ELSE mem[c.on].version + 1,
          conflict |-> c.conflict, archived |-> FALSE])
    /\ Done(a)
    /\ UNCHANGED gone

InsertMemory(a) ==
    LET c == call[a] IN
    /\ c.pc = "insert"
    /\ Len(mem) < MaxVersions
    /\ mem' = Append(mem,
         [scope |-> c.scope, agent |-> a, value |-> c.value, layer |-> c.layer,
          version |-> IF c.on = 0 THEN 1 ELSE mem[c.on].version + 1,
          conflict |-> c.conflict, archived |-> FALSE])
    /\ gone' = gone \ {Place(c.scope, a)}
    /\ Done(a)

\* --- resolve_conflict ---

ResolveConflict(a, s, v) ==
    /\ call[a] = Idle
    /\ LET found == ActiveAt(Place(s, a)) IN
       \E top \in Newest(found) :
           Goto(a, [pc |-> "resolve", scope |-> s, value |-> v, top |-> top, found |-> found])
    /\ UNCHANGED <<mem, gone>>

\* A bug that archives only the losers that were flagged.
MutCommitResolution(a) ==
    LET c == call[a]
        winners == {i \in c.found : mem[i].value = c.value}
        archived == Archive({i \in c.found \ winners : mem[i].conflict})
    IN
    /\ c.pc = "resolve"
    /\ winners # {}
    /\ \E w \in Oldest(winners) : mem' = [archived EXCEPT ![w].conflict = FALSE]
    /\ Done(a)
    /\ UNCHANGED gone

\* A bug that archives the winner with the losers.
MutArchiveAll(a) ==
    LET c == call[a] IN
    /\ c.pc = "resolve"
    /\ mem' = Archive(c.found)
    /\ Done(a)
    /\ UNCHANGED gone

\* The one transaction: losers out, and the last match kept or a new row.
CommitResolution(a) ==
    LET c == call[a]
        winners == {i \in c.found : mem[i].value = c.value}
        losers == c.found \ winners
        archived == Archive(losers)
        p == Place(c.scope, a)
    IN
    /\ c.pc = "resolve"
    /\ \/ /\ winners # {}
          /\ \E w \in Oldest(winners) : mem' = [archived EXCEPT ![w].conflict = FALSE]
       \/ /\ winners = {}
          /\ Len(mem) < MaxVersions
          /\ mem' = Append(archived,
               [scope |-> c.scope, agent |-> a, value |-> c.value,
                layer |-> mem[c.top].layer, version |-> mem[c.top].version + 1,
                conflict |-> FALSE, archived |-> FALSE])
    /\ gone' = IF winners # {} /\ ActiveAt(p) # c.found THEN gone \cup {p} ELSE gone
    /\ Done(a)

\* --- delete_memory, and the dashboard's delete by id ---

Delete(S) ==
    /\ S # {}
    /\ mem' = Archive(S)
    /\ gone' = gone \cup {PlaceOf(i) : i \in S}
    /\ UNCHANGED call

DeleteMemory(a, s) == call[a] = Idle /\ Delete(ActiveAt(Place(s, a)))

DeleteMemoryByID(i) == i \in Active /\ Delete({i})

\* --- failures ---

\* The statement a call is about to run fails, or its relay stops: the client
\* gets an error and what was written stays.
Abandon(A) ==
    /\ gone' = gone \cup {Place(call[a].scope, a) : a \in {b \in A : call[b].pc = "insert"}}
    /\ call' = [a \in Caller |-> IF a \in A THEN Idle ELSE call[a]]
    /\ UNCHANGED mem

StatementFails(a) == call[a] # Idle /\ Abandon({a})

RelayStops == (\E a \in Caller : call[a] # Idle) /\ Abandon(Caller)

MemoryStep(a) ==
    ArchiveOld(a) \/ InsertMemory(a) \/ CommitResolution(a)

MemoryNext ==
    \/ \E a \in Writer : HandleSetMemory(a) \/ \E s \in Uses[a] : DeleteMemory(a, s)
    \/ \E a \in Dashboard : ApiPostMemory(a)
    \/ \E a \in Caller :
        \/ MemoryStep(a)
        \/ StatementFails(a)
        \/ \E s \in Uses[a], v \in Value : ResolveConflict(a, s, v)
    \/ \E i \in Rows : DeleteMemoryByID(i)
    \/ RelayStops

\* --- the queries ---

\* What each of them matches; how many rows of it are returned (LIMIT) is left out.
GetMemoryAtScope(a, s) == ActiveAt(Place(s, a))

\* get_memory without a scope: the narrowest that has a version.
GetMemory(a) ==
    LET has == {s \in Scope : GetMemoryAtScope(a, s) # {}} IN
    CASE "agent" \in has -> GetMemoryAtScope(a, "agent")
      [] "agent" \notin has /\ "project" \in has -> GetMemoryAtScope(a, "project")
      [] OTHER -> GetMemoryAtScope(a, "global")

Global(i) == mem[i].scope = "global"

\* scope 'project' also finds what the project's agents keep for themselves.
SearchMemory(a, s) ==
    {i \in Active :
        CASE s = "agent" -> mem[i].scope = s /\ mem[i].agent = a
          [] s = "project" -> ~Global(i) /\ Home[mem[i].agent] = Home[a]
          [] s = "global" -> Global(i)}

SearchEverywhere(a) ==
    {i \in Active : \/ Global(i)
                    \/ Home[mem[i].agent] = Home[a] /\ mem[i].scope = "project"
                    \/ mem[i].agent = a /\ mem[i].scope = "agent"}

\* Scope and name may be left open; the tool, unlike the dashboard, then takes the
\* caller's name for scope 'agent', and for no other.
\* Filters are on the columns of the row, so a global memory is listed under
\* the project it was written from.
ListMemories(a, s, name) ==
    LET agentFilter == IF a \in Writer /\ s = "agent" /\ name = NotGiven THEN a ELSE name IN
    {i \in Active : /\ Home[mem[i].agent] = Home[a]
                    /\ s \in {NotGiven, mem[i].scope}
                    /\ agentFilter \in {NotGiven, mem[i].agent}}

\* --- properties ---

MemoryTypeOK ==
    /\ mem \in Seq(Row)
    /\ Len(mem) <= MaxVersions
    /\ call \in [Caller -> {Idle} \cup Setting \cup Resolving]
    /\ gone \subseteq Places

\* Wherever a key was ever stored it still has a current version, or a writer
\* is between archiving the old and inserting the new one, or it was taken away:
\* deleted, left by a writer that stopped halfway, or resolved from a list that
\* another call had changed since it was read.  And whoever may look a current
\* version up finds it by every way of asking: what get_memory answers a search
\* finds, a search over one scope finds what the lookup there does, list_memories
\* over one scope shows its caller nothing that a search would not find, and a list of
\* no scope and no name, the default, has all of the project that a search finds.
KeyKept ==
    /\ \A p \in Places :
        (\E i \in Rows : PlaceOf(i) = p) /\ ActiveAt(p) = {}
            => \/ p \in gone
               \/ \E a \in Caller : /\ call[a].pc = "insert"
                                    /\ Place(call[a].scope, a) = p
    /\ \A a \in Caller :
        /\ GetMemory(a) \subseteq SearchEverywhere(a)
        /\ \A s \in Scope :
            /\ GetMemoryAtScope(a, s) \subseteq SearchMemory(a, s)
            /\ a \in Writer => ListMemories(a, s, NotGiven) \subseteq SearchEverywhere(a)
        /\ {i \in SearchEverywhere(a) : Home[mem[i].agent] = Home[a]}
             \subseteq ListMemories(a, NotGiven, NotGiven)

\* A resolution that nobody crossed leaves the chosen value and no other, for
\* everyone who looks the key up there.
ResolutionSettles ==
    [][\A a \in Caller, p \in Places :
         /\ call[a].pc = "resolve"
         /\ CommitResolution(a)
         /\ p = Place(call[a].scope, a)
         /\ ActiveAt(p) = call[a].found
         => /\ ActiveAt(p)' # {}
            /\ \A i \in ActiveAt(p)' : mem'[i].value = call[a].value
      ]_memoryVars

MemorySpec == MemoryInit /\ [][MemoryNext]_memoryVars
==============================================================================
