------------------------------ MODULE Directory ------------------------------
(***************************************************************************)
(* The agents of one project, their teams and reporting lines, and who may *)
(* message whom (internal/db/agents.go, orgs.go, elevations.go, and the    *)
(* register, agent, team, elevation and send handlers).                    *)
(*                                                                         *)
(* Registering an executive reads the leadership team, creates it when it  *)
(* is missing and joins it, in three statements.  The permission check of  *)
(* a message is a query for each rule, one after the other, while other    *)
(* calls change what the rules look at.                                    *)
(***************************************************************************)
EXTENDS Naturals, Sequences

CONSTANTS
    Agent, Team,
    Leadership,     \* the team the code creates by itself
    Sender,         \* bound: agents that send
    Retiring,       \* bound: agents that are put to sleep, deactivated, deleted
    Boss,           \* bound: Boss[a] are the agents a may report to
    MaxElevations   \* bound: elevations of an agent active at once

ASSUME DirectoryAssumption ==
    /\ Leadership \in Team
    /\ Sender \subseteq Agent
    /\ Retiring \subseteq Agent
    /\ Boss \in [Agent -> SUBSET Agent]
    /\ MaxElevations \in Nat

VARIABLES
    agent,      \* agent[a]: status and reports_to of the row, if there is one
    team,       \* team[t]: the type of the row of t
    member,     \* member[t][a]: the row of team_members
    channel,    \* agent_notify_channels
    elevation,  \* elevation[a]: the roles of its active elevations, newest first
    desk,       \* desk[a]: where the call of a is
    sent,       \* sent[a]: the recipients of the last message of a
    lead,       \* history only: lead[a] says whether a is "owed" a seat in leadership
                \* since it registered as executive, or "excused": it was removed, or
                \* the call stopped, failed or crossed another before it had a seat
    held, seen  \* history only: the rules, or the members of the group, that held all
                \* along, and could be read, and that held at some time since the call
                \* of a began

directoryVars ==
    <<agent, team, member, channel, elevation, desk, sent, lead, held, seen>>

Rules == <<"admin", "team", "reports", "notify", "elevated">>

Everyone == "*"

Nobody == "none"

AtRest == [pc |-> "idle"]

Registering == [pc : {"find", "create", "join"}]

\* at is the rule being looked up; blind, history only, says that the last query failed.
Sending == [pc : {"teams", "rule", "insert", "resolve"}, to : Agent \cup Team \cup {Everyone},
            at : 1 .. Len(Rules), blind : BOOLEAN]

DirectoryInit ==
    /\ agent = [a \in Agent |-> [status |-> "none", boss |-> Nobody]]
    /\ team = [t \in Team |-> "none"]
    /\ member = [t \in Team |-> [a \in Agent |-> "none"]]
    /\ channel = {}
    /\ elevation = [a \in Agent |-> <<>>]
    /\ desk = [a \in Agent |-> AtRest]
    /\ sent = [a \in Agent |-> {}]
    /\ lead = [a \in Agent |-> "no"]
    /\ held = [a \in Agent |-> {}]
    /\ seen = [a \in Agent |-> {}]

Teams == {t \in Team : team[t] # "none"}

HasTeams == Teams # {}

\* GetTeamMemberNames
MembersOf(t) == {a \in Agent : member[t][a] = "in"}

\* GetActiveElevation: only the newest counts.
Elevated(a) == elevation[a] # <<>> /\ Head(elevation[a]) = "admin"

\* GetNotifyChannels
ChannelsOf(a) == {b \in Agent : <<a, b>> \in channel}

\* ListAgents
Listed == {a \in Agent : agent[a].status \in {"active", "sleeping", "inactive"}}

\* CanMessage, rule by rule; a broadcast is for admins only.
Holds(rule, a, b) ==
    CASE rule = "admin" -> \E t \in Teams : team[t] = "admin" /\ a \in MembersOf(t)
      [] rule = "team" -> \E t \in Teams : {a, b} \subseteq MembersOf(t)
      [] rule = "reports" -> agent[a].boss = b \/ agent[b].boss = a
      [] rule = "notify" -> b \in ChannelsOf(a)
      [] rule = "elevated" -> Elevated(a)

RulesFor(b) == IF b = Everyone THEN {"admin"} ELSE {Rules[i] : i \in 1 .. Len(Rules)}

Goes(a, d) == desk' = [desk EXCEPT ![a] = d]

\* --- agents ---

\* A row, new or old, that is active.
RegisterAgent(a, b) == agent' = [agent EXCEPT ![a] = [status |-> "active", boss |-> b]]

\* Executives go on.
HandleRegisterAgent(a) ==
    /\ desk[a] = AtRest
    /\ \E b \in Boss[a] \cup {Nobody}, executive \in BOOLEAN :
        /\ RegisterAgent(a, b)
        /\ Goes(a, IF executive THEN [pc |-> "find"] ELSE AtRest)
        /\ lead' = [lead EXCEPT ![a] = IF executive THEN "owed" ELSE "no"]
    /\ UNCHANGED <<team, member, channel, elevation, sent>>

FindLeadership(a) ==
    /\ desk[a].pc = "find"
    /\ Goes(a, [pc |-> IF Leadership \in Teams THEN "join" ELSE "create"])
    /\ UNCHANGED <<agent, team, member, channel, elevation, sent, lead>>

\* A bug that forgets to add the executive that creates the team.
MutCreateLeadership(a) ==
    /\ desk[a].pc = "create"
    /\ IF Leadership \in Teams
       THEN lead' = [lead EXCEPT ![a] = "excused"] /\ UNCHANGED team
       ELSE team' = [team EXCEPT ![Leadership] = "admin"] /\ UNCHANGED lead
    /\ Goes(a, AtRest)
    /\ UNCHANGED <<agent, member, channel, elevation, sent>>

\* The second of two executives has nothing to join: the slug is taken, and what
\* CreateTeam returned is nil.
CreateLeadership(a) ==
    /\ desk[a].pc = "create"
    /\ \/ /\ Leadership \notin Teams
          /\ team' = [team EXCEPT ![Leadership] = "admin"]
          /\ Goes(a, [pc |-> "join"])
          /\ UNCHANGED lead
       \/ /\ Leadership \in Teams
          /\ Goes(a, AtRest)
          /\ lead' = [lead EXCEPT ![a] = "excused"]
          /\ UNCHANGED team
    /\ UNCHANGED <<agent, member, channel, elevation, sent>>

JoinLeadership(a) ==
    /\ desk[a].pc = "join"
    /\ member' = [member EXCEPT ![Leadership][a] = "in"]
    /\ Goes(a, AtRest)
    /\ UNCHANGED <<agent, team, channel, elevation, sent, lead>>

\* TouchAgent keeps last_seen young, and only an active agent gets stale.
SetStatus(a, from, to) ==
    /\ agent[a].status \in from
    /\ agent' = [agent EXCEPT ![a].status = to]
    /\ UNCHANGED <<team, member, channel, elevation, desk, sent, lead>>

SleepAgent(a) == SetStatus(a, {"active"}, "sleeping")

DeactivateAgent(a) == SetStatus(a, {"active", "sleeping"}, "inactive")

MarkStaleAgentsInactive(a) == SetStatus(a, {"active"}, "inactive")

DeleteAgent(a) == SetStatus(a, {"active", "sleeping", "inactive"}, "deleted")

\* --- teams, channels, elevations ---

CreateTeam(t, type) ==
    /\ t \notin Teams
    /\ team' = [team EXCEPT ![t] = type]
    /\ UNCHANGED <<agent, member, channel, elevation, desk, sent, lead>>

\* INSERT OR REPLACE: a member that had left is in again.
AddTeamMember(t, a) ==
    /\ t \in Teams
    /\ member[t][a] # "in"
    /\ member' = [member EXCEPT ![t][a] = "in"]
    /\ UNCHANGED <<agent, team, channel, elevation, desk, sent, lead>>

RemoveTeamMember(t, a) ==
    /\ t \in Teams
    /\ member[t][a] = "in"
    /\ member' = [member EXCEPT ![t][a] = "left"]
    /\ lead' = [lead EXCEPT ![a] = IF t = Leadership /\ @ = "owed" THEN "excused" ELSE @]
    /\ UNCHANGED <<agent, team, channel, elevation, desk, sent>>

AddNotifyChannel(a, b) ==
    /\ channel' = channel \cup {<<a, b>>}
    /\ UNCHANGED <<agent, team, member, elevation, desk, sent, lead>>

GrantElevation(a, role) ==
    /\ Len(elevation[a]) < MaxElevations
    /\ elevation' = [elevation EXCEPT ![a] = <<role>> \o @]
    /\ UNCHANGED <<agent, team, member, channel, desk, sent, lead>>

\* Any of them may be revoked or run out: each has its own duration.
EndElevation(a, i) ==
    /\ elevation' = [elevation EXCEPT ![a] = SubSeq(@, 1, i - 1) \o SubSeq(@, i + 1, Len(@))]
    /\ UNCHANGED <<agent, team, member, channel, desk, sent, lead>>

\* --- send_message ---

\* To an agent, to everyone, or to a team; only the first two are checked.  The
\* dashboard's user, whom everybody reaches, and conversations are left out.
HandleSendMessage(a, to) ==
    /\ desk[a] = AtRest
    /\ to # a
    /\ Goes(a, [pc |-> "teams", to |-> to, at |-> 1, blind |-> FALSE])
    /\ sent' = [sent EXCEPT ![a] = {}]
    /\ UNCHANGED <<agent, team, member, channel, elevation, lead>>

\* HasTeams, or the lookup of the team that is written to.
CheckTeams(a) ==
    LET d == desk[a] IN
    /\ d.pc = "teams"
    /\ IF d.to \in Team
       THEN Goes(a, IF d.to \in Teams THEN [d EXCEPT !.pc = "insert"] ELSE AtRest)
       ELSE Goes(a, [d EXCEPT !.pc = IF HasTeams THEN "rule" ELSE "insert"])
    /\ UNCHANGED <<agent, team, member, channel, elevation, sent, lead>>

\* The error of HasTeams is dropped: nothing is checked.
HasTeamsFails(a) ==
    /\ desk[a].pc = "teams"
    /\ desk[a].to \notin Team
    /\ Goes(a, [desk[a] EXCEPT !.pc = "insert", !.blind = TRUE])
    /\ UNCHANGED <<agent, team, member, channel, elevation, sent, lead>>

\* A bug that forgets the elevations.
MutCheckRule(a) ==
    LET d == desk[a]
        last == d.to = Everyone \/ d.at = Len(Rules) - 1
    IN
    /\ d.pc = "rule"
    /\ Goes(a, CASE Holds(Rules[d.at], a, d.to) -> [d EXCEPT !.pc = "insert", !.blind = FALSE]
                 [] ~Holds(Rules[d.at], a, d.to) /\ ~last -> [d EXCEPT !.at = @ + 1, !.blind = FALSE]
                 [] OTHER -> AtRest)
    /\ UNCHANGED <<agent, team, member, channel, elevation, sent, lead>>

IsLast(d) == d.to = Everyone \/ d.at = Len(Rules)

\* The next query of CanMessage; the call ends when the last one says no.
CheckRule(a) ==
    LET d == desk[a] IN
    /\ d.pc = "rule"
    /\ Goes(a, CASE Holds(Rules[d.at], a, d.to) -> [d EXCEPT !.pc = "insert", !.blind = FALSE]
                 [] ~Holds(Rules[d.at], a, d.to) /\ ~IsLast(d) -> [d EXCEPT !.at = @ + 1, !.blind = FALSE]
                 [] OTHER -> AtRest)
    /\ UNCHANGED <<agent, team, member, channel, elevation, sent, lead>>

\* Its error is dropped, and the rule is taken not to hold.
LookupFails(a) ==
    LET d == desk[a] IN
    /\ d.pc = "rule"
    /\ Goes(a, IF IsLast(d) THEN AtRest ELSE [d EXCEPT !.at = @ + 1, !.blind = TRUE])
    /\ UNCHANGED <<agent, team, member, channel, elevation, sent, lead>>

InsertChecked(a) ==
    /\ desk[a].pc = "insert"
    /\ Goes(a, [desk[a] EXCEPT !.pc = "resolve", !.blind = FALSE])
    /\ UNCHANGED <<agent, team, member, channel, elevation, sent, lead>>

\* ResolveRecipients, or the members of the team; the sender is left out.
Recipients(a, to) ==
    CASE to = Everyone -> Listed \ {a}
      [] to \in Team -> MembersOf(to) \ {a}
      [] OTHER -> {to}

ResolveRecipients(a) ==
    /\ desk[a].pc = "resolve"
    /\ sent' = [sent EXCEPT ![a] = Recipients(a, desk[a].to)]
    /\ Goes(a, AtRest)
    /\ UNCHANGED <<agent, team, member, channel, elevation, lead>>

\* --- failures ---

\* A statement fails, whose error is dropped or ends the call, or the relay stops.
Stopped(A) ==
    /\ desk' = [a \in Agent |-> IF a \in A THEN AtRest ELSE desk[a]]
    /\ lead' = [a \in Agent |-> IF a \in A /\ desk[a] \in Registering THEN "excused" ELSE lead[a]]
    /\ UNCHANGED <<agent, team, member, channel, elevation, sent>>

CallFails(a) == desk[a] # AtRest /\ Stopped({a})

DirectoryStops == (\E a \in Agent : desk[a] # AtRest) /\ Stopped(Agent)

CallStep(a) ==
    \/ FindLeadership(a) \/ CreateLeadership(a) \/ JoinLeadership(a)
    \/ CheckTeams(a) \/ HasTeamsFails(a) \/ CheckRule(a) \/ LookupFails(a)
    \/ InsertChecked(a) \/ ResolveRecipients(a)

Edit ==
    \/ \E a \in Retiring :
        SleepAgent(a) \/ DeactivateAgent(a) \/ MarkStaleAgentsInactive(a) \/ DeleteAgent(a)
    \/ \E t \in Team, type \in {"regular", "admin"} : CreateTeam(t, type)
    \/ \E t \in Team, a \in Agent : AddTeamMember(t, a) \/ RemoveTeamMember(t, a)
    \/ \E a \in Sender, b \in Agent : a # b /\ AddNotifyChannel(a, b)
    \/ \E a \in Sender : \/ \E role \in {"admin", "lead"} : GrantElevation(a, role)
                         \/ \E i \in 1 .. Len(elevation[a]) : EndElevation(a, i)

DirectoryStep ==
    \/ \E a \in Agent : HandleRegisterAgent(a) \/ CallStep(a) \/ CallFails(a)
    \/ \E a \in Sender, to \in Agent \cup Team \cup {Everyone} : HandleSendMessage(a, to)
    \/ Edit
    \/ DirectoryStops

\* What the sender of a message could have found at this moment.
Findable(a) ==
    LET d == desk[a] IN
    CASE d.pc \in {"teams", "rule"} /\ d.to \notin Team ->
            (IF HasTeams THEN {} ELSE {"no teams"})
                \cup {r \in RulesFor(d.to) : Holds(r, a, d.to)}
      [] d.pc = "resolve" -> Recipients(a, d.to)
      [] OTHER -> {}

\* A watch begins with the call, and anew once the message is in.
Watch(a, joined) ==
    CASE desk'[a].pc \notin {"teams", "rule", "resolve"} -> {}
      [] desk'[a].pc = "teams" \/ (desk[a].pc = "insert" /\ desk'[a].pc = "resolve") -> Findable(a)'
      [] OTHER -> joined

\* Without the rule whose query was the last and failed.
Readable(a) ==
    IF desk[a].pc = "rule" /\ desk[a].blind
    THEN Findable(a) \ {Rules[desk[a].at - 1]} ELSE Findable(a)

DirectoryNext ==
    /\ DirectoryStep
    /\ held' = [a \in Agent |-> Watch(a, held[a] \cap Readable(a)')]
    /\ seen' = [a \in Agent |-> Watch(a, seen[a] \cup Findable(a)')]

\* --- properties ---

DirectoryTypeOK ==
    /\ agent \in [Agent -> [status : {"none", "active", "sleeping", "inactive", "deleted"},
                            boss : Agent \cup {Nobody}]]
    /\ team \in [Team -> {"none", "regular", "admin"}]
    /\ member \in [Team -> [Agent -> {"none", "in", "left"}]]
    /\ channel \subseteq Agent \X Agent
    /\ \A a \in Agent : /\ elevation[a] \in Seq({"admin", "lead"})
                        /\ Len(elevation[a]) <= MaxElevations
    /\ desk \in [Agent -> {AtRest} \cup Registering \cup Sending]
    /\ sent \in [Agent -> SUBSET Agent]
    /\ lead \in [Agent -> {"no", "owed", "excused"}]

\* An executive that has registered sits in the leadership team, which is what
\* lets it broadcast, until somebody takes it out; or another executive created
\* the team while it was about to, or its call failed or was cut off.
ExecutivesLead ==
    \A a \in Agent : lead[a] = "owed" /\ desk[a] \notin Registering => a \in MembersOf(Leadership)

\* A message is judged fairly although each rule is looked up in a query of its
\* own: it is refused only when no rule allowed it all along, but for those whose
\* query failed, and let through only when some rule, or the absence of teams, allowed
\* it at some time since the call began, or HasTeams failed: then nothing is checked
\* (handlers.go:275 and 319).  Whoever belonged to those it is for from its insertion
\* until they were read gets it, and whoever did not belong to them in between does
\* not.
SendFair ==
    [][\A a \in Sender :
         /\ CheckRule(a) /\ desk'[a] = AtRest => held[a] = {}
         /\ LookupFails(a) /\ desk'[a] = AtRest => held[a] \subseteq {Rules[desk[a].at]}
         /\ /\ desk[a].pc \in {"teams", "rule"} /\ desk[a].to \notin Team
            /\ desk'[a].pc = "insert" /\ ~desk'[a].blind
            => seen[a] # {}
         /\ ResolveRecipients(a) => held[a] \subseteq sent'[a] /\ sent'[a] \subseteq seen[a]
      ]_directoryVars

DirectorySpec == DirectoryInit /\ [][DirectoryNext]_directoryVars
==============================================================================
