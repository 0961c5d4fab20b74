------------------------------ MODULE Profiles -------------------------------
(***************************************************************************)
(* Profiles, the skills they are linked to and the agents that run them    *)
(* (internal/db/profiles.go, skills.go, and their handlers in              *)
(* internal/relay/handlers.go, api.go and api_spawn.go).                   *)
(*                                                                         *)
(* register_profile reads the row of a slug and then inserts one or writes *)
(* every column back; a delete first looks for agents; a skill is created, *)
(* looked up and linked in steps of its own.  A profile that is deleted    *)
(* and registered again has another id, and links are between ids: an id   *)
(* that is gone finds no row any more.                                     *)
(***************************************************************************)
EXTENDS Edits, Naturals, Sequences

CONSTANTS
    Slug,       \* slugs of profiles
    Skill,      \* names of skills
    Crew,       \* agents
    Clerk,      \* bound: calls open at once
    Pool,       \* values of the columns that a registration may leave as they are
    StandardPool,
    NoSlug      \* profile_slug IS NULL

ASSUME ProfilesAssumption == StandardPool \in Pool /\ NoSlug \notin Slug

VARIABLES
    profile,    \* profile[p]: the row of slug p
    skill,      \* the rows of skills
    link,       \* the rows of profile_skills
    crew,       \* crew[a]: profile_slug and status of agent a
    clerk,      \* clerk[c]: where call c is
    asked,      \* history only: what the last answered registration of a slug was for
    mixed,      \* history only: slugs with two calls at once on them
    unkept      \* history only: agents that registered for a profile which was not there,
                \* or which a delete had already found without agents

profileVars == <<profile, skill, link, crew, clerk, asked, mixed, unkept>>

Proficiency == <<"expert", "capable", "learning">>

Rank == DOMAIN Proficiency

NoProfile == [there |-> FALSE, skills |-> {}, pool |-> StandardPool]

\* skills stands for the columns every registration replaces, pool for the others.
ProfileRow == {NoProfile} \cup [there : {TRUE}, skills : SUBSET Skill, pool : Pool]

Registration == [skills : SUBSET Skill] \cup [skills : SUBSET Skill, pool : Pool]

Link == [slug : Slug, skill : Skill, rank : Rank]

Gone == "gone"

OffDuty == [pc |-> "idle"]

Recording == [pc : {"insert", "update"}, slug : Slug, ask : Registration, new : ProfileRow]

Removing == [pc : {"users", "delete"}, slug : Slug]

Teaching == [pc : {"learn", "profile"}, skill : Skill \cup {Gone}, slug : Slug, rank : Rank]
            \cup [pc : {"link"}, skill : Skill \cup {Gone}, slug : Slug \cup {Gone}, rank : Rank]

Forgetting == [pc : {"unlink", "drop"}, skill : Skill \cup {Gone}]

ProfilesInit ==
    /\ profile = [p \in Slug |-> NoProfile]
    /\ skill = {} /\ link = {}
    /\ crew = [a \in Crew |-> [slug |-> NoSlug, active |-> FALSE]]
    /\ clerk = [c \in Clerk |-> OffDuty]
    /\ asked = [p \in Slug |-> <<>>]
    /\ mixed = {} /\ unkept = {}

Turns(c, d) == clerk' = [clerk EXCEPT ![c] = d]

ListProfiles == {p \in Slug : profile[p].there}

GetAgentsByProfile(p) == {a \in Crew : crew[a].slug = p /\ crew[a].active}

-----------------------------------------------------------------------------
(***************************************************************************)
(* register_profile, also over REST, to create as well as to update, and   *)
(* the "human" profile that dispatch_task registers.                       *)
(***************************************************************************)

Meets(c, p) ==
    \E d \in Clerk \ {c} : clerk[d].pc \in {"insert", "update", "delete"} /\ clerk[d].slug = p

\* The row is read: the options that are not given stay, or get their default.
RegisterProfile(c, p, ask) ==
    /\ clerk[c] = OffDuty
    /\ LET new == [there |-> TRUE, skills |-> ask.skills,
                   pool |-> Column(ask, profile[p], "pool")] IN
         Turns(c, [pc |-> IF profile[p].there THEN "update" ELSE "insert",
                   slug |-> p, ask |-> ask, new |-> new])
    /\ mixed' = IF Meets(c, p) THEN mixed \cup {p} ELSE mixed
    /\ UNCHANGED <<profile, skill, link, crew, asked, unkept>>

HandleRegisterProfile(c) == \E p \in Slug, ask \in Registration : RegisterProfile(c, p, ask)

\* The slug is unique: a row that came in since the read is an error.
InsertProfile(c) ==
    /\ clerk[c].pc = "insert"
    /\ LET p == clerk[c].slug IN
         IF profile[p].there THEN UNCHANGED <<profile, asked>>
         ELSE /\ profile' = [profile EXCEPT ![p] = clerk[c].new]
              /\ asked' = [asked EXCEPT ![p] = clerk[c].ask]
    /\ Turns(c, OffDuty)
    /\ UNCHANGED <<skill, link, crew, mixed, unkept>>

\* The UPDATE is by slug; a row that was deleted since is not missed.
UpdateProfile(c) ==
    /\ clerk[c].pc = "update"
    /\ LET p == clerk[c].slug IN
         /\ profile' = IF profile[p].there THEN [profile EXCEPT ![p] = clerk[c].new] ELSE profile
         /\ asked' = [asked EXCEPT ![p] = Merged(clerk[c].ask, @)]
    /\ Turns(c, OffDuty)
    /\ UNCHANGED <<skill, link, crew, mixed, unkept>>

-----------------------------------------------------------------------------
(***************************************************************************)
(* delete_profile and the agents that run a profile.                       *)
(***************************************************************************)

\* A profile that is not there is answered with "not_found".
HandleDeleteProfile(c, p) ==
    /\ clerk[c] = OffDuty
    /\ p \in ListProfiles
    /\ Turns(c, [pc |-> "users", slug |-> p])
    /\ UNCHANGED <<profile, skill, link, crew, asked, mixed, unkept>>

\* One that active agents run with "in_use".
CheckInUse(c) ==
    /\ clerk[c].pc = "users"
    /\ LET p == clerk[c].slug IN
         IF GetAgentsByProfile(p) # {} THEN Turns(c, OffDuty) /\ mixed' = mixed
         ELSE /\ Turns(c, [pc |-> "delete", slug |-> p])
              /\ mixed' = IF Meets(c, p) THEN mixed \cup {p} ELSE mixed
    /\ UNCHANGED <<profile, skill, link, crew, asked, unkept>>

\* The links go with the row (ON DELETE CASCADE), and its id is of no use any more.
DeleteProfile(c) ==
    /\ clerk[c].pc = "delete"
    /\ LET p == clerk[c].slug IN
         /\ profile' = [profile EXCEPT ![p] = NoProfile]
         /\ link' = {l \in link : l.slug # p}
         /\ asked' = [asked EXCEPT ![p] = <<>>]
         /\ clerk' = [d \in Clerk |->
                        CASE d = c -> OffDuty
                          [] clerk[d].pc = "link" /\ clerk[d].slug = p ->
                               [clerk[d] EXCEPT !.slug = Gone]
                          [] OTHER -> clerk[d]]
    /\ UNCHANGED <<skill, crew, mixed, unkept>>

\* register_agent does not look for the profile it is given.
Enroll(a, p) ==
    /\ crew[a] # [slug |-> p, active |-> TRUE]
    /\ crew' = [crew EXCEPT ![a] = [slug |-> p, active |-> TRUE]]
    /\ unkept' = IF \/ p \notin ListProfiles \cup {NoSlug}
                    \/ \E c \in Clerk : clerk[c].pc = "delete" /\ clerk[c].slug = p
                 THEN unkept \cup {a} ELSE unkept \ {a}
    /\ UNCHANGED <<profile, skill, link, clerk, asked, mixed>>

\* An agent sleeps, is deactivated or has not been seen for long; its slug stays.
Leave(a) ==
    /\ crew[a].active
    /\ crew' = [crew EXCEPT ![a].active = FALSE]
    /\ UNCHANGED <<profile, skill, link, clerk, asked, mixed, unkept>>

-----------------------------------------------------------------------------
(***************************************************************************)
(* Skills.                                                                 *)
(***************************************************************************)

\* POST /skills: UpsertSkill looks for the name, and a skill that is there keeps its id.
UpsertSkill(c, s, p, r) ==
    /\ clerk[c] = OffDuty
    /\ Turns(c, [pc |-> IF s \in skill THEN "profile" ELSE "learn",
                 skill |-> s, slug |-> p, rank |-> r])
    /\ UNCHANGED <<profile, skill, link, crew, asked, mixed, unkept>>

InsertSkill(c) ==
    /\ clerk[c].pc = "learn"
    /\ Turns(c, IF clerk[c].skill \in skill THEN OffDuty ELSE [clerk[c] EXCEPT !.pc = "profile"])
    /\ skill' = skill \cup {clerk[c].skill}
    /\ UNCHANGED <<profile, link, crew, asked, mixed, unkept>>

\* It goes on with the profile, if there is one of that slug.
apiCreateSkill(c) ==
    /\ clerk[c].pc = "profile"
    /\ Turns(c, IF clerk[c].slug \in ListProfiles THEN [clerk[c] EXCEPT !.pc = "link"] ELSE OffDuty)
    /\ UNCHANGED <<profile, skill, link, crew, asked, mixed, unkept>>

\* Replaces the link there was.  The foreign keys refuse an id that is gone; nobody
\* is told.
LinkProfileSkill(c) ==
    /\ clerk[c].pc = "link"
    /\ LET k == clerk[c] IN
         link' = IF Gone \in {k.slug, k.skill} THEN link
                 ELSE {l \in link : <<l.slug, l.skill>> # <<k.slug, k.skill>>}
                      \cup {[slug |-> k.slug, skill |-> k.skill, rank |-> k.rank]}
    /\ Turns(c, OffDuty)
    /\ UNCHANGED <<profile, skill, crew, asked, mixed, unkept>>

\* DeleteSkill finds the id, ...
apiDeleteSkill(c, s) ==
    /\ clerk[c] = OffDuty
    /\ s \in skill
    /\ Turns(c, [pc |-> "unlink", skill |-> s])
    /\ UNCHANGED <<profile, skill, link, crew, asked, mixed, unkept>>

\* ... removes its links ...
UnlinkSkill(c) ==
    /\ clerk[c].pc = "unlink"
    /\ link' = {l \in link : l.skill # clerk[c].skill}
    /\ Turns(c, [clerk[c] EXCEPT !.pc = "drop"])
    /\ UNCHANGED <<profile, skill, crew, asked, mixed, unkept>>

\* ... and the row, with the links that were made meanwhile.
DropSkill(c) ==
    /\ clerk[c].pc = "drop"
    /\ LET s == clerk[c].skill IN
         /\ skill' = skill \ {s}
         /\ link' = {l \in link : l.skill # s}
         /\ clerk' = [d \in Clerk |->
                        CASE d = c -> OffDuty
                          [] /\ d # c
                             /\ clerk[d].pc \in {"profile", "link", "unlink", "drop"}
                             /\ clerk[d].skill = s ->
                               [clerk[d] EXCEPT !.skill = Gone]
                          [] OTHER -> clerk[d]]
    /\ UNCHANGED <<profile, crew, asked, mixed, unkept>>

\* The queries of find_profiles, of GET /skills and of GET /skills/{name}/profiles.
FindProfilesBySkill(s) == {p \in ListProfiles : \E l \in link : l.slug = p /\ l.skill = s}

FindProfilesBySkillTag(s) == {p \in ListProfiles : s \in profile[p].skills}

GetProfileSkillLinks(p) == {s \in skill : \E l \in link : l.slug = p /\ l.skill = s}

\* GET /skills for the profile of an agent; its two queries are taken as one.
apiGetSkills(p) == IF p \in ListProfiles THEN GetProfileSkillLinks(p) ELSE {}

GetSkillProfileLinks(s) ==
    {l \in link : l.skill = s /\ s \in skill /\ l.slug \in ListProfiles}

\* Whom dispatch_task may choose for a skill: the most proficient, or else one that
\* names it in its own list.
FindBestProfileForSkill(s) ==
    LET links == GetSkillProfileLinks(s) IN
    IF links = {} THEN FindProfilesBySkillTag(s)
    ELSE {l.slug : l \in {m \in links : \A n \in links : m.rank <= n.rank}}

-----------------------------------------------------------------------------

\* The relay stops: open calls are gone.
ProfilesStop ==
    /\ \E c \in Clerk : clerk[c] # OffDuty
    /\ clerk' = [c \in Clerk |-> OffDuty]
    /\ UNCHANGED <<profile, skill, link, crew, asked, mixed, unkept>>

ProfileCall(c) ==
    \/ HandleRegisterProfile(c) \/ InsertProfile(c) \/ UpdateProfile(c)
    \/ \E p \in Slug : HandleDeleteProfile(c, p)
    \/ CheckInUse(c) \/ DeleteProfile(c)

SkillCall(c) ==
    \/ \E s \in Skill, p \in Slug, r \in Rank : UpsertSkill(c, s, p, r)
    \/ InsertSkill(c) \/ apiCreateSkill(c) \/ LinkProfileSkill(c)
    \/ \E s \in Skill : apiDeleteSkill(c, s)
    \/ UnlinkSkill(c) \/ DropSkill(c)

ProfilesNext ==
    \/ \E c \in Clerk : ProfileCall(c) \/ SkillCall(c)
    \/ \E a \in Crew : Leave(a) \/ \E p \in Slug \cup {NoSlug} : Enroll(a, p)
    \/ ProfilesStop

-----------------------------------------------------------------------------
(***************************************************************************)
(* Properties.                                                             *)
(***************************************************************************)

ProfilesTypeOK ==
    /\ profile \in [Slug -> ProfileRow]
    /\ skill \subseteq Skill
    /\ link \subseteq Link
    /\ crew \in [Crew -> [slug : Slug \cup {NoSlug}, active : BOOLEAN]]
    /\ clerk \in [Clerk -> {OffDuty} \cup Recording \cup Removing \cup Teaching \cup Forgetting]
    /\ mixed \subseteq Slug
    /\ unkept \subseteq Crew

\* A profile whose registration was answered is there, with what was last asked for,
\* unless two calls on its slug crossed.
RegistrationKept ==
    \A p \in Slug \ mixed :
        asked[p] # <<>>
          => p \in ListProfiles /\ \A col \in DOMAIN asked[p] : profile[p][col] = asked[p][col]

\* An active agent has its profile, unless it came for one that was missing, or that a
\* delete had looked at before.
AgentsKept ==
    \A a \in Crew \ unkept : crew[a].active /\ crew[a].slug # NoSlug => crew[a].slug \in ListProfiles

\* Links are between profiles and skills that are there, one for each pair, however
\* links and deletes interleave: the queries agree, and the best profile for a skill
\* is one of those linked to it, if any is.
LinksKept ==
    /\ \A l \in link : l.slug \in ListProfiles /\ l.skill \in skill
    /\ \A l, m \in link : l.slug = m.slug /\ l.skill = m.skill => l = m
    /\ \A s \in skill :
        /\ FindProfilesBySkill(s) = {p \in Slug : s \in apiGetSkills(p)}
        /\ FindBestProfileForSkill(s) \subseteq
             IF FindProfilesBySkill(s) = {} THEN FindProfilesBySkillTag(s) ELSE FindProfilesBySkill(s)

ProfilesSpec == ProfilesInit /\ [][ProfilesNext]_profileVars
==============================================================================
