------------------------------- MODULE MCBoard -------------------------------
(***************************************************************************)
(* Tasks, Planning and Profiles side by side.  They read no column that    *)
(* another of them writes, so the first state says what moves: statuses of *)
(* tasks; boards; goals; tasks that come to a goal and leave it; profiles  *)
(* and their agents; or profiles and their skills.                         *)
(***************************************************************************)
EXTENDS MCTasks, Planning, Profiles, TLC

CONSTANTS b1, b2, backlog, other, p1

VARIABLE focus

allVars == <<vars, planningVars, profileVars, focus>>

\* dispatch_task may create b1, not b2.
TwoSlugs == [b \in Board |-> IF b = b1 THEN backlog ELSE other]

Symmetric == Permutations(Planner) \cup Permutations(Goal) \cup Permutations(Title)

BoardInit ==
    /\ focus \in {"statuses", "boards", "goals", "progress", "profiles", "skills"}
    /\ Init
    /\ PlanningInit
    /\ ProfilesInit

PlanningBound ==
    CASE focus = "boards" -> goal' = goal
      [] focus = "goals" ->
           /\ <<board, item>>' = <<board, item>>
           /\ \A c \in Planner : plan'[c].pc \in {"idle", "goal"}
      [] focus = "progress" ->
           /\ board'[b2] = "absent" /\ Cardinality(StoredGoals') <= 1
           /\ \A g \in Goal : goal'[g].title = goal[g].title
           /\ \A c \in Planner : plan'[c].pc \notin {"goal", "empty"}
      [] OTHER -> FALSE

ProfilesBound ==
    CASE focus = "profiles" ->
           /\ \A c \in Clerk :
                clerk'[c].pc \in {"insert", "update", "users", "delete"} => clerk'[c].slug = p1
           /\ \A c \in Clerk :
                clerk'[c].pc \in {"idle", "insert", "update", "users", "delete"}
           /\ \A a \in Crew : crew'[a].slug \in {p1, NoSlug}
      [] focus = "skills" ->
           /\ crew' = crew
           /\ \A p \in Slug : asked'[p] \in {<<>>, [skills |-> {}]}
      [] OTHER -> FALSE

BoardNext ==
    /\ \/ /\ focus = "statuses"
          /\ Next
          /\ UNCHANGED <<planningVars, profileVars>>
       \/ /\ focus \in {"boards", "goals", "progress"}
          /\ PlanningNext
          /\ PlanningBound
          /\ UNCHANGED <<vars, profileVars>>
       \/ /\ focus \in {"profiles", "skills"}
          /\ ProfilesNext
          /\ ProfilesBound
          /\ UNCHANGED <<vars, planningVars>>
    /\ UNCHANGED focus

BoardSpec == BoardInit /\ [][BoardNext]_allVars

\* Archiving a board hides its tasks, an edit of a task, a goal or a profile loses
\* nothing that an earlier edit wrote, goals are shown as their rows are, agents keep
\* their profile and links their ends; each except where two calls cross in the ways
\* its part names.
CatalogKept ==
    /\ PlanningTypeOK /\ BoardsKept /\ EditsKept /\ GoalsKept
    /\ ProfilesTypeOK /\ RegistrationKept /\ AgentsKept /\ LinksKept
==============================================================================
