------------------------------ MODULE Planning -------------------------------
(***************************************************************************)
(* Boards, goals and the columns of a task that its status does not touch  *)
(* (internal/db/boards.go, goals.go, UpdateTaskFields in tasks.go, and     *)
(* their handlers in internal/relay/handlers.go and api.go).               *)
(*                                                                         *)
(* An edit reads the row, replaces what it was given and writes all the    *)
(* columns back; a board is archived before its tasks are; a task without  *)
(* a board is put on one that was listed before.  How a task changes its   *)
(* status is in Tasks, here it just does.                                  *)
(***************************************************************************)
EXTENDS Edits, Naturals, Sequences, FiniteSets

CONSTANTS
    Board,      \* the boards ever created
    SlugOf,     \* the slug each of them is created under
    Backlog,    \* the slug of the board dispatch_task creates
    Item,       \* the tasks ever dispatched
    Goal,       \* the goals ever created
    Planner,    \* bound: calls open at once
    Title,      \* bound: the titles a goal is given
    Nowhere     \* board_id, goal_id or parent_goal_id IS NULL

ASSUME PlanningAssumption ==
    /\ IsFiniteSet(Goal) /\ IsFiniteSet(Item)
    /\ DOMAIN SlugOf = Board
    /\ Nowhere \notin Board \cup Goal
    /\ Item \cap Goal = {}

VARIABLES
    board,      \* board[b]: its row, if it has one
    item,       \* item[t]: the row of task t
    goal,       \* goal[g]: the row of goal g
    plan,       \* plan[c]: where call c is
    answered,   \* history only: what the last call to write a column was asked for
    crossed,    \* history only: rows that two calls were editing at once
    late,       \* history only: tasks put on a board that was not open any more
    cut         \* history only: boards whose archiving stopped halfway

planningVars == <<board, item, goal, plan, answered, crossed, late, cut>>

\* Any string is a status; what is not "completed" is as good as "active".
GoalStatus == {"active", "completed"}

\* The columns an edit is given; title, description and priority of a task are left out.
\* Ids are those of rows that were created.
TaskEdit == {<<>>} \cup [board : Board] \cup [goal : Goal] \cup [board : Board, goal : Goal]

GoalEdit == [title : Title] \cup [status : GoalStatus]

BoardRow == {"absent", "open", "archived", "deleted"}

ItemRow == [status : {"absent", "open", "resolved", "deleted"}, archived : BOOLEAN,
            board : Board \cup {Nowhere}, goal : Goal \cup {Nowhere}]

GoalRow == [status : GoalStatus \cup {"absent"}, title : Title, completed : BOOLEAN,
            parent : Goal \cup {Nowhere}]

AtEase == [pc |-> "idle"]

Placing == [pc : {"shelve"}, goal : Goal \cup {Nowhere}]
           \cup [pc : {"insert"}, board : Board \cup {Nowhere}, goal : Goal \cup {Nowhere}]

Emptying == [pc : {"empty"}, board : Board]

\* old is the row that was read.
Editing == [pc : {"task"}, row : Item, ask : TaskEdit, old : ItemRow]
           \cup [pc : {"goal"}, row : Goal, ask : GoalEdit, old : GoalRow]

\* joined, history only: a task came to the goal since its tasks were counted.
Measuring == [pc : {"progress"}, goal : Goal, total : Nat, joined : BOOLEAN]

PlanningInit ==
    /\ board = [b \in Board |-> "absent"]
    /\ item = [t \in Item |-> [status |-> "absent", archived |-> FALSE,
                               board |-> Nowhere, goal |-> Nowhere]]
    /\ goal \in [Goal -> [status : {"absent"}, title : Title, completed : {FALSE},
                          parent : {Nowhere}]]
    /\ \A g, h \in Goal : goal[g].title = goal[h].title
    /\ plan = [c \in Planner |-> AtEase]
    /\ answered = [r \in Item \cup Goal |-> <<>>]
    /\ crossed = {} /\ late = {} /\ cut = {}

StoredItems == {t \in Item : item[t].status \in {"open", "resolved"}}

StoredGoals == {g \in Goal : goal[g].status # "absent"}

Given ==
    {ask \in TaskEdit :
       /\ "board" \in DOMAIN ask => board[ask.board] # "absent"
       /\ "goal" \in DOMAIN ask => ask.goal \in StoredGoals}

ListBoards == {b \in Board : board[b] = "open"}

Moves(c, d) == plan' = [plan EXCEPT ![c] = d]

-----------------------------------------------------------------------------
(***************************************************************************)
(* Boards.                                                                 *)
(***************************************************************************)

\* The slug is unique, archived boards included.
Taken(slug) == \E b \in Board : board[b] \in {"open", "archived"} /\ SlugOf[b] = slug

CreateBoard(b) ==
    /\ board[b] = "absent"
    /\ ~Taken(SlugOf[b])
    /\ board' = [board EXCEPT ![b] = "open"]

NewBoard(b) ==
    /\ CreateBoard(b)
    /\ UNCHANGED <<item, goal, plan, answered, crossed, late, cut>>

\* The first statement of archive_board; it accepts any id.
ArchiveBoard(c, b) ==
    /\ plan[c] = AtEase
    /\ board[b] # "absent"
    /\ board' = [board EXCEPT ![b] = IF @ = "open" THEN "archived" ELSE @]
    /\ Moves(c, [pc |-> "empty", board |-> b])
    /\ cut' = cut \cup {b}
    /\ UNCHANGED <<item, goal, answered, crossed, late>>

\* The second: every task of the board, resolved or not.
ArchiveBoardTasks(c) ==
    /\ plan[c].pc = "empty"
    /\ item' = [t \in Item |->
                  IF t \in StoredItems /\ item[t].board = plan[c].board
                  THEN [item[t] EXCEPT !.archived = TRUE] ELSE item[t]]
    /\ late' = {t \in late : item[t].board # plan[c].board}
    /\ cut' = cut \ {plan[c].board}
    /\ Moves(c, AtEase)
    /\ UNCHANGED <<board, goal, answered, crossed>>

\* Only an archived board is deleted; its tasks keep its id.
DeleteBoard(b) ==
    /\ board[b] = "archived"
    /\ board' = [board EXCEPT ![b] = "deleted"]
    /\ UNCHANGED <<item, goal, plan, answered, crossed, late, cut>>

EditBoards ==
    \E b \in Board :
        \/ NewBoard(b) \/ DeleteBoard(b)
        \/ \E c \in Planner : ArchiveBoard(c, b)

-----------------------------------------------------------------------------
(***************************************************************************)
(* Tasks: where they are put, and the edits of update_task and move_task.  *)
(***************************************************************************)

\* dispatch_task with a board_id does not ask whether the board is open.
NameBoard(c, b, g) ==
    /\ plan[c] = AtEase
    /\ board[b] # "absent"
    /\ Moves(c, [pc |-> "insert", board |-> b, goal |-> g])
    /\ UNCHANGED <<board, item, goal, answered, crossed, late, cut>>

\* Without one it takes the first open board (which one that is makes no difference
\* here), or is about to create a backlog.
PickBoard(c, g) ==
    /\ plan[c] = AtEase
    /\ \/ \E b \in ListBoards : Moves(c, [pc |-> "insert", board |-> b, goal |-> g])
       \/ ListBoards = {} /\ Moves(c, [pc |-> "shelve", goal |-> g])
    /\ UNCHANGED <<board, item, goal, answered, crossed, late, cut>>

\* The error of CreateBoard is ignored: a slug that an archived board holds, or that
\* another call has just taken, leaves the task without a board.
AutoBacklog(c) ==
    /\ plan[c].pc = "shelve"
    /\ \/ \E b \in Board :
            /\ SlugOf[b] = Backlog
            /\ CreateBoard(b)
            /\ Moves(c, [pc |-> "insert", board |-> b, goal |-> plan[c].goal])
       \/ /\ Taken(Backlog)
          /\ Moves(c, [pc |-> "insert", board |-> Nowhere, goal |-> plan[c].goal])
          /\ board' = board
    /\ UNCHANGED <<item, goal, answered, crossed, late, cut>>

\* The calls that are counting the tasks of g have missed t.
Joins(t, g, p) ==
    [c \in Planner |-> IF p[c].pc = "progress" /\ p[c].goal = g /\ item[t].goal # g
                       THEN [p[c] EXCEPT !.joined = TRUE] ELSE p[c]]

Stray(t, b) == IF b = Nowhere \/ b \in ListBoards THEN late \ {t} ELSE late \cup {t}

DispatchItem(c, t) ==
    /\ plan[c].pc = "insert"
    /\ item[t].status = "absent"
    /\ LET p == plan[c] IN
         /\ item' = [item EXCEPT ![t] = [status |-> "open", archived |-> FALSE,
                                         board |-> p.board, goal |-> p.goal]]
         /\ plan' = Joins(t, p.goal, [plan EXCEPT ![c] = AtEase])
         /\ late' = Stray(t, p.board)
    /\ UNCHANGED <<board, goal, answered, crossed, cut>>

\* transition, as Tasks has it.
MoveItem(t, s) ==
    /\ t \in StoredItems
    /\ item[t].status # s
    /\ item' = [item EXCEPT ![t].status = s]
    /\ UNCHANGED <<board, goal, plan, answered, crossed, late, cut>>

\* archive_tasks for one status, on one board or on all.
ArchiveItems(s, boards) ==
    /\ item' = [t \in Item |-> IF item[t].status = s /\ item[t].board \in boards
                               THEN [item[t] EXCEPT !.archived = TRUE] ELSE item[t]]
    /\ UNCHANGED <<board, goal, plan, answered, crossed, late, cut>>

RemoveItem(t) ==
    /\ t \in StoredItems
    /\ item' = [item EXCEPT ![t].status = "deleted"]
    /\ answered' = [answered EXCEPT ![t] = <<>>]
    /\ UNCHANGED <<board, goal, plan, crossed, late, cut>>

Crossing(c, r) == \E d \in Planner \ {c} : plan[d].pc \in {"task", "goal"} /\ plan[d].row = r

\* A bug that forgets the columns it was not given.
MutGetTask(c, t, ask) ==
    /\ plan[c] = AtEase
    /\ t \in StoredItems
    /\ Moves(c, [pc |-> "task", row |-> t, ask |-> ask,
                 old |-> [item[t] EXCEPT !.board = Nowhere, !.goal = Nowhere]])
    /\ crossed' = IF Crossing(c, t) THEN crossed \cup {t} ELSE crossed
    /\ UNCHANGED <<board, item, goal, answered, late, cut>>

\* UpdateTaskFields: the row is read ...
GetTask(c, t, ask) ==
    /\ plan[c] = AtEase
    /\ t \in StoredItems
    /\ Moves(c, [pc |-> "task", row |-> t, ask |-> ask, old |-> item[t]])
    /\ crossed' = IF Crossing(c, t) THEN crossed \cup {t} ELSE crossed
    /\ UNCHANGED <<board, item, goal, answered, late, cut>>

\* ... and written back, unless it was deleted meanwhile, which is no error.
UpdateTaskFields(c) ==
    /\ plan[c].pc = "task"
    /\ LET t == plan[c].row
           b == Column(plan[c].ask, plan[c].old, "board")
           g == Column(plan[c].ask, plan[c].old, "goal") IN
         IF t \in StoredItems
         THEN /\ item' = [item EXCEPT ![t].board = b, ![t].goal = g]
              /\ plan' = Joins(t, g, [plan EXCEPT ![c] = AtEase])
              /\ late' = Stray(t, b)
              /\ answered' = [answered EXCEPT ![t] = Merged(plan[c].ask, @)]
         ELSE Moves(c, AtEase) /\ UNCHANGED <<item, late, answered>>
    /\ UNCHANGED <<board, goal, crossed, cut>>

\* Over REST, update_task is the same.
HandleUpdateTask(c) == \E t \in Item, ask \in Given : GetTask(c, t, ask)

\* move_task is given a board, a goal or both.
HandleMoveTask(c) == \E t \in Item, ask \in Given \ {<<>>} : GetTask(c, t, ask)

-----------------------------------------------------------------------------
(***************************************************************************)
(* Goals.                                                                  *)
(***************************************************************************)

\* The parent is not looked up; an id that names no goal is read as none.
CreateGoal(g, parent, title) ==
    /\ g \notin StoredGoals
    /\ goal' = [goal EXCEPT ![g] = [status |-> "active", title |-> title, completed |-> FALSE,
                                    parent |-> parent]]
    /\ UNCHANGED <<board, item, plan, answered, crossed, late, cut>>

HandleCreateGoal(g) ==
    \E parent \in StoredGoals \cup {Nowhere}, title \in Title : CreateGoal(g, parent, title)

\* UpdateGoal works like UpdateTaskFields.
GetGoal(c, g, ask) ==
    /\ plan[c] = AtEase
    /\ g \in StoredGoals
    /\ Moves(c, [pc |-> "goal", row |-> g, ask |-> ask, old |-> goal[g]])
    /\ crossed' = IF Crossing(c, g) THEN crossed \cup {g} ELSE crossed
    /\ UNCHANGED <<board, item, goal, answered, late, cut>>

\* completed_at is set with the status and never cleared.
UpdateGoal(c) ==
    /\ plan[c].pc = "goal"
    /\ LET g == plan[c].row
           ask == plan[c].ask
           old == plan[c].old IN
         /\ goal' = [goal EXCEPT ![g] =
                       [old EXCEPT !.title = Column(ask, old, "title"),
                                   !.status = Column(ask, old, "status"),
                                   !.completed = @ \/ /\ "status" \in DOMAIN ask
                                                      /\ ask.status = "completed"]]
         /\ answered' = [answered EXCEPT ![g] = Merged(ask, @)]
    /\ Moves(c, AtEase)
    /\ UNCHANGED <<board, item, crossed, late, cut>>

HandleUpdateGoal(c) == \E g \in Goal, ask \in GoalEdit : GetGoal(c, g, ask)

\* get_goal, list_goals and the cascade count the tasks of a goal, archived or not ...
GetGoalWithProgress(c, g) ==
    /\ plan[c] = AtEase
    /\ g \in StoredGoals
    /\ Moves(c, [pc |-> "progress", goal |-> g, joined |-> FALSE,
                 total |-> Cardinality({t \in StoredItems : item[t].goal = g})])
    /\ UNCHANGED <<board, item, goal, answered, crossed, late, cut>>

DoneTasks(g) == Cardinality({t \in StoredItems : item[t].goal = g /\ item[t].status = "resolved"})

\* ... and the resolved ones among them in a query of its own, and answer.
GetGoalProgress(c) ==
    /\ plan[c].pc = "progress"
    /\ Moves(c, AtEase)
    /\ UNCHANGED <<board, item, goal, answered, crossed, late, cut>>

\* The chain of at most five parents, root first.
GetGoalAncestry(g) ==
    LET chain[i \in 0 .. 5] ==
          IF i = 0 THEN <<>>
          ELSE LET last == IF chain[i - 1] = <<>> THEN g ELSE Head(chain[i - 1])
                   parent == goal[last].parent IN
               IF parent \in StoredGoals THEN <<parent>> \o chain[i - 1] ELSE chain[i - 1]
    IN  chain[5]

GetGoalChildren(g) == {h \in StoredGoals : goal[h].parent = g}

\* The tree that is shown, as the paths from its roots.
GetGoalCascade ==
    LET level[n \in 0 .. Cardinality(Goal)] ==
          IF n = 0 THEN {<<g>> : g \in {h \in StoredGoals : goal[h].parent \notin StoredGoals}}
          ELSE UNION {{Append(path, g) : g \in GetGoalChildren(path[Len(path)])} :
                        path \in level[n - 1]}
    IN  UNION {level[n] : n \in DOMAIN level}

\* What agents and the dashboard ask for.
apiGoals(c) ==
    \/ HandleUpdateGoal(c)
    \/ \E g \in Goal : HandleCreateGoal(g) \/ GetGoalWithProgress(c, g)

-----------------------------------------------------------------------------

\* The relay stops: open calls are gone.
PlanningStops ==
    /\ \E c \in Planner : plan[c] # AtEase
    /\ plan' = [c \in Planner |-> AtEase]
    /\ UNCHANGED <<board, item, goal, answered, crossed, late, cut>>

ItemStep ==
    \E t \in Item :
        \/ \E c \in Planner : DispatchItem(c, t)
        \/ \E s \in {"open", "resolved"} : MoveItem(t, s)
        \/ RemoveItem(t)

PlanningNext ==
    \/ EditBoards
    \/ ItemStep
    \/ \E s \in {"open", "resolved"}, boards \in {{b} : b \in Board} \cup {Board \cup {Nowhere}} :
          ArchiveItems(s, boards)
    \/ \E c \in Planner :
        \/ \E g \in StoredGoals \cup {Nowhere} :
              PickBoard(c, g) \/ \E b \in Board : NameBoard(c, b, g)
        \/ AutoBacklog(c) \/ ArchiveBoardTasks(c)
        \/ HandleUpdateTask(c) \/ HandleMoveTask(c) \/ UpdateTaskFields(c)
        \/ apiGoals(c) \/ UpdateGoal(c) \/ GetGoalProgress(c)
    \/ PlanningStops

-----------------------------------------------------------------------------
(***************************************************************************)
(* Properties.                                                             *)
(***************************************************************************)

PlanningTypeOK ==
    /\ board \in [Board -> BoardRow]
    /\ item \in [Item -> ItemRow]
    /\ goal \in [Goal -> GoalRow]
    /\ plan \in [Planner -> {AtEase} \cup Placing \cup Emptying \cup Editing \cup Measuring]
    /\ crossed \subseteq Item \cup Goal
    /\ late \subseteq Item
    /\ cut \subseteq Board

\* No open task hides behind a closed board, except one that was put there too late
\* and those of an archive_board that is under way or never came to its end.
BoardsKept ==
    \A t \in StoredItems \ late :
        LET b == item[t].board IN
        ~item[t].archived /\ b # Nowhere => b \in ListBoards \cup cut

\* What the last call wrote to a column is there, whatever other columns were edited
\* since, unless two calls were editing the row at once.
EditsKept ==
    /\ \A t \in StoredItems \ crossed, col \in {"board", "goal"} :
          col \in DOMAIN answered[t] => item[t][col] = answered[t][col]
    /\ \A g \in StoredGoals \ crossed, col \in {"title", "status"} :
          col \in DOMAIN answered[g] => goal[g][col] = answered[g][col]

\* The last five of a path before its end.
Nearest(path) == SubSeq(path, IF Len(path) > 6 THEN Len(path) - 5 ELSE 1, Len(path) - 1)

\* A completed goal has its date, however edits cross; the cascade shows each goal
\* once, below the ancestors get_goal names, which are the nearest five; no call is
\* about to report more tasks resolved than there are, unless one came in between its
\* two counts.
GoalsKept ==
    /\ \A g \in StoredGoals :
        /\ goal[g].status = "completed" => goal[g].completed
        /\ LET shown == {path \in GetGoalCascade : path[Len(path)] = g} IN
             \E path \in shown : shown = {path} /\ GetGoalAncestry(g) = Nearest(path)
    /\ \A c \in Planner : plan[c].pc = "progress" /\ ~plan[c].joined
        => DoneTasks(plan[c].goal) <= plan[c].total

PlanningSpec == PlanningInit /\ [][PlanningNext]_planningVars
==============================================================================
