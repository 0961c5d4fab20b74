--------------------------- MODULE SchedulesProofs ---------------------------
(***************************************************************************)
(* Proofs about Schedules, for any number of schedules, handlers, restarts *)
(* and failed writes.                                                      *)
(***************************************************************************)
EXTENDS Schedules, TLAPS

\* A call that no other disturbed is alone on its id, and what it has done so
\* far is still there.  No id with a call under way counts as settled.
Claim(c) ==
    call[c] # Idle =>
        /\ call[c].id \notin settled
        /\ call[c].clean =>
             /\ \A d \in Call \ {c} : ~On(d, call[c].id)
             /\ call[c].pc = "register" => row[call[c].id] = call[c].entry
             /\ call[c].pc = "delete" => job[call[c].id] = None

CleanCalls == \A c \in Call : Claim(c)

IInv == TypeOK /\ CleanCalls /\ SettledAgrees

\* A handler at rest is not a piece of work: work has an id.
LEMMA IdleIsNoWork == Idle \notin Work
  BY DEF Idle, Work

\* What LoadSchedulesFromDB registers for a row is an entry or nothing.
LEMMA LoadedType ==
  ASSUME NEW e \in Entry \cup {None}
  PROVE  Loaded(e) \in Entry \cup {None}
  BY DEF Loaded

\* The INSERT of UpsertSchedule keeps the table's shape and touches one row.
LEMMA UpsertedType ==
  ASSUME TypeOK, NEW id \in Id, NEW e \in Entry
  PROVE  /\ Upserted(id, e) \in [Id -> Entry \cup {None}]
         /\ \A other \in Id \ {id} : Upserted(id, e)[other] = row[other]
<1>1. row \in [Id -> Entry \cup {None}]
  BY DEF TypeOK
<1>2. row[id] # None => [e EXCEPT !.key = row[id].key] \in Entry
  BY <1>1 DEF Entry
<1>3. QED
  BY <1>1, <1>2 DEF Upserted

\* A PUT that leaves fields out still asks for a whole entry.
LEMMA MergedType ==
  ASSUME NEW e \in Entry, NEW cron \in Cron \cup {Keep}, NEW prompt \in Prompt \cup {Keep}
  PROVE  Merged(e, cron, prompt) \in Entry
  BY DEF Merged, Entry

\* A call that starts unsettles its id and disturbs the others on it.
LEMMA BeginKeeps ==
  ASSUME IInv, NEW c \in Call, NEW id \in Id, NEW pc, NEW entry, Begin(c, pc, id, entry),
         [pc |-> pc, id |-> id, entry |-> entry, clean |-> ~Busy(id)] \in Work,
         pc \in {"upsert", "remove"}, drawn' \subseteq Uuid
  PROVE  IInv'
<1> DEFINE w == [pc |-> pc, id |-> id, entry |-> entry, clean |-> ~Busy(id)]
<1>1. /\ row' = row /\ job' = job /\ faults' = faults
      /\ settled' = settled \ {id}
      /\ call' \in [Call -> Work \cup {Idle}]
      /\ call'[c] = w
      /\ \A d \in Call \ {c} :
           call'[d] = IF On(d, id) THEN [call[d] EXCEPT !.clean = FALSE] ELSE call[d]
  <2>1. ASSUME NEW d \in Call, On(d, id)
        PROVE  [call[d] EXCEPT !.clean = FALSE] \in Work
    BY <2>1 DEF On, IInv, TypeOK, Work, Idle
  <2>2. \A d \in Call : call[d] \in Work \cup {Idle}
    BY DEF IInv, TypeOK
  <2>3. QED
    BY <2>1, <2>2 DEF Begin
<1>2. TypeOK'
  BY <1>1 DEF IInv, TypeOK
<1>3. SettledAgrees'
  BY <1>1 DEF IInv, SettledAgrees, Loaded
<1>4. \A d \in Call \ {c} : On(d, id) => ~call'[d].clean
  BY <1>1, IdleIsNoWork DEF On, IInv, TypeOK, Work
<1>5. \A d \in Call \ {c}, i \in Id : On(d, i)' <=> On(d, i)
  <2> SUFFICES ASSUME NEW d \in Call \ {c}, NEW i \in Id PROVE On(d, i)' <=> On(d, i)
    OBVIOUS
  <2>1. call[d] \in Work \cup {Idle}
    BY DEF IInv, TypeOK
  <2>2. CASE On(d, id)
    BY <1>1, <2>1, <2>2, IdleIsNoWork DEF On, Work, Idle
  <2>3. CASE ~On(d, id)
    BY <1>1, <2>3 DEF On
  <2>4. QED
    BY <2>2, <2>3
<1>6. CleanCalls'
  <2> SUFFICES ASSUME NEW d \in Call, call'[d] # Idle
               PROVE  /\ call'[d].id \notin settled'
                      /\ call'[d].clean =>
                           /\ \A e \in Call \ {d} : ~On(e, call[d].id)'
                           /\ call'[d].pc = "register" => row'[call'[d].id] = call'[d].entry
                           /\ call'[d].pc = "delete" => job'[call'[d].id] = None
    BY DEF CleanCalls, Claim
  <2>1. CASE d = c
    <3>1. call'[d] = w /\ w.id = id /\ w.pc = pc /\ w.clean = ~Busy(id)
      BY <1>1, <2>1
    <3>2. ~Busy(id) => \A e \in Call \ {d} : ~On(e, id)'
      BY <1>5, <2>1 DEF Busy
    <3>3. QED
      BY <1>1, <3>1, <3>2
  <2>2. CASE d # c /\ On(d, id)
    BY <1>1, <1>4, <2>2 DEF On, IInv, TypeOK, Work, Idle
  <2>3. CASE d # c /\ ~On(d, id)
    <3>1. call'[d] = call[d] /\ call[d] # Idle /\ call[d].id # id /\ call[d].id \in Id
      BY <1>1, <2>3 DEF On, IInv, TypeOK, Work
    <3>2. ~On(c, call[d].id)'
      BY <1>1, <3>1 DEF On
    <3>3. call[d].clean => \A e \in Call \ {d} : ~On(e, call[d].id)'
      BY <1>5, <3>1, <3>2, <2>3 DEF IInv, CleanCalls, Claim
    <3>4. QED
      BY <1>1, <3>1, <3>3 DEF IInv, CleanCalls, Claim
  <2>4. QED
    BY <2>1, <2>2, <2>3
<1>7. QED
  BY <1>2, <1>3, <1>6 DEF IInv

\* A handler that works on one id leaves the claims of the others alone.
LEMMA OthersKeep ==
  ASSUME IInv, NEW c \in Call, call[c] # Idle, TypeOK',
         NEW after \in Work \cup {Idle},
         call' = [call EXCEPT ![c] = after], after # Idle => after.id = call[c].id,
         \A i \in Id \ {call[c].id} : row'[i] = row[i] /\ job'[i] = job[i],
         \/ settled' = settled
         \/ settled' = settled \cup {call[c].id} /\ after = Idle /\ call[c].clean
  PROVE  \A d \in Call \ {c} : Claim(d)'
<1> SUFFICES ASSUME NEW d \in Call \ {c}, call'[d] # Idle
             PROVE  /\ call'[d].id \notin settled'
                    /\ call'[d].clean =>
                         /\ \A e \in Call \ {d} : ~On(e, call[d].id)'
                         /\ call'[d].pc = "register" => row'[call'[d].id] = call'[d].entry
                         /\ call'[d].pc = "delete" => job'[call'[d].id] = None
  BY DEF Claim
<1>1. call'[d] = call[d] /\ call[d].id \in Id /\ call[c].id \in Id
  BY DEF IInv, TypeOK, Work
<1>2. call'[d].id \notin settled'
  <2>1. CASE call[d].id # call[c].id
    BY <1>1, <2>1 DEF IInv, CleanCalls, Claim
  <2>2. CASE call[d].id = call[c].id
    <3>1. ~call[c].clean
      BY <1>1, <2>2 DEF IInv, CleanCalls, Claim, On
    <3>2. QED
      BY <1>1, <3>1 DEF IInv, CleanCalls, Claim
  <2>3. QED
    BY <2>1, <2>2
<1>3. ASSUME call'[d].clean
      PROVE  /\ call[d].id # call[c].id
             /\ \A e \in Call \ {d} : ~On(e, call[d].id)'
  <2>1. \A e \in Call \ {d} : ~On(e, call[d].id)
    BY <1>1, <1>3 DEF IInv, CleanCalls, Claim
  <2>2. call[d].id # call[c].id
    BY <2>1 DEF On
  <2>3. ASSUME NEW e \in Call \ {d} PROVE ~On(e, call[d].id)'
    <3>1. CASE e = c
      BY <1>1, <2>2, <3>1 DEF On, IInv, TypeOK
    <3>2. CASE e # c
      BY <1>1, <2>1, <3>2 DEF On, IInv, TypeOK
    <3>3. QED
      BY <3>1, <3>2
  <2>4. QED
    BY <2>2, <2>3
<1>4. QED
  BY <1>1, <1>2, <1>3 DEF IInv, CleanCalls, Claim

\* The first statement of Schedule.
LEMMA UpsertKeeps ==
  ASSUME IInv, NEW c \in Call, UpsertSchedule(c)
  PROVE  IInv'
<1> DEFINE w == call[c]
           after == [w EXCEPT !.pc = "register", !.clean = @ /\ row'[w.id] = w.entry]
<1>1. w \in Work /\ w # Idle /\ w.pc = "upsert" /\ w.id \in Id /\ w.entry \in Entry /\ w.clean \in BOOLEAN
  BY DEF UpsertSchedule, IInv, TypeOK, Work, Idle
<1>2. /\ job' = job /\ settled' = settled /\ drawn' = drawn
      /\ call' = [call EXCEPT ![c] = after]
      /\ row' = row \/ row' = Upserted(w.id, w.entry)
      /\ faults' \in 0 .. MaxFaults
  BY SchedulesAssumption DEF UpsertSchedule, WriteRow, IInv, TypeOK
<1>3. /\ row' \in [Id -> Entry \cup {None}]
      /\ \A i \in Id \ {w.id} : row'[i] = row[i]
  BY <1>1, <1>2, UpsertedType DEF IInv, TypeOK
<1>4. /\ after \in Work
      /\ after.id = w.id /\ after.pc = "register" /\ after.entry = w.entry
      /\ after.clean <=> w.clean /\ row'[w.id] = w.entry
  BY <1>1 DEF Work
<1>5. TypeOK'
  BY <1>2, <1>3, <1>4 DEF IInv, TypeOK
<1>6. CleanCalls'
  <2>1. call'[c] = after
    BY <1>2 DEF IInv, TypeOK
  <2>2. w.clean => \A d \in Call \ {c} : ~On(d, w.id)'
    BY <1>1, <1>2 DEF On, IInv, CleanCalls, Claim, TypeOK
  <2>3. Claim(c)'
    BY <1>1, <1>2, <1>3, <1>4, <2>1, <2>2 DEF IInv, CleanCalls, Claim
  <2>4. \A d \in Call \ {c} : Claim(d)'
    BY <1>1, <1>2, <1>3, <1>4, <1>5, OthersKeep
  <2>5. QED
    BY <2>3, <2>4 DEF CleanCalls
<1>7. SettledAgrees'
  BY <1>1, <1>2, <1>3 DEF IInv, SettledAgrees, CleanCalls, Claim, Loaded, TypeOK
<1>8. QED
  BY <1>5, <1>6, <1>7 DEF IInv

\* The second statement of Schedule.
LEMMA AddJobKeeps ==
  ASSUME IInv, NEW c \in Call, AddJob(c)
  PROVE  IInv'
<1> DEFINE w == call[c]
<1>1. w \in Work /\ w # Idle /\ w.pc = "register" /\ w.id \in Id /\ w.entry \in Entry
  BY DEF AddJob, IInv, TypeOK, Work, Idle
<1>2. /\ row' = row /\ drawn' = drawn /\ faults' = faults
      /\ call' = [call EXCEPT ![c] = Idle]
      /\ job' = [job EXCEPT ![w.id] = Loaded(w.entry)]
      /\ settled' = IF w.clean THEN settled \cup {w.id} ELSE settled
  BY DEF AddJob, Return, Registered
<1>3. TypeOK'
  BY <1>1, <1>2, LoadedType DEF IInv, TypeOK
<1>4. CleanCalls'
  <2>1. call'[c] = Idle
    BY <1>2 DEF IInv, TypeOK
  <2>2. QED
    BY <1>1, <1>2, <1>3, <2>1, OthersKeep DEF CleanCalls, Claim, IInv, TypeOK
<1>5. SettledAgrees'
  <2> SUFFICES ASSUME NEW i \in settled' PROVE job'[i] = Loaded(row'[i])
    BY DEF SettledAgrees, Loaded
  <2>1. CASE i = w.id
    BY <1>1, <1>2, <2>1 DEF IInv, CleanCalls, Claim, TypeOK
  <2>2. CASE i # w.id
    BY <1>1, <1>2, <2>2 DEF IInv, SettledAgrees, TypeOK
  <2>3. QED
    BY <2>1, <2>2
<1>6. QED
  BY <1>3, <1>4, <1>5 DEF IInv

\* The first statement of Unschedule.
LEMMA RemoveJobKeeps ==
  ASSUME IInv, NEW c \in Call, RemoveJob(c)
  PROVE  IInv'
<1> DEFINE w == call[c]
           after == [w EXCEPT !.pc = "delete"]
<1>1. w \in Work /\ w # Idle /\ w.pc = "remove" /\ w.id \in Id
  BY DEF RemoveJob, IInv, TypeOK, Work, Idle
<1>2. /\ row' = row /\ drawn' = drawn /\ faults' = faults /\ settled' = settled
      /\ call' = [call EXCEPT ![c] = after]
      /\ job' = [job EXCEPT ![w.id] = None]
  BY DEF RemoveJob
<1>3. after \in Work /\ after.id = w.id /\ after.pc = "delete" /\ after.clean = w.clean
  BY <1>1 DEF Work
<1>4. TypeOK'
  BY <1>1, <1>2, <1>3 DEF IInv, TypeOK
<1>5. CleanCalls'
  <2>1. call'[c] = after /\ job'[w.id] = None
    BY <1>1, <1>2 DEF IInv, TypeOK
  <2>2. w.clean => \A d \in Call \ {c} : ~On(d, w.id)'
    BY <1>1, <1>2 DEF On, IInv, CleanCalls, Claim, TypeOK
  <2>3. \A i \in Id \ {w.id} : job'[i] = job[i]
    BY <1>1, <1>2 DEF IInv, TypeOK
  <2>4. Claim(c)'
    BY <1>1, <1>2, <1>3, <2>1, <2>2 DEF IInv, CleanCalls, Claim
  <2>5. \A d \in Call \ {c} : Claim(d)'
    BY <1>1, <1>2, <1>3, <1>4, <2>3, OthersKeep
  <2>6. QED
    BY <2>4, <2>5 DEF CleanCalls
<1>6. SettledAgrees'
  BY <1>1, <1>2 DEF IInv, SettledAgrees, CleanCalls, Claim, Loaded, TypeOK
<1>7. QED
  BY <1>4, <1>5, <1>6 DEF IInv

\* The second statement of Unschedule.
LEMMA DeleteKeeps ==
  ASSUME IInv, NEW c \in Call, DeleteSchedule(c)
  PROVE  IInv'
<1> DEFINE w == call[c]
<1>1. w \in Work /\ w # Idle /\ w.pc = "delete" /\ w.id \in Id
  BY DEF DeleteSchedule, IInv, TypeOK, Work, Idle
<1>2. /\ job' = job /\ drawn' = drawn
      /\ call' = [call EXCEPT ![c] = Idle]
      /\ row' = row \/ row' = [row EXCEPT ![w.id] = None]
      /\ faults' \in 0 .. MaxFaults
      /\ settled' = IF w.clean /\ row'[w.id] = None THEN settled \cup {w.id} ELSE settled
  BY SchedulesAssumption DEF DeleteSchedule, WriteRow, Return, IInv, TypeOK
<1>3. TypeOK'
  BY <1>1, <1>2 DEF IInv, TypeOK
<1>4. \A i \in Id \ {w.id} : row'[i] = row[i]
  BY <1>1, <1>2 DEF IInv, TypeOK
<1>5. CleanCalls'
  <2>1. call'[c] = Idle
    BY <1>2 DEF IInv, TypeOK
  <2>2. QED
    BY <1>1, <1>2, <1>3, <1>4, <2>1, OthersKeep DEF CleanCalls, Claim, IInv, TypeOK
<1>6. SettledAgrees'
  <2> SUFFICES ASSUME NEW i \in settled' PROVE job'[i] = Loaded(row'[i])
    BY DEF SettledAgrees, Loaded
  <2>1. CASE i = w.id /\ i \notin settled
    BY <1>1, <1>2, <2>1 DEF IInv, CleanCalls, Claim, Loaded
  <2>2. CASE i # w.id
    BY <1>1, <1>2, <1>4, <2>2 DEF IInv, SettledAgrees, TypeOK
  <2>3. w.id \notin settled
    BY <1>1 DEF IInv, CleanCalls, Claim
  <2>4. QED
    BY <2>1, <2>2, <2>3
<1>7. QED
  BY <1>3, <1>5, <1>6 DEF IInv

\* The relay comes back with the entries of its rows.
LEMMA RestartKeeps ==
  ASSUME IInv, Restart
  PROVE  IInv'
<1>1. TypeOK'
  BY LoadedType, SchedulesAssumption DEF Restart, IInv, TypeOK
<1>2. CleanCalls'
  BY DEF Restart, CleanCalls, Claim
<1>3. SettledAgrees'
  BY DEF Restart, SettledAgrees, Loaded
<1>4. QED
  BY <1>1, <1>2, <1>3 DEF IInv

\* No handler, restart or failed write breaks the invariant.
LEMMA NextKeeps == IInv /\ [Next]_vars => IInv'
<1> SUFFICES ASSUME IInv, [Next]_vars PROVE IInv'
  OBVIOUS
<1>1. CASE UNCHANGED vars
  BY <1>1 DEF vars, IInv, TypeOK, CleanCalls, Claim, On, SettledAgrees, Loaded
<1>2. CASE Restart
  BY <1>2, RestartKeeps
<1>3. ASSUME NEW c \in Call, Handle(c) PROVE IInv'
  BY <1>3, UpsertKeeps, AddJobKeeps, RemoveJobKeeps, DeleteKeeps DEF Handle
<1>4. ASSUME NEW c \in Call, Submit(c) PROVE IInv'
  <2>1. ASSUME NEW id \in Uuid, NEW e \in Entry, ToolSchedule(c, id, e) PROVE IInv'
    BY <2>1, BeginKeeps DEF ToolSchedule, Work, Id, IInv, TypeOK
  <2>2. ASSUME NEW e \in Entry, RestCreate(c, e) PROVE IInv'
    <3>1. RestId[e.key] \in Id
      BY SchedulesAssumption DEF Entry, Id
    <3>2. QED
      BY <2>2, <3>1, BeginKeeps DEF RestCreate, Work, IInv, TypeOK
  <2>3. ASSUME NEW id \in Id, NEW cron \in Cron \cup {Keep}, NEW prompt \in Prompt \cup {Keep},
               RestUpdate(c, id, cron, prompt)
        PROVE  IInv'
    <3>1. Merged(row[id], cron, prompt) \in Entry
      BY <2>3, MergedType DEF RestUpdate, IInv, TypeOK
    <3>2. QED
      BY <2>3, <3>1, BeginKeeps DEF RestUpdate, Work, IInv, TypeOK
  <2>4. ASSUME NEW id \in Id, Unschedule(c, id) PROVE IInv'
    BY <2>4, BeginKeeps DEF Unschedule, Work, IInv, TypeOK
  <2>5. QED
    BY <1>4, <2>1, <2>2, <2>3, <2>4 DEF Submit
<1>5. QED
  BY <1>1, <1>2, <1>3, <1>4 DEF Next

\* A relay that starts with no schedules satisfies the invariant.
LEMMA InitHolds == Init => IInv
  BY SchedulesAssumption DEF Init, IInv, TypeOK, CleanCalls, Claim, SettledAgrees, Loaded

\* The invariant holds in every reachable state.
LEMMA Invariant == Spec => []IInv
<1>1. QED
  BY InitHolds, NextKeeps, PTL DEF Spec

\* Rows, cron entries and handlers keep their shape for every number of them.
THEOREM TypeCorrect == Spec => []TypeOK
<1>1. IInv => TypeOK
  BY DEF IInv
<1>2. QED
  BY <1>1, Invariant, PTL

\* However calls on schedules overlap, fail or are cut off by a restart, a
\* schedule that was last changed by an undisturbed call is triggered as stored.
THEOREM SchedulesAgree == Spec => []SettledAgrees
<1>1. IInv => SettledAgrees
  BY DEF IInv
<1>2. QED
  BY <1>1, Invariant, PTL
==============================================================================
