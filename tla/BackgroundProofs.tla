-------------------------- MODULE BackgroundProofs ---------------------------
(*****************************************************************************)
(* Proofs about Upkeep, Automation, Vault, Terminal and Activity, each for   *)
(* any values of its constants, and about the specification that runs them   *)
(* side by side.                                                             *)
(*****************************************************************************)
EXTENDS MCBackground, SequenceTheorems, FiniteSetTheorems, TLAPS

------------------------------------------------------------------------------
(* Upkeep. *)

\* What the checker has listed is as it was listed, and the task it has yet to mark is
\* no longer on the list.
ListIsFresh ==
    /\ \A j \in Job : job[j].status = "none" => job[j].marks = {}
    /\ \A t \in checker.todo : /\ t.marks = job[t.job].marks
                               /\ job[t.job].status # "none"
                               /\ checker.mark # NoMark => t.job # checker.mark.job
    /\ checker.mark # NoMark => job[checker.mark.job].status # "none"

\* The notice of j and k is marked, or about to be.
NoticeTold(j, k) == k \in job[j].marks \/ checker.mark = [job |-> j, kind |-> k]

\* The dispatcher was told what is marked or about to be, and what no mark came of.
NoticesCounted ==
    /\ notices \in [Job -> [Kinds -> Nat]]
    /\ unmarked \in [Job -> [Kinds -> Nat]]
    /\ \A j \in Job, k \in Kinds :
         notices[j][k] <= unmarked[j][k] + IF NoticeTold(j, k) THEN 1 ELSE 0

\* A sequence without repetition.
Distinct(s) == \A i, j \in DOMAIN s : s[i] = s[j] => i = j

\* A record that is tracked is in one place, and once in the queue.
RecordsApart ==
    /\ stored \in [Usage -> Nat]
    /\ Distinct(queue)
    /\ Records(queue) \cap Records(buf) = {}
    /\ (Records(queue) \cup Records(buf)) \cap Records(batch) = {}
    /\ \A u \in Usage : stored[u] <= 1
    /\ \A u \in Records(queue) \cup Records(buf) \cup Records(batch) : stored[u] = 0 /\ u \notin lost
    /\ \A u \in Usage : u \in lost => stored[u] = 0
    /\ \A u \in Usage :
         u \in tracked <=> \/ u \in Records(queue) \cup Records(buf) \cup Records(batch)
                          \/ stored[u] = 1 \/ u \in lost

\* What is inductive: the list of the checker is no older than what it does with it, notices
\* are counted where they are marked, and a record of usage is in one place.
UpkeepInv == UpkeepTypeOK /\ ListIsFresh /\ NoticesCounted /\ RecordsApart

-----------------------------------------------------------------------------
\* Records of sequences.

\* Records of a sequence that grows,
LEMMA RecordsAppend ==
  ASSUME NEW S, NEW s \in Seq(S), NEW x \in S
  PROVE  /\ Append(s, x) \in Seq(S) /\ Len(Append(s, x)) = Len(s) + 1
         /\ Records(Append(s, x)) = Records(s) \cup {x}
         /\ Distinct(s) /\ x \notin Records(s) => Distinct(Append(s, x))
<1>1. /\ Append(s, x) \in Seq(S) /\ Len(Append(s, x)) = Len(s) + 1
      /\ \A i \in 1 .. Len(s) : Append(s, x)[i] = s[i]
      /\ Append(s, x)[Len(s) + 1] = x
      /\ DOMAIN Append(s, x) = 1 .. Len(s) + 1 /\ DOMAIN s = 1 .. Len(s) /\ Len(s) \in Nat
  BY AppendProperties, LenProperties
<1> HIDE DEF Records
<1>2. Records(Append(s, x)) = Records(s) \cup {x}
  BY <1>1 DEF Records
<1>3. ASSUME Distinct(s), x \notin Records(s)
      PROVE  Distinct(Append(s, x))
  BY <1>1, <1>3 DEF Distinct, Records
<1> QED
  BY <1>1, <1>2, <1>3

\* that loses its first,
LEMMA RecordsTail ==
  ASSUME NEW S, NEW s \in Seq(S), s # <<>>
  PROVE  /\ Head(s) \in S /\ Tail(s) \in Seq(S) /\ Len(Tail(s)) = Len(s) - 1
         /\ Records(s) = {Head(s)} \cup Records(Tail(s))
         /\ Distinct(s) => Distinct(Tail(s)) /\ Head(s) \notin Records(Tail(s))
<1>1. /\ Head(s) \in S /\ Tail(s) \in Seq(S) /\ Len(Tail(s)) = Len(s) - 1
      /\ \A i \in 1 .. Len(Tail(s)) : Tail(s)[i] = s[i + 1]
      /\ Head(s) = s[1] /\ Len(s) \in Nat \ {0}
      /\ DOMAIN s = 1 .. Len(s) /\ DOMAIN Tail(s) = 1 .. Len(s) - 1
  BY HeadTailProperties, EmptySeq, LenProperties
<1>2. \A i \in 1 .. Len(s) : i = 1 \/ (i - 1 \in 1 .. Len(s) - 1 /\ s[i] = Tail(s)[i - 1])
  BY <1>1
<1>3. \A i \in 1 .. Len(s) - 1 : i + 1 \in 1 .. Len(s) /\ i + 1 # 1 /\ Tail(s)[i] = s[i + 1]
  BY <1>1
<1>4. Records(s) = {Head(s)} \cup Records(Tail(s))
  <2>1. ASSUME NEW x \in Records(s)
        PROVE  x \in {Head(s)} \cup Records(Tail(s))
    <3>1. PICK i \in 1 .. Len(s) : x = s[i]
      BY <1>1 DEF Records
    <3>2. i # 1 => x \in Records(Tail(s))
      BY <1>1, <1>2, <3>1 DEF Records
    <3> QED
      BY <1>1, <3>1, <3>2
  <2>2. ASSUME NEW x \in Records(Tail(s))
        PROVE  x \in Records(s)
    BY <1>1, <1>3 DEF Records
  <2>3. Head(s) \in Records(s)
    BY <1>1 DEF Records
  <2> QED
    BY <2>1, <2>2, <2>3
<1>5. ASSUME Distinct(s)
      PROVE  Distinct(Tail(s)) /\ Head(s) \notin Records(Tail(s))
  <2>1. Distinct(Tail(s))
    BY <1>1, <1>3, <1>5 DEF Distinct
  <2>2. Head(s) \notin Records(Tail(s))
    BY <1>1, <1>3, <1>5 DEF Distinct, Records
  <2> QED
    BY <2>1, <2>2
<1> QED
  BY <1>1, <1>4, <1>5

\* that is followed by another,
LEMMA RecordsConcat ==
  ASSUME NEW S, NEW s \in Seq(S), NEW t \in Seq(S)
  PROVE  s \o t \in Seq(S) /\ Records(s \o t) = Records(s) \cup Records(t)
<1>1. /\ s \o t \in Seq(S) /\ Len(s \o t) = Len(s) + Len(t)
      /\ Len(s) \in Nat /\ Len(t) \in Nat
      /\ DOMAIN s = 1 .. Len(s) /\ DOMAIN t = 1 .. Len(t)
      /\ DOMAIN (s \o t) = 1 .. Len(s) + Len(t)
      /\ \A i \in 1 .. Len(s) + Len(t) : (s \o t)[i] = IF i <= Len(s) THEN s[i] ELSE t[i - Len(s)]
  BY ConcatProperties, LenProperties
<1>2. ASSUME NEW x \in Records(s \o t)
      PROVE  x \in Records(s) \cup Records(t)
  <2>1. PICK i \in 1 .. Len(s) + Len(t) : x = (s \o t)[i]
    BY <1>1 DEF Records
  <2>2. i <= Len(s) => i \in 1 .. Len(s) /\ x = s[i]
    BY <1>1, <2>1
  <2>3. ~(i <= Len(s)) => i - Len(s) \in 1 .. Len(t) /\ x = t[i - Len(s)]
    BY <1>1, <2>1
  <2> QED
    BY <1>1, <2>2, <2>3 DEF Records
<1>3. ASSUME NEW x \in Records(s)
      PROVE  x \in Records(s \o t)
  <2>1. PICK i \in 1 .. Len(s) : x = s[i]
    BY <1>1 DEF Records
  <2>2. i \in 1 .. Len(s) + Len(t) /\ (s \o t)[i] = x
    BY <1>1, <2>1
  <2> QED
    BY <1>1, <2>2 DEF Records
<1>4. ASSUME NEW x \in Records(t)
      PROVE  x \in Records(s \o t)
  <2>1. PICK i \in 1 .. Len(t) : x = t[i]
    BY <1>1 DEF Records
  <2>2. i + Len(s) \in 1 .. Len(s) + Len(t) /\ ~(i + Len(s) <= Len(s)) /\ i + Len(s) - Len(s) = i
    BY <1>1
  <2>3. (s \o t)[i + Len(s)] = x
    BY <1>1, <2>1, <2>2
  <2> QED
    BY <1>1, <2>2, <2>3 DEF Records
<1> QED
  BY <1>1, <1>2, <1>3, <1>4

\* that is empty.
LEMMA RecordsEmpty == Records(<<>>) = {} /\ Distinct(<<>>) /\ Len(<<>>) = 0
  BY DEF Records, Distinct

-----------------------------------------------------------------------------
\* The ACK checker.

\* The part of the state that the checker of unacknowledged tasks works on.
AckTypeOK ==
    /\ job \in [Job -> JobRow]
    /\ checker \in [todo : SUBSET Listing, now : 0 .. MaxTime,
                    mark : {NoMark} \cup [job : Job, kind : Kinds]]

\* The part of the invariant about it.
AckInv == AckTypeOK /\ ListIsFresh /\ NoticesCounted

\* The mark the checker has yet to set.
LEMMA MarkPending ==
  ASSUME AckTypeOK
  PROVE  /\ checker.mark # NoMark => /\ checker.mark \in [job : Job, kind : Kinds]
                                     /\ checker.mark.job \in Job /\ checker.mark.kind \in Kinds
         /\ \A j \in Job, k \in Kinds : [job |-> j, kind |-> k] # NoMark
<1>1. \A j \in Job, k \in Kinds : [job |-> j, kind |-> k] # NoMark
  BY DEF NoMark, Kinds
<1>2. checker.mark # NoMark => checker.mark \in [job : Job, kind : Kinds]
  BY DEF AckTypeOK
<1> QED
  BY <1>1, <1>2

\* A task is dispatched,
LEMMA DispatchJobStep ==
  ASSUME AckInv, time \in 0 .. MaxTime, NEW j \in Job, DispatchJob(j)
  PROVE  AckInv'
<1> USE DEF AckInv, AckTypeOK
<1>1. /\ job[j].marks = {} /\ checker' = checker /\ notices' = notices /\ unmarked' = unmarked
      /\ job' = [job EXCEPT ![j] = [status |-> "pending", since |-> time, marks |-> {}]]
  BY DEF DispatchJob, ListIsFresh
<1>2. [status |-> "pending", since |-> time, marks |-> {}] \in JobRow
  BY DEF JobRow
<1>3. /\ job' \in [Job -> JobRow]
      /\ \A i \in Job : job'[i].marks = job[i].marks
      /\ \A i \in Job : job'[i].status = "none" => job[i].status = "none"
  BY <1>1, <1>2
<1>4. ListIsFresh'
  BY <1>1, <1>3 DEF ListIsFresh, Listing
<1>5. NoticesCounted'
  BY <1>1, <1>3 DEF NoticesCounted, NoticeTold
<1> QED
  BY <1>1, <1>3, <1>4, <1>5

\* a task is claimed,
LEMMA ClaimJobStep ==
  ASSUME AckInv, NEW j \in Job, ClaimJob(j)
  PROVE  AckInv'
<1> USE DEF AckInv, AckTypeOK
<1>1. /\ checker' = checker /\ notices' = notices /\ unmarked' = unmarked
      /\ job' = [job EXCEPT ![j].status = "claimed"]
  BY DEF ClaimJob
<1>2. /\ job' \in [Job -> JobRow]
      /\ \A i \in Job : job'[i].marks = job[i].marks
      /\ \A i \in Job : job'[i].status = "none" => job[i].status = "none"
  BY <1>1 DEF JobRow
<1>3. ListIsFresh'
  BY <1>1, <1>2 DEF ListIsFresh, Listing
<1>4. NoticesCounted'
  BY <1>1, <1>2 DEF NoticesCounted, NoticeTold
<1> QED
  BY <1>1, <1>2, <1>3, <1>4

\* the checker lists what is late,
LEMMA ListUnackedStep ==
  ASSUME AckInv, time \in 0 .. MaxTime, ListUnacked
  PROVE  AckInv'
<1> USE DEF AckInv, AckTypeOK
<1> DEFINE listed == {[job |-> j, marks |-> job[j].marks] : j \in Unacked}
<1>1. /\ job' = job /\ notices' = notices /\ unmarked' = unmarked
      /\ checker.mark = NoMark
      /\ checker' = [checker EXCEPT !.todo = listed, !.now = time]
  BY DEF ListUnacked, Resting
<1>2. ASSUME NEW t \in listed
      PROVE  t \in Listing /\ t.marks = job[t.job].marks /\ job[t.job].status # "none"
  BY DEF Unacked, Listing, JobRow
<1>3. listed \in SUBSET Listing
  BY <1>2
<1> HIDE DEF listed
<1>4. /\ checker'.todo = listed /\ checker'.mark = NoMark
      /\ checker' \in [todo : SUBSET Listing, now : 0 .. MaxTime,
                       mark : {NoMark} \cup [job : Job, kind : Kinds]]
  BY <1>1, <1>3
<1>5. ListIsFresh'
  BY <1>1, <1>2, <1>4 DEF ListIsFresh
<1>6. NoticesCounted'
  BY <1>1, <1>4 DEF NoticesCounted, NoticeTold
<1> QED
  BY <1>1, <1>4, <1>5, <1>6

\* tells a dispatcher,
LEMMA NotifyDispatcherStep ==
  ASSUME AckInv, NEW t \in checker.todo, NotifyDispatcher(t)
  PROVE  AckInv'
<1> USE DEF AckInv, AckTypeOK
<1> DEFINE kind == DueNotice(t)
           mark == IF kind = "none" THEN NoMark ELSE [job |-> t.job, kind |-> kind]
<1>1. /\ job' = job /\ unmarked' = unmarked /\ checker.mark = NoMark
      /\ checker' = [checker EXCEPT !.todo = @ \ {t}, !.mark = mark]
      /\ notices' = IF kind = "none" THEN notices ELSE [notices EXCEPT ![t.job][kind] = @ + 1]
  BY DEF NotifyDispatcher
<1>2. t.job \in Job /\ t.marks = job[t.job].marks
  BY DEF ListIsFresh, Listing
<1>3. kind = "none" \/ (kind \in Kinds /\ kind \notin t.marks)
  BY DEF DueNotice, Kinds
<1> HIDE DEF kind
<1>4. mark \in {NoMark} \cup [job : Job, kind : Kinds]
  BY <1>2, <1>3
<1> HIDE DEF mark
<1>5. /\ checker'.todo = checker.todo \ {t} /\ checker'.mark = mark
      /\ checker' \in [todo : SUBSET Listing, now : 0 .. MaxTime,
                       mark : {NoMark} \cup [job : Job, kind : Kinds]]
  BY <1>1, <1>4
<1>6. ListIsFresh'
  <2>1. ASSUME NEW u \in checker.todo, u # t
        PROVE  u.job # t.job
    BY <2>1 DEF ListIsFresh, Listing
  <2>2. mark # NoMark => mark.job = t.job
    BY DEF mark
  <2> QED
    BY <1>1, <1>5, <2>1, <2>2 DEF ListIsFresh
<1>7. NoticesCounted'
  <2>1. CASE kind = "none"
    BY <1>1, <1>5, <2>1 DEF NoticesCounted, NoticeTold, mark
  <2>2. CASE kind \in Kinds
    <3>1. kind # "none"
      BY <2>2 DEF Kinds
    <3>2. /\ notices' \in [Job -> [Kinds -> Nat]]
          /\ \A j \in Job, k \in Kinds :
               notices'[j][k] = IF j = t.job /\ k = kind THEN notices[j][k] + 1 ELSE notices[j][k]
      BY <1>1, <1>2, <2>2, <3>1 DEF NoticesCounted
    <3>3. ASSUME NEW j \in Job, NEW k \in Kinds
          PROVE  notices'[j][k] <= unmarked'[j][k] + IF NoticeTold(j, k)' THEN 1 ELSE 0
      <4>1. /\ notices[j][k] <= unmarked[j][k] + IF k \in job[j].marks THEN 1 ELSE 0
            /\ notices[j][k] \in Nat /\ unmarked[j][k] \in Nat
        BY <1>1, MarkPending DEF NoticesCounted, NoticeTold
      <4>2. NoticeTold(j, k)' <=> k \in job[j].marks \/ (j = t.job /\ k = kind)
        BY <1>1, <1>5, <3>1 DEF NoticeTold, mark
      <4> QED
        BY <1>1, <1>2, <1>3, <3>1, <3>2, <4>1, <4>2
    <3> QED
      BY <1>1, <3>2, <3>3 DEF NoticesCounted
  <2> QED
    BY <1>3, <2>1, <2>2
<1> QED
  BY <1>1, <1>5, <1>6, <1>7

\* marks that it did,
LEMMA MarkNoticeStep ==
  ASSUME AckInv, MarkNotice
  PROVE  AckInv'
<1> USE DEF AckInv, AckTypeOK
<1> DEFINE m == checker.mark
<1>1. /\ m # NoMark /\ notices' = notices /\ unmarked' = unmarked
      /\ job' = [job EXCEPT ![m.job].marks = @ \cup {m.kind}]
      /\ checker' = [checker EXCEPT !.mark = NoMark]
  BY DEF MarkNotice
<1>2. m.job \in Job /\ m.kind \in Kinds /\ m = [job |-> m.job, kind |-> m.kind]
  BY <1>1
<1>3. /\ checker'.todo = checker.todo /\ checker'.mark = NoMark
      /\ checker' \in [todo : SUBSET Listing, now : 0 .. MaxTime,
                       mark : {NoMark} \cup [job : Job, kind : Kinds]]
  BY <1>1
<1>4. /\ job' \in [Job -> JobRow]
      /\ \A i \in Job : job'[i].status = job[i].status
      /\ \A i \in Job : job'[i].marks = job[i].marks \cup IF i = m.job THEN {m.kind} ELSE {}
  BY <1>1, <1>2 DEF JobRow
<1>5. ListIsFresh'
  BY <1>1, <1>3, <1>4 DEF ListIsFresh, Listing
<1>6. ASSUME NEW j \in Job, NEW k \in Kinds
      PROVE  NoticeTold(j, k)' <=> NoticeTold(j, k)
  BY <1>2, <1>3, <1>4, MarkPending DEF NoticeTold
<1>7. NoticesCounted'
  BY <1>1, <1>6 DEF NoticesCounted
<1> QED
  BY <1>1, <1>3, <1>4, <1>5, <1>7

\* The mark fails, or the relay stops before it: the notice is one of the unmarked.
LEMMA MarkIsLost ==
  ASSUME AckInv, NEW rest \in SUBSET Listing, NEW now \in 0 .. MaxTime, rest \subseteq checker.todo,
         checker' = [todo |-> rest, now |-> now, mark |-> NoMark],
         unmarked' = Unmark, UNCHANGED <<job, notices>>
  PROVE  AckInv'
<1> USE DEF AckInv, AckTypeOK
<1>1. /\ checker'.todo = rest /\ checker'.mark = NoMark
      /\ checker' \in [todo : SUBSET Listing, now : 0 .. MaxTime,
                       mark : {NoMark} \cup [job : Job, kind : Kinds]]
  OBVIOUS
<1>2. ListIsFresh'
  BY <1>1 DEF ListIsFresh
<1>3. unmarked' \in [Job -> [Kinds -> Nat]]
  BY DEF Unmark, NoticesCounted
<1>4. ASSUME NEW j \in Job, NEW k \in Kinds
      PROVE  notices'[j][k] <= unmarked'[j][k] + IF NoticeTold(j, k)' THEN 1 ELSE 0
  <2>1. unmarked'[j][k] = unmarked[j][k] + IF checker.mark = [job |-> j, kind |-> k] THEN 1 ELSE 0
    BY DEF Unmark
  <2>2. NoticeTold(j, k)' <=> k \in job[j].marks
    BY <1>1, MarkPending DEF NoticeTold
  <2>3. /\ notices[j][k] \in Nat /\ unmarked[j][k] \in Nat
        /\ notices[j][k] <= unmarked[j][k] + IF NoticeTold(j, k) THEN 1 ELSE 0
    BY DEF NoticesCounted
  <2>4. NoticeTold(j, k) <=> k \in job[j].marks \/ checker.mark = [job |-> j, kind |-> k]
    BY DEF NoticeTold
  <2> QED
    BY <2>1, <2>2, <2>3, <2>4
<1>5. NoticesCounted'
  BY <1>3, <1>4 DEF NoticesCounted
<1> QED
  BY <1>1, <1>2, <1>5

\* or fails to.
LEMMA MarkNoticeFailsStep ==
  ASSUME AckInv, MarkNoticeFails
  PROVE  AckInv'
<1>1. /\ checker.todo \in SUBSET Listing /\ checker.now \in 0 .. MaxTime
      /\ checker' = [todo |-> checker.todo, now |-> checker.now, mark |-> NoMark]
  BY DEF MarkNoticeFails, AckInv, AckTypeOK
<1> QED
  BY <1>1, MarkIsLost DEF MarkNoticeFails

\* Each step of it.
LEMMA AckStep ==
  ASSUME AckInv, time \in 0 .. MaxTime, Ack
  PROVE  AckInv'
  BY DispatchJobStep, ClaimJobStep, ListUnackedStep, NotifyDispatcherStep, MarkNoticeStep,
     MarkNoticeFailsStep DEF Ack

-----------------------------------------------------------------------------
\* Usage records.

\* The part of the state that the batcher of token usage works on.
UsageTypeOK ==
    /\ {queue, buf, batch} \subseteq Seq(Usage)
    /\ Len(queue) <= QueueSize /\ Len(buf) < BatchSize /\ Len(batch) <= BatchSize
    /\ tracked \subseteq Usage
    /\ lost \subseteq Usage

\* The part of the invariant about it.
UsageInv == UsageTypeOK /\ RecordsApart

\* A record is queued,
LEMMA TrackStep ==
  ASSUME UsageInv, NEW u \in Usage, Track(u)
  PROVE  UsageInv'
<1> USE DEF UsageInv, UsageTypeOK
<1>1. /\ queue \in Seq(Usage) /\ buf \in Seq(Usage) /\ batch \in Seq(Usage)
      /\ u \notin tracked /\ tracked' = tracked \cup {u}
      /\ UNCHANGED <<buf, batch, stored>>
  BY DEF Track
<1>2. /\ u \notin Records(queue) \cup Records(buf) \cup Records(batch)
      /\ stored[u] = 0 /\ u \notin lost
  BY <1>1 DEF RecordsApart
<1>3. CASE Len(queue) < QueueSize /\ queue' = Append(queue, u) /\ UNCHANGED lost
  <2>1. /\ queue' \in Seq(Usage) /\ Len(queue') = Len(queue) + 1
        /\ Records(queue') = Records(queue) \cup {u}
        /\ Distinct(queue')
    BY <1>1, <1>2, <1>3, RecordsAppend DEF RecordsApart
  <2>2. UsageTypeOK'
    BY <1>1, <1>3, <2>1, LenProperties, UpkeepAssumption
  <2>3. RecordsApart'
    BY <1>1, <1>2, <1>3, <2>1 DEF RecordsApart
  <2> QED
    BY <2>2, <2>3
<1>4. CASE Len(queue) = QueueSize /\ lost' = lost \cup {u} /\ UNCHANGED queue
  <2>1. RecordsApart'
    BY <1>1, <1>2, <1>4 DEF RecordsApart
  <2> QED
    BY <1>1, <1>4, <2>1
<1> QED
  BY <1>3, <1>4 DEF Track

\* taken,
LEMMA ReceiveStep ==
  ASSUME UsageInv, Receive
  PROVE  UsageInv'
<1> USE DEF UsageInv, UsageTypeOK
<1> DEFINE u == Head(queue)
           b == Append(buf, u)
<1>1. /\ queue \in Seq(Usage) /\ buf \in Seq(Usage) /\ queue # <<>> /\ batch = <<>>
      /\ queue' = Tail(queue) /\ UNCHANGED <<stored, tracked, lost>>
      /\ \/ Len(b) >= BatchSize /\ batch' = b /\ buf' = <<>>
         \/ ~(Len(b) >= BatchSize) /\ buf' = b /\ batch' = <<>>
  BY DEF Receive, Flush
<1>2. /\ u \in Usage /\ queue' \in Seq(Usage) /\ Len(queue') = Len(queue) - 1
      /\ Records(queue) = {u} \cup Records(queue')
      /\ Distinct(queue') /\ u \notin Records(queue')
  BY <1>1, RecordsTail DEF RecordsApart
<1>3. /\ b \in Seq(Usage) /\ Len(b) = Len(buf) + 1 /\ Records(b) = Records(buf) \cup {u}
  BY <1>1, <1>2, RecordsAppend
<1>4. Records(batch) = {} /\ Records(<<>>) = {} /\ Len(<<>>) = 0 /\ <<>> \in Seq(Usage)
  BY <1>1, RecordsEmpty, EmptySeq
<1> HIDE DEF b, u
<1>5. UsageTypeOK'
  <2>1. /\ Len(queue) \in Nat /\ Len(buf) \in Nat /\ Len(b) \in Nat
        /\ QueueSize \in Nat /\ BatchSize \in Nat /\ 0 < BatchSize
    BY <1>1, <1>3, LenProperties, UpkeepAssumption
  <2>2. CASE Len(b) >= BatchSize /\ batch' = b /\ buf' = <<>>
    BY <1>1, <1>2, <1>3, <1>4, <2>1, <2>2
  <2>3. CASE ~(Len(b) >= BatchSize) /\ buf' = b /\ batch' = <<>>
    BY <1>1, <1>2, <1>3, <1>4, <2>1, <2>3
  <2> QED
    BY <1>1, <2>2, <2>3
<1>6. RecordsApart'
  <2>1. \/ Records(batch') = Records(b) /\ Records(buf') = {}
        \/ Records(batch') = {} /\ Records(buf') = Records(b)
    BY <1>1, <1>4
  <2> QED
    BY <1>1, <1>2, <1>3, <1>4, <2>1 DEF RecordsApart
<1> QED
  BY <1>5, <1>6

\* batched on the tick;
LEMMA FlushTickStep ==
  ASSUME UsageInv, FlushTick
  PROVE  UsageInv'
<1> USE DEF UsageInv, UsageTypeOK
<1>1. /\ batch = <<>> /\ batch' = buf /\ buf' = <<>> /\ UNCHANGED <<queue, stored, tracked, lost>>
      /\ buf \in Seq(Usage)
  BY DEF FlushTick, Flush
<1>2. /\ Records(<<>>) = {} /\ Len(<<>>) = 0 /\ <<>> \in Seq(Usage)
      /\ Len(buf) \in Nat /\ BatchSize \in Nat /\ 0 < BatchSize
  BY <1>1, RecordsEmpty, EmptySeq, LenProperties, UpkeepAssumption
<1>3. UsageTypeOK'
  BY <1>1, <1>2
<1>4. RecordsApart'
  BY <1>1, <1>2 DEF RecordsApart
<1> QED
  BY <1>3, <1>4

\* a batch is written or fails.
LEMMA EndOfBatch ==
  ASSUME UsageInv, batch' = <<>>, UNCHANGED <<queue, buf>>, CommitBatch \/ BatchFails
  PROVE  UsageInv'
<1> USE DEF UsageInv, UsageTypeOK
<1>1. /\ Records(<<>>) = {} /\ Len(<<>>) = 0 /\ <<>> \in Seq(Usage) /\ BatchSize \in Nat
      /\ Records(batch) \subseteq Usage
  <2>1. \A i \in DOMAIN batch : batch[i] \in Usage
    BY LenProperties
  <2> QED
    BY <2>1, RecordsEmpty, EmptySeq, UpkeepAssumption DEF Records
<1>2. CASE CommitBatch
  <2>1. /\ stored' = [u \in Usage |-> stored[u] + IF u \in Records(batch) THEN 1 ELSE 0]
        /\ lost' = lost /\ tracked' = tracked
    BY <1>2 DEF CommitBatch
  <2>2. /\ stored' \in [Usage -> Nat]
        /\ \A u \in Usage : stored'[u] = IF u \in Records(batch) THEN stored[u] + 1 ELSE stored[u]
    BY <2>1 DEF RecordsApart
  <2>3. \A u \in Usage : stored'[u] <= 1
    BY <2>2 DEF RecordsApart
  <2>4. \A u \in Records(queue) \cup Records(buf) : stored'[u] = stored[u]
    <3>1. Records(queue) \cup Records(buf) \subseteq Usage
      BY LenProperties DEF Records
    <3> QED
      BY <2>2, <3>1 DEF RecordsApart
  <2>5. RecordsApart'
    BY <1>1, <2>1, <2>2, <2>3, <2>4 DEF RecordsApart
  <2> QED
    BY <1>1, <2>1, <2>5
<1>3. CASE BatchFails
  <2>1. lost' = lost \cup Records(batch) /\ stored' = stored /\ tracked' = tracked
    BY <1>3 DEF BatchFails
  <2>2. RecordsApart'
    BY <1>1, <2>1 DEF RecordsApart
  <2> QED
    BY <1>1, <2>1, <2>2
<1> QED
  BY <1>2, <1>3

\* Each step of it.
LEMMA CountStep ==
  ASSUME UsageInv, Count
  PROVE  UsageInv'
  BY TrackStep, ReceiveStep, FlushTickStep, EndOfBatch DEF Count, CommitBatch, BatchFails

-----------------------------------------------------------------------------
\* Everything together.

\* Locks are rows of locks.
LEMMA LockStep ==
  ASSUME locks \subseteq LockRow, time \in 0 .. MaxTime, Lock
  PROVE  locks' \subseteq LockRow
<1>1. ASSUME NEW a \in Holder, NEW f \in File, ClaimFiles(a, f)
      PROVE  locks' \subseteq LockRow
  BY <1>1 DEF ClaimFiles, LockRow
<1> QED
  BY <1>1 DEF Lock, ReleaseFiles, ExpireFileLocks

\* A relay that stops.
LEMMA StopStep ==
  ASSUME UpkeepInv, UpkeepStops
  PROVE  AckInv' /\ UsageInv'
<1>1. AckInv /\ UsageInv /\ time \in 0 .. MaxTime
  BY DEF UpkeepInv, UpkeepTypeOK, AckInv, AckTypeOK, UsageInv, UsageTypeOK
<1>2. AckInv'
  <2>1. {} \in SUBSET Listing /\ {} \subseteq checker.todo
    OBVIOUS
  <2> QED
    BY <1>1, <2>1, MarkIsLost DEF UpkeepStops
<1>3. UsageInv'
  <2> USE DEF UsageInv, UsageTypeOK
  <2>1. /\ queue' = <<>> /\ buf' = <<>> /\ batch' = <<>> /\ stored' = stored /\ tracked' = tracked
        /\ lost' = lost \cup Records(queue \o buf \o batch)
    BY DEF UpkeepStops
  <2>2. /\ Records(queue \o buf \o batch) \subseteq Usage
        /\ Records(queue \o buf \o batch) = Records(queue) \cup Records(buf) \cup Records(batch)
    <3>1. queue \o buf \o batch \in Seq(Usage)
      BY <1>1, RecordsConcat
    <3>2. Records(queue \o buf \o batch) = Records(queue) \cup Records(buf) \cup Records(batch)
      <4>1. queue \o buf \in Seq(Usage) /\ Records(queue \o buf) = Records(queue) \cup Records(buf)
        BY <1>1, RecordsConcat
      <4>2. ASSUME NEW front \in Seq(Usage)
            PROVE  Records(front \o batch) = Records(front) \cup Records(batch)
        BY <1>1, RecordsConcat
      <4> QED
        BY <4>1, <4>2
    <3>3. Records(queue \o buf \o batch) \subseteq Usage
      BY <3>1, LenProperties DEF Records
    <3> QED
      BY <3>2, <3>3
  <2>3. /\ Records(<<>>) = {} /\ Distinct(<<>>) /\ Len(<<>>) = 0 /\ <<>> \in Seq(Usage)
        /\ BatchSize \in Nat /\ 0 < BatchSize /\ QueueSize \in Nat
    BY RecordsEmpty, EmptySeq, UpkeepAssumption
  <2>4. UsageTypeOK'
    BY <1>1, <2>1, <2>2, <2>3
  <2>5. RecordsApart'
    BY <1>1, <2>1, <2>2, <2>3 DEF RecordsApart
  <2> QED
    BY <2>4, <2>5
<1> QED
  BY <1>2, <1>3

\* The invariant by its parts.
LEMMA UpkeepParts ==
  /\ UpkeepInv <=> AckInv /\ UsageInv /\ time \in 0 .. MaxTime /\ locks \subseteq LockRow
  /\ AckInv' /\ UsageInv' /\ time' \in 0 .. MaxTime /\ locks' \subseteq LockRow => UpkeepInv'
  BY DEF UpkeepInv, UpkeepTypeOK, AckInv, AckTypeOK, UsageInv, UsageTypeOK,
         NoticesCounted

\* What other parts do leaves the checker alone,
LEMMA AckStutters ==
  ASSUME AckInv, UNCHANGED ackVars
  PROVE  AckInv'
  BY DEF AckInv, AckTypeOK, ListIsFresh, NoticesCounted, NoticeTold, ackVars

\* and the batcher.
LEMMA UsageStutters ==
  ASSUME UsageInv, UNCHANGED tokenVars
  PROVE  UsageInv'
  BY DEF UsageInv, UsageTypeOK, RecordsApart, tokenVars

\* The first states satisfy it,
LEMMA UpkeepInitially ==
  ASSUME UpkeepInit
  PROVE  UpkeepInv
<1> USE UpkeepAssumption
<1>1. AckTypeOK /\ ListIsFresh /\ NoticesCounted
  BY DEF UpkeepInit, AckTypeOK, JobRow, ListIsFresh, NoticesCounted, NoticeTold, NoMark, Kinds
<1>2. UsageTypeOK /\ RecordsApart
  BY RecordsEmpty, EmptySeq DEF UpkeepInit, UsageTypeOK, RecordsApart
<1> QED
  BY <1>1, <1>2, UpkeepParts DEF AckInv, UsageInv, UpkeepInit

\* and every step keeps it.
LEMMA UpkeepInductive ==
  ASSUME UpkeepInv, [UpkeepNext]_upkeepVars
  PROVE  UpkeepInv'
<1>1. AckInv /\ UsageInv /\ time \in 0 .. MaxTime /\ locks \subseteq LockRow
  BY UpkeepParts
<1>2. CASE UNCHANGED upkeepVars
  BY <1>1, <1>2, AckStutters, UsageStutters, UpkeepParts DEF upkeepVars
<1>3. CASE Passes
  <2>1. time' \in 0 .. MaxTime
    BY <1>1, <1>3, UpkeepAssumption DEF Passes
  <2> QED
    BY <1>1, <1>3, <2>1, AckStutters, UsageStutters, UpkeepParts DEF Passes
<1>4. CASE Ack /\ UNCHANGED <<time, locks, tokenVars>>
  BY <1>1, <1>4, AckStep, UsageStutters, UpkeepParts
<1>5. CASE Count /\ UNCHANGED <<time, ackVars, locks>>
  BY <1>1, <1>5, CountStep, AckStutters, UpkeepParts
<1>6. CASE Lock /\ UNCHANGED <<time, ackVars, tokenVars>>
  BY <1>1, <1>6, LockStep, AckStutters, UsageStutters, UpkeepParts
<1>7. CASE UpkeepStops
  BY <1>1, <1>7, StopStep, UpkeepParts DEF UpkeepStops
<1> QED
  BY <1>2, <1>3, <1>4, <1>5, <1>6, <1>7 DEF UpkeepNext

\* Late tasks, usage records and locks keep their shape, whatever their numbers, and the
\* sizes of the queue and of a batch.
THEOREM UpkeepTypeCorrect == UpkeepSpec => []UpkeepTypeOK
<1>1. UpkeepInv => UpkeepTypeOK
  BY DEF UpkeepInv
<1> QED
  BY <1>1, UpkeepInitially, UpkeepInductive, PTL DEF UpkeepSpec

\* A dispatcher is told once of each kind of lateness, unless the mark failed or the relay
\* stopped before it (ack_checker.go), and a record of usage is written once at most and,
\* while it waits anywhere, neither stored nor lost (token_tracker.go).
THEOREM UpkeepDoneOnce == UpkeepSpec => []UpkeepOnce
<1>1. ASSUME UpkeepInv
      PROVE  UpkeepOnce
  <2>1. ASSUME NEW j \in Job, NEW k \in Kinds
        PROVE  notices[j][k] <= 1 + unmarked[j][k]
    <3>1. /\ notices[j][k] \in Nat /\ unmarked[j][k] \in Nat
          /\ notices[j][k] <= unmarked[j][k] + IF NoticeTold(j, k) THEN 1 ELSE 0
      BY <1>1 DEF UpkeepInv, NoticesCounted
    <3> QED
      BY <3>1
  <2>2. ASSUME NEW u \in Usage
        PROVE  Copies(u) = IF u \in tracked THEN 1 ELSE 0
    <3>1. stored[u] \in Nat /\ stored[u] <= 1
      BY <1>1 DEF UpkeepInv, RecordsApart
    <3> HIDE DEF Records
    <3> QED
      BY <1>1, <3>1 DEF UpkeepInv, RecordsApart, Copies
  <2> QED
    BY <2>1, <2>2 DEF UpkeepOnce
<1> QED
  BY <1>1, UpkeepInitially, UpkeepInductive, PTL DEF UpkeepSpec

------------------------------------------------------------------------------
(* Automation. *)

\* A dispatch that has listed the triggers.
Busy(d) == dsp[d].pc \in {"loop", "record", "update"}

\* What a dispatch has listed is what the trigger's last fire was, and what it is about
\* to record is no older than that, unless another dispatch crossed it.
Tracked(d) ==
    LET r == dsp[d] IN
    r # NoDispatch =>
        /\ r.pc \in {"begin", "list"} => r.todo = {}
        /\ \A l \in r.todo : /\ EventOf[l.id] = r.event
                             /\ trig[l.id].row # "none"
                             /\ l.id \notin crossed => fired[l.id] <= l.last
        /\ \A l, m \in r.todo : l.id = m.id => l = m
        /\ r.pc \in {"record", "update"} =>
             EventOf[r.at] = r.event /\ \A l \in r.todo : l.id # r.at
        /\ r.pc = "update" /\ r.at \notin crossed => fired[r.at] <= r.now

\* Two dispatches of one event that both have their list have crossed its triggers.
Crossing ==
    \A c, d \in Dispatch :
        c # d /\ Busy(c) /\ Busy(d) /\ dsp[c].event = dsp[d].event
            => \A t \in Trigger : EventOf[t] = dsp[d].event => t \in crossed

\* The last fire is in the row of the trigger, or about to be.
FiringsRecorded(t) ==
    /\ fired[t] <= clock
    /\ fired[t] # 0 => trig[t].row # "none"
    /\ t \notin crossed /\ trig[t].row = "live" =>
         \/ fired[t] <= trig[t].last
         \/ \E d \in Dispatch : dsp[d].pc \in {"record", "update"} /\ dsp[d].at = t

\* The part of the state that dispatches of events work on.
DispatchTypeOK ==
    /\ clock \in 1 .. MaxClock
    /\ trig \in [Trigger -> [row : RowStatus, last : 0 .. MaxClock]]
    /\ dsp \in [Dispatch -> {NoDispatch} \cup Running]
    /\ fired \in [Trigger -> 0 .. MaxClock]
    /\ crossed \subseteq Trigger

\* The part of the invariant about triggers.
DispatchInv ==
    /\ DispatchTypeOK
    /\ \A d \in Dispatch : Tracked(d)
    /\ Crossing
    /\ \A t \in Trigger : FiringsRecorded(t)

\* What a goroutine or request remembers.
LEMMA DispatchStates ==
  ASSUME DispatchTypeOK, NEW d \in Dispatch
  PROVE  /\ dsp[d] = NoDispatch => dsp[d].pc = "idle"
         /\ dsp[d].pc # "idle" => dsp[d] # NoDispatch /\ dsp[d] \in Running
         /\ dsp[d] # NoDispatch => /\ dsp[d] \in Running /\ dsp[d].pc # "idle"
                                   /\ dsp[d].todo \subseteq Listed
                                   /\ dsp[d].at \in Trigger /\ dsp[d].now \in 0 .. MaxClock
  BY DEF DispatchTypeOK, NoDispatch, Running

\* One dispatch moves on, the others stay where they are.
LEMMA DispatchMoves ==
  ASSUME DispatchTypeOK, NEW d \in Dispatch, NEW r \in {NoDispatch} \cup Running, Set(d, r)
  PROVE  /\ dsp' \in [Dispatch -> {NoDispatch} \cup Running]
         /\ dsp'[d] = r
         /\ \A c \in Dispatch : c # d => dsp'[c] = dsp[c]
  BY DEF DispatchTypeOK, Set

\* What a dispatch has seen stays true while its triggers do not fire.
LEMMA TrackStays ==
  ASSUME DispatchTypeOK, DispatchTypeOK', NEW d \in Dispatch, Tracked(d), dsp'[d] = dsp[d],
         crossed \subseteq crossed',
         \A t \in Trigger : trig'[t].row = "none" => trig[t].row = "none",
         \A t \in Trigger \ crossed :
             Busy(d) /\ EventOf[t] = dsp[d].event => fired'[t] = fired[t]
  PROVE  Tracked(d)'
<1> SUFFICES ASSUME dsp[d] # NoDispatch
             PROVE  Tracked(d)'
  BY DEF Tracked
<1>1. /\ dsp[d] \in Running /\ dsp[d].todo \subseteq Listed /\ dsp[d].at \in Trigger
  BY DispatchStates
<1>2. dsp[d].pc \in {"begin", "list"} \/ Busy(d)
  BY <1>1 DEF Running, Busy
<1>3. ASSUME NEW l \in dsp[d].todo
      PROVE  /\ trig'[l.id].row # "none"
             /\ l.id \notin crossed' => fired'[l.id] <= l.last
  <2>1. l.id \in Trigger /\ Busy(d)
    BY <1>1, <1>2 DEF Listed, Tracked
  <2> QED
    BY <2>1 DEF Tracked
<1>4. dsp[d].pc = "update" /\ dsp[d].at \notin crossed' => fired'[dsp[d].at] <= dsp[d].now
  BY <1>1 DEF Tracked, Busy
<1> QED
  BY <1>3, <1>4 DEF Tracked

\* A step in which dispatch d becomes r, and the rows and fires stay.
LEMMA QuietMove ==
  ASSUME DispatchInv, NEW d \in Dispatch, NEW r \in {NoDispatch} \cup Running, Set(d, r),
         UNCHANGED <<clock, trig, fired, crossed>>,
         Tracked(d)',
         r.pc \in {"loop", "record", "update"} => Busy(d) /\ r.event = dsp[d].event,
         dsp[d].pc \in {"record", "update"} => r.pc \in {"record", "update"} /\ r.at = dsp[d].at
  PROVE  DispatchInv'
<1>1. /\ dsp' \in [Dispatch -> {NoDispatch} \cup Running]
      /\ dsp'[d] = r
      /\ \A c \in Dispatch : c # d => dsp'[c] = dsp[c]
  BY DispatchMoves DEF DispatchInv
<1>2. DispatchTypeOK /\ DispatchTypeOK'
  BY <1>1 DEF DispatchInv, DispatchTypeOK
<1>3. ASSUME NEW c \in Dispatch
      PROVE  Tracked(c)'
  BY <1>1, <1>2, TrackStays DEF DispatchInv
<1>4. Crossing'
  BY <1>1 DEF DispatchInv, Crossing, Busy
<1>5. ASSUME NEW t \in Trigger
      PROVE  FiringsRecorded(t)'
  BY <1>1 DEF DispatchInv, FiringsRecorded
<1> QED
  BY <1>2, <1>3, <1>4, <1>5 DEF DispatchInv

\* A dispatch begins,
LEMMA BeginStep ==
  ASSUME DispatchInv, NEW d \in Dispatch, NEW e \in Event, NEW m \in Meta, NEW sync \in BOOLEAN,
         Begin(d, e, m, sync), UNCHANGED <<clock, trig, fired, crossed>>
  PROVE  DispatchInv'
<1>1. PICK t \in Trigger :
         Set(d, [pc |-> IF sync THEN "list" ELSE "begin", event |-> e, meta |-> m,
                 todo |-> {}, at |-> t, now |-> 0])
  BY DEF Begin
<1> DEFINE r == [pc |-> IF sync THEN "list" ELSE "begin", event |-> e, meta |-> m,
                 todo |-> {}, at |-> t, now |-> 0]
<1>2. r \in Running /\ r.pc \in {"begin", "list"} /\ r.todo = {} /\ Set(d, r)
  BY <1>1, AutomationAssumption DEF Running
<1> HIDE DEF r
<1>3. dsp'[d] = r
  BY <1>2, DispatchMoves DEF DispatchInv
<1>4. Tracked(d)'
  BY <1>2, <1>3 DEF Tracked
<1>5. dsp[d].pc = "idle"
  BY DEF Begin, NoDispatch
<1> QED
  BY <1>2, <1>4, <1>5, QuietMove

\* The parts of a dispatch that a step replaces.
LEMMA RunningParts ==
  ASSUME NEW r \in Running
  PROVE  /\ [r EXCEPT !.pc = "list"] \in Running
         /\ \A l : [r EXCEPT !.todo = @ \ {l}] \in Running
         /\ \A s \in SUBSET Listed : [r EXCEPT !.pc = "loop", !.todo = s] \in Running
         /\ \A l : \A t \in Trigger : [r EXCEPT !.pc = "record", !.todo = @ \ {l}, !.at = t] \in Running
         /\ \A now \in 0 .. MaxClock : [r EXCEPT !.pc = "update", !.now = now] \in Running
         /\ [r EXCEPT !.pc = "loop", !.now = 0] \in Running
<1>1. 0 \in 0 .. MaxClock
  BY AutomationAssumption
<1> QED
  BY <1>1 DEF Running

\* starts workflows,
LEMMA FireWorkflowsStep ==
  ASSUME DispatchInv, NEW d \in Dispatch, FireWorkflows(d)
  PROVE  DispatchInv'
<1> DEFINE r == [dsp[d] EXCEPT !.pc = "list"]
<1>1. dsp[d].pc = "begin" /\ Set(d, r) /\ UNCHANGED <<clock, trig, fired, crossed>>
  BY DEF FireWorkflows, Rest
<1>2. dsp[d] # NoDispatch /\ dsp[d] \in Running /\ Tracked(d)
  BY <1>1, DispatchStates DEF DispatchInv
<1>3. r \in Running /\ r.pc = "list" /\ r.todo = dsp[d].todo
  BY <1>2, RunningParts DEF Running
<1> HIDE DEF r
<1>4. dsp'[d] = r
  BY <1>1, <1>3, DispatchMoves DEF DispatchInv
<1>5. Tracked(d)'
  BY <1>1, <1>2, <1>3, <1>4 DEF Tracked
<1> QED
  BY <1>1, <1>3, <1>5, QuietMove

\* passes over a trigger,
LEMMA SkipStep ==
  ASSUME DispatchInv, NEW d \in Dispatch, Skip(d)
  PROVE  DispatchInv'
<1>1. PICK l \in dsp[d].todo : Set(d, [dsp[d] EXCEPT !.todo = @ \ {l}])
  BY DEF Skip
<1> DEFINE r == [dsp[d] EXCEPT !.todo = @ \ {l}]
<1>2. dsp[d].pc = "loop" /\ Set(d, r) /\ UNCHANGED <<clock, trig, fired, crossed>>
  BY <1>1 DEF Skip, Rest
<1>3. dsp[d] # NoDispatch /\ dsp[d] \in Running /\ Tracked(d)
  BY <1>2, DispatchStates DEF DispatchInv
<1>4. r \in Running /\ r.pc = "loop" /\ r.todo = dsp[d].todo \ {l} /\ r.event = dsp[d].event
  BY <1>2, <1>3, RunningParts DEF Running
<1> HIDE DEF r
<1>5. dsp'[d] = r
  BY <1>2, <1>4, DispatchMoves DEF DispatchInv
<1>6. Tracked(d)'
  BY <1>2, <1>3, <1>4, <1>5 DEF Tracked
<1> QED
  BY <1>2, <1>4, <1>6, QuietMove DEF Busy

\* and ends.
LEMMA EndDispatchStep ==
  ASSUME DispatchInv, NEW d \in Dispatch, EndDispatch(d)
  PROVE  DispatchInv'
<1>1. dsp[d].pc = "loop" /\ Set(d, NoDispatch) /\ UNCHANGED <<clock, trig, fired, crossed>>
  BY DEF EndDispatch, Rest
<1>2. dsp'[d] = NoDispatch
  BY <1>1, DispatchMoves DEF DispatchInv
<1>3. Tracked(d)'
  BY <1>2 DEF Tracked
<1> QED
  BY <1>1, <1>3, QuietMove DEF NoDispatch

\* It also ends when its triggers cannot be read.
LEMMA ListFailsStep ==
  ASSUME DispatchInv, NEW d \in Dispatch, ListFails(d)
  PROVE  DispatchInv'
<1>1. dsp[d].pc = "list" /\ Set(d, NoDispatch) /\ UNCHANGED <<clock, trig, fired, crossed>>
  BY DEF ListFails, Rest
<1>2. dsp'[d] = NoDispatch
  BY <1>1, DispatchMoves DEF DispatchInv
<1>3. Tracked(d)'
  BY <1>2 DEF Tracked
<1> QED
  BY <1>1, <1>3, QuietMove DEF NoDispatch

\* A dispatch writes its history,
LEMMA RecordHistoryStep ==
  ASSUME DispatchInv, NEW d \in Dispatch, RecordHistory(d)
  PROVE  DispatchInv'
<1> DEFINE r == [dsp[d] EXCEPT !.pc = "update", !.now = clock]
<1>1. dsp[d].pc = "record" /\ Set(d, r) /\ UNCHANGED <<clock, trig, fired, crossed>>
  BY DEF RecordHistory, Rest
<1>2. /\ dsp[d] # NoDispatch /\ dsp[d] \in Running /\ Tracked(d)
      /\ clock \in 0 .. MaxClock /\ dsp[d].at \in Trigger
  BY <1>1, DispatchStates, AutomationAssumption DEF DispatchInv, DispatchTypeOK
<1>3. /\ r \in Running /\ r.pc = "update" /\ r.todo = dsp[d].todo /\ r.event = dsp[d].event
      /\ r.at = dsp[d].at /\ r.now = clock
  BY <1>2, RunningParts DEF Running
<1>4. fired[r.at] <= r.now
  BY <1>2, <1>3 DEF DispatchInv, FiringsRecorded
<1> HIDE DEF r
<1>5. dsp'[d] = r
  BY <1>1, <1>3, DispatchMoves DEF DispatchInv
<1>6. Tracked(d)'
  BY <1>1, <1>2, <1>3, <1>4, <1>5 DEF Tracked
<1> QED
  BY <1>1, <1>3, <1>6, QuietMove DEF Busy

\* and when it fired;
LEMMA RecordLastFiredStep ==
  ASSUME DispatchInv, NEW d \in Dispatch, RecordLastFired(d)
  PROVE  DispatchInv'
<1> DEFINE r == [dsp[d] EXCEPT !.pc = "loop", !.now = 0]
           t == dsp[d].at
           alone == fired[t] <= dsp[d].now /\ \A c \in Others(d) : dsp[c].event # dsp[d].event
<1>1. /\ dsp[d].pc = "update" /\ Set(d, r) /\ UNCHANGED <<clock, fired>>
      /\ trig' = IF t \in LiveTriggers THEN [trig EXCEPT ![t].last = dsp[d].now] ELSE trig
      /\ crossed' = IF alone THEN crossed \ {t} ELSE crossed
  BY DEF RecordLastFired
<1>2. /\ dsp[d] # NoDispatch /\ dsp[d] \in Running /\ Tracked(d) /\ DispatchTypeOK
      /\ dsp[d].now \in 0 .. MaxClock /\ t \in Trigger
  BY <1>1, DispatchStates DEF DispatchInv
<1>3. /\ r \in Running /\ r.pc = "loop" /\ r.todo = dsp[d].todo /\ r.event = dsp[d].event
  BY <1>2, RunningParts DEF Running
<1> HIDE DEF r
<1>4. /\ dsp' \in [Dispatch -> {NoDispatch} \cup Running]
      /\ dsp'[d] = r
      /\ \A c \in Dispatch : c # d => dsp'[c] = dsp[c]
  BY <1>1, <1>2, <1>3, DispatchMoves
<1>5. /\ trig' \in [Trigger -> [row : RowStatus, last : 0 .. MaxClock]]
      /\ \A u \in Trigger : /\ trig'[u].row = trig[u].row
                            /\ u # t => trig'[u] = trig[u]
      /\ trig[t].row = "live" => trig'[t].last = dsp[d].now
  BY <1>1, <1>2 DEF DispatchTypeOK, LiveTriggers
<1>6. DispatchTypeOK'
  BY <1>1, <1>2, <1>4, <1>5 DEF DispatchTypeOK
<1>7. EventOf[t] = dsp[d].event
  BY <1>1, <1>2 DEF Tracked
<1>8. /\ \A u \in Trigger : u # t => (u \in crossed' <=> u \in crossed)
      /\ t \notin crossed' => t \notin crossed \/ alone
  BY <1>1
<1>9. ASSUME alone, NEW c \in Dispatch, c # d, Busy(c)
      PROVE  dsp[c].event # dsp[d].event
  BY <1>9 DEF Others, Busy
<1> HIDE DEF alone
<1>10. ASSUME NEW c \in Dispatch
      PROVE  Tracked(c)'
  <2>1. CASE c = d
    <3>1. \A l \in r.todo : l.id \in Trigger
      BY <1>2, <1>3, DispatchStates DEF Listed
    <3>2. \A l \in r.todo : l.id # t
      BY <1>1, <1>2, <1>3 DEF Tracked
    <3>3. \A l \in r.todo : /\ trig'[l.id].row # "none"
                            /\ l.id \notin crossed' => fired[l.id] <= l.last
                            /\ EventOf[l.id] = r.event
      BY <1>2, <1>3, <1>5, <1>8, <3>1, <3>2 DEF Tracked
    <3> QED
      BY <1>1, <1>2, <1>3, <1>4, <2>1, <3>3 DEF Tracked
  <2>2. CASE c # d /\ dsp[c] # NoDispatch
    <3>1. /\ Tracked(c) /\ dsp[c] \in Running /\ dsp[c].todo \subseteq Listed
          /\ dsp[c].at \in Trigger /\ dsp'[c] = dsp[c]
      BY <1>2, <1>4, <2>2, DispatchStates DEF DispatchInv
    <3>2. dsp[c].pc \in {"begin", "list"} \/ Busy(c)
      BY <3>1 DEF Running, Busy
    <3>3. ASSUME NEW l \in dsp[c].todo
          PROVE  /\ trig'[l.id].row # "none"
                 /\ l.id \notin crossed' => fired[l.id] <= l.last
      <4>1. l.id \in Trigger /\ Busy(c) /\ EventOf[l.id] = dsp[c].event
        BY <2>2, <3>1, <3>2 DEF Listed, Tracked
      <4>2. l.id = t => ~alone
        BY <1>7, <1>9, <2>2, <4>1
      <4> QED
        BY <1>5, <1>8, <2>2, <3>1, <4>1, <4>2 DEF Tracked
    <3>4. dsp[c].pc = "update" /\ dsp[c].at \notin crossed' => fired[dsp[c].at] <= dsp[c].now
      <4>1. dsp[c].pc = "update" => Busy(c) /\ EventOf[dsp[c].at] = dsp[c].event
        BY <3>1, <2>2 DEF Busy, Tracked
      <4>2. dsp[c].pc = "update" /\ dsp[c].at = t => ~alone
        BY <1>7, <1>9, <2>2, <4>1
      <4> QED
        BY <1>8, <2>2, <3>1, <4>2 DEF Tracked
    <3> QED
      BY <1>1, <2>2, <3>1, <3>3, <3>4 DEF Tracked
  <2>3. CASE c # d /\ dsp[c] = NoDispatch
    BY <1>4, <2>3 DEF Tracked
  <2> QED
    BY <2>1, <2>2, <2>3
<1>11. Crossing'
  <2> SUFFICES ASSUME NEW b \in Dispatch, NEW c \in Dispatch, b # c, Busy(b)', Busy(c)',
                      dsp'[b].event = dsp'[c].event, NEW u \in Trigger,
                      EventOf[u] = dsp'[c].event
               PROVE  u \in crossed'
    BY DEF Crossing
  <2>1. /\ Busy(b) /\ Busy(c) /\ dsp[b].event = dsp[c].event /\ EventOf[u] = dsp[c].event
    BY <1>1, <1>3, <1>4 DEF Busy
  <2>2. u \in crossed
    BY <2>1 DEF DispatchInv, Crossing
  <2>3. u = t => ~alone
    BY <1>7, <1>9, <2>1
  <2> QED
    BY <1>8, <1>1, <2>2, <2>3
<1>12. ASSUME NEW u \in Trigger
      PROVE  FiringsRecorded(u)'
  <2>1. CASE u = t
    <3>1. t \notin crossed' => fired[t] <= dsp[d].now
      BY <1>1, <1>2, <1>8 DEF Tracked, alone
    <3> QED
      BY <1>1, <1>2, <1>5, <2>1, <3>1 DEF DispatchInv, FiringsRecorded
  <2>2. CASE u # t
    BY <1>1, <1>4, <1>5, <1>8, <2>2 DEF DispatchInv, FiringsRecorded
  <2> QED
    BY <2>1, <2>2
<1> QED
  BY <1>6, <1>10, <1>11, <1>12 DEF DispatchInv

\* or fails to record it;
LEMMA RecordFailsStep ==
  ASSUME DispatchInv, NEW d \in Dispatch, RecordFails(d)
  PROVE  DispatchInv'
<1> DEFINE r == [dsp[d] EXCEPT !.pc = "loop", !.now = 0]
           t == dsp[d].at
<1>1. /\ dsp[d].pc = "update" /\ Set(d, r) /\ UNCHANGED <<clock, trig, fired>>
      /\ crossed' = crossed \cup {t}
  BY DEF RecordFails
<1>2. /\ dsp[d] # NoDispatch /\ dsp[d] \in Running /\ Tracked(d) /\ DispatchTypeOK
      /\ t \in Trigger
  BY <1>1, DispatchStates DEF DispatchInv
<1>3. /\ r \in Running /\ r.pc = "loop" /\ r.todo = dsp[d].todo /\ r.event = dsp[d].event
  BY <1>2, RunningParts DEF Running
<1> HIDE DEF r
<1>4. /\ dsp' \in [Dispatch -> {NoDispatch} \cup Running]
      /\ dsp'[d] = r
      /\ \A c \in Dispatch : c # d => dsp'[c] = dsp[c]
  BY <1>1, <1>2, <1>3, DispatchMoves
<1>5. DispatchTypeOK'
  BY <1>1, <1>2, <1>4 DEF DispatchTypeOK
<1>6. ASSUME NEW c \in Dispatch
      PROVE  Tracked(c)'
  <2>1. CASE c = d
    BY <1>1, <1>2, <1>3, <1>4, <2>1 DEF Tracked
  <2>2. CASE c # d
    BY <1>1, <1>2, <1>4, <1>5, <2>2, TrackStays DEF DispatchInv
  <2> QED
    BY <2>1, <2>2
<1>7. Crossing'
  BY <1>1, <1>3, <1>4 DEF DispatchInv, Crossing, Busy
<1>8. ASSUME NEW u \in Trigger
      PROVE  FiringsRecorded(u)'
  BY <1>1, <1>4 DEF DispatchInv, FiringsRecorded
<1> QED
  BY <1>5, <1>6, <1>7, <1>8 DEF DispatchInv

\* fires one,
LEMMA FireStep ==
  ASSUME DispatchInv, NEW d \in Dispatch, Fire(d)
  PROVE  DispatchInv'
<1>1. PICK l \in dsp[d].todo :
         /\ fired' = [fired EXCEPT ![l.id] = clock]
         /\ Set(d, [dsp[d] EXCEPT !.pc = "record", !.todo = @ \ {l}, !.at = l.id])
  BY DEF Fire
<1> DEFINE t == l.id
           r == [dsp[d] EXCEPT !.pc = "record", !.todo = @ \ {l}, !.at = t]
<1>2. /\ dsp[d].pc = "loop" /\ Set(d, r) /\ UNCHANGED <<clock, trig, crossed>>
      /\ fired' = [fired EXCEPT ![t] = clock]
  BY <1>1 DEF Fire
<1>3. /\ dsp[d] # NoDispatch /\ dsp[d] \in Running /\ Tracked(d) /\ DispatchTypeOK
      /\ \A m \in dsp[d].todo : m.id \in Trigger
  BY <1>2, DispatchStates DEF DispatchInv, Listed
<1>4. t \in Trigger /\ EventOf[t] = dsp[d].event /\ trig[t].row # "none"
  BY <1>2, <1>3 DEF Tracked
<1>5. /\ r \in Running /\ r.pc = "record" /\ r.todo = dsp[d].todo \ {l} /\ r.event = dsp[d].event
      /\ r.at = t
  BY <1>3, <1>4, RunningParts DEF Running
<1> HIDE DEF r
<1>6. /\ dsp' \in [Dispatch -> {NoDispatch} \cup Running]
      /\ dsp'[d] = r
      /\ \A c \in Dispatch : c # d => dsp'[c] = dsp[c]
  BY <1>2, <1>3, <1>5, DispatchMoves
<1>7. /\ fired' \in [Trigger -> 0 .. MaxClock] /\ fired'[t] = clock
      /\ \A u \in Trigger : u # t => fired'[u] = fired[u]
  BY <1>2, <1>3, <1>4, AutomationAssumption DEF DispatchTypeOK
<1>8. DispatchTypeOK'
  BY <1>2, <1>3, <1>6, <1>7 DEF DispatchTypeOK
<1>9. ASSUME NEW c \in Dispatch
      PROVE  Tracked(c)'
  <2>1. CASE c = d
    <3>1. \A m \in r.todo : m.id \in Trigger /\ m.id # t
      BY <1>1, <1>3, <1>5 DEF Tracked
    <3> QED
      BY <1>2, <1>3, <1>4, <1>5, <1>6, <1>7, <2>1, <3>1 DEF Tracked
  <2>2. CASE c # d
    <3>1. ASSUME NEW u \in Trigger \ crossed, Busy(c), EventOf[u] = dsp[c].event
          PROVE  fired'[u] = fired[u]
      <4>1. Busy(d)
        BY <1>2 DEF Busy
      <4>2. u # t
        BY <1>4, <2>2, <3>1, <4>1 DEF DispatchInv, Crossing
      <4> QED
        BY <1>7, <4>2
    <3> QED
      BY <1>2, <1>3, <1>6, <1>8, <2>2, <3>1, TrackStays DEF DispatchInv
  <2> QED
    BY <2>1, <2>2
<1>10. Crossing'
  BY <1>2, <1>5, <1>6 DEF DispatchInv, Crossing, Busy
<1>11. ASSUME NEW u \in Trigger
       PROVE  FiringsRecorded(u)'
  <2>1. CASE u = t
    BY <1>2, <1>3, <1>4, <1>5, <1>6, <1>7, <2>1, AutomationAssumption DEF DispatchTypeOK, FiringsRecorded
  <2>2. CASE u # t
    BY <1>2, <1>5, <1>6, <1>7, <2>2 DEF DispatchInv, FiringsRecorded
  <2> QED
    BY <2>1, <2>2
<1> QED
  BY <1>8, <1>9, <1>10, <1>11 DEF DispatchInv

\* lists the triggers,
LEMMA ListStep ==
  ASSUME DispatchInv, NEW d \in Dispatch, List(d)
  PROVE  DispatchInv'
<1> DEFINE e == dsp[d].event
           r == [dsp[d] EXCEPT !.pc = "loop", !.todo = ListTriggers(e)]
<1>1. /\ dsp[d].pc = "list" /\ Set(d, r) /\ UNCHANGED <<clock, trig, fired>>
      /\ crossed' = IF \E c \in Others(d) : dsp[c].event = e
                    THEN crossed \cup {t \in Trigger : EventOf[t] = e}
                    ELSE crossed
  BY DEF List
<1>2. /\ dsp[d] # NoDispatch /\ dsp[d] \in Running /\ DispatchTypeOK
  BY <1>1, DispatchStates DEF DispatchInv
<1>3. \A t \in Trigger : trig[t].last \in 0 .. MaxClock
  BY <1>2 DEF DispatchTypeOK
<1>4. ListTriggers(e) \in SUBSET Listed
  BY <1>3 DEF ListTriggers, Listed, LiveTriggers
<1>5. /\ r \in Running /\ r.pc = "loop" /\ r.todo = ListTriggers(e) /\ r.event = e
  BY <1>2, <1>4, RunningParts DEF Running
<1> HIDE DEF r
<1>6. /\ dsp' \in [Dispatch -> {NoDispatch} \cup Running]
      /\ dsp'[d] = r
      /\ \A c \in Dispatch : c # d => dsp'[c] = dsp[c]
  BY <1>1, <1>2, <1>5, DispatchMoves
<1>7. DispatchTypeOK' /\ crossed \subseteq crossed'
  BY <1>1, <1>2, <1>6 DEF DispatchTypeOK
<1>8. ASSUME NEW t \in Trigger \ crossed', EventOf[t] = e, NEW c \in Dispatch \ {d}, Busy(c)
      PROVE  dsp[c].event # e
  BY <1>1, <1>8 DEF Others, Busy
<1>9. ASSUME NEW c \in Dispatch
      PROVE  Tracked(c)'
  <2>1. CASE c = d
    <3>1. ASSUME NEW l \in ListTriggers(e)
          PROVE  /\ l.id \in Trigger /\ EventOf[l.id] = e /\ trig[l.id].row = "live"
                 /\ l.last = trig[l.id].last /\ l = [id |-> l.id, last |-> trig[l.id].last]
      BY DEF ListTriggers, LiveTriggers
    <3>2. ASSUME NEW l \in ListTriggers(e), l.id \notin crossed'
          PROVE  fired[l.id] <= l.last
      <4>1. ASSUME NEW b \in Dispatch, dsp[b].pc \in {"record", "update"}, dsp[b].at = l.id
            PROVE  FALSE
        <5>1. Busy(b) /\ b # d /\ dsp[b] # NoDispatch
          BY <1>1, <4>1, DispatchStates, <1>2 DEF Busy
        <5>2. dsp[b].event = EventOf[l.id]
          BY <4>1, <5>1 DEF DispatchInv, Tracked
        <5> QED
          BY <1>8, <3>1, <3>2, <5>1, <5>2
      <4> QED
        BY <1>7, <3>1, <3>2, <4>1 DEF DispatchInv, FiringsRecorded
    <3>3. \A l, m \in r.todo : l.id = m.id => l = m
      BY <1>5, <3>1
    <3> QED
      BY <1>1, <1>5, <1>6, <2>1, <3>1, <3>2, <3>3 DEF Tracked
  <2>2. CASE c # d
    BY <1>1, <1>2, <1>6, <1>7, <2>2, TrackStays DEF DispatchInv
  <2> QED
    BY <2>1, <2>2
<1>10. Crossing'
  <2> SUFFICES ASSUME NEW b \in Dispatch, NEW c \in Dispatch, b # c, Busy(b)', Busy(c)',
                      dsp'[b].event = dsp'[c].event, NEW t \in Trigger,
                      EventOf[t] = dsp'[c].event
               PROVE  t \in crossed'
    BY DEF Crossing
  <2>1. CASE b # d /\ c # d
    BY <1>6, <1>7, <2>1 DEF DispatchInv, Crossing, Busy
  <2>2. CASE b = d
    BY <1>5, <1>6, <1>8, <2>2 DEF Busy
  <2>3. CASE c = d
    BY <1>5, <1>6, <1>8, <2>3 DEF Busy
  <2> QED
    BY <2>1, <2>2, <2>3
<1>11. ASSUME NEW t \in Trigger
       PROVE  FiringsRecorded(t)'
  BY <1>1, <1>6, <1>7 DEF DispatchInv, FiringsRecorded
<1> QED
  BY <1>7, <1>9, <1>10, <1>11 DEF DispatchInv

\* Triggers are edited.
LEMMA EditTriggersStep ==
  ASSUME DispatchInv, EditTriggers
  PROVE  DispatchInv'
<1>1. PICK t \in Trigger : CreateTrigger(t) \/ DeleteTrigger(t)
  BY DEF EditTriggers
<1>2. UNCHANGED <<clock, dsp, fired, crossed>> /\ DispatchTypeOK
  BY DEF EditTriggers, DispatchInv
<1>3. /\ trig' \in [Trigger -> [row : RowStatus, last : 0 .. MaxClock]]
      /\ \A u \in Trigger : trig'[u].last = trig[u].last
      /\ \A u \in Trigger : u # t => trig'[u] = trig[u]
      /\ trig'[t].row # "none"
      /\ trig'[t].row = "live" => trig[t].row = "none"
  BY <1>1, <1>2 DEF DispatchTypeOK, CreateTrigger, DeleteTrigger, RowStatus
<1>4. DispatchTypeOK'
  BY <1>2, <1>3 DEF DispatchTypeOK
<1>5. ASSUME NEW c \in Dispatch
      PROVE  Tracked(c)'
  BY <1>2, <1>3, <1>4, TrackStays DEF DispatchInv
<1>6. ASSUME NEW u \in Trigger
      PROVE  FiringsRecorded(u)'
  <2>1. CASE u = t
    <3>1. trig[u].last \in 0 .. MaxClock /\ fired[u] \in 0 .. MaxClock
      BY <1>2 DEF DispatchTypeOK
    <3> QED
      BY <1>2, <1>3, <2>1, <3>1, AutomationAssumption DEF DispatchInv, FiringsRecorded
  <2>2. CASE u # t
    BY <1>2, <1>3, <2>2 DEF DispatchInv, FiringsRecorded
  <2> QED
    BY <2>1, <2>2
<1> QED
  BY <1>2, <1>4, <1>5, <1>6 DEF DispatchInv, Crossing, Busy

\* Time passes.
LEMMA TimeStep ==
  ASSUME DispatchInv, TimePasses
  PROVE  DispatchInv'
<1>1. /\ clock' = clock + 1 /\ UNCHANGED <<trig, dsp, fired, crossed>> /\ DispatchTypeOK
      /\ clock' \in 1 .. MaxClock
  BY AutomationAssumption DEF TimePasses, DispatchInv, DispatchTypeOK
<1>2. DispatchTypeOK'
  BY <1>1 DEF DispatchTypeOK
<1>3. ASSUME NEW c \in Dispatch
      PROVE  Tracked(c)'
  BY <1>1, <1>2, TrackStays DEF DispatchInv
<1>4. ASSUME NEW u \in Trigger
      PROVE  FiringsRecorded(u)'
  <2>1. fired[u] \in 0 .. MaxClock /\ clock \in 1 .. MaxClock
    BY <1>1 DEF DispatchTypeOK
  <2> QED
    BY <1>1, <2>1, AutomationAssumption DEF DispatchInv, FiringsRecorded
<1> QED
  BY <1>1, <1>2, <1>3, <1>4 DEF DispatchInv, Crossing, Busy

\* The relay stops.
LEMMA AutomationStopsStep ==
  ASSUME DispatchInv, AutomationStops
  PROVE  DispatchInv'
<1>1. /\ UNCHANGED <<clock, trig, fired>> /\ DispatchTypeOK
      /\ dsp' = [d \in Dispatch |-> NoDispatch]
      /\ crossed' = crossed \cup
           {dsp[d].at : d \in {c \in Dispatch : dsp[c].pc \in {"record", "update"}}}
  BY DEF AutomationStops, DispatchInv
<1>2. crossed \subseteq crossed' /\ crossed' \subseteq Trigger
  BY <1>1, DispatchStates DEF DispatchTypeOK
<1>3. DispatchTypeOK'
  BY <1>1, <1>2 DEF DispatchTypeOK
<1>4. \A c \in Dispatch : dsp'[c] = NoDispatch
  BY <1>1
<1>5. ASSUME NEW t \in Trigger
      PROVE  FiringsRecorded(t)'
  BY <1>1, <1>2 DEF DispatchInv, FiringsRecorded
<1> QED
  BY <1>3, <1>4, <1>5 DEF DispatchInv, Tracked, Crossing, Busy, NoDispatch

\* What pollers do leaves dispatches alone.
LEMMA DispatchStutters ==
  ASSUME DispatchInv, UNCHANGED <<clock, trig, dsp, fired, crossed>>
  PROVE  DispatchInv'
  BY DEF DispatchInv, DispatchTypeOK, Tracked, Crossing, FiringsRecorded, Busy

\* Each step of a dispatch.
LEMMA DispatchSteps ==
  ASSUME DispatchInv, NEW d \in Dispatch, DispatchStep(d)
  PROVE  DispatchInv'
  BY FireWorkflowsStep, ListStep, ListFailsStep, SkipStep, FireStep, RecordHistoryStep,
     RecordLastFiredStep, RecordFailsStep, EndDispatchStep DEF DispatchStep

-----------------------------------------------------------------------------
\* The poller.

\* What the poller has read of a poll, and the poll's row, say that the condition held
\* and when, if its event was raised.
Remembered(p) ==
    /\ raised[p] <= clock
    /\ raised[p] # 0 => polls[p].row # "none"
    /\ polls[p].row = "live" /\ raised[p] # 0 /\ p \notin unrecorded
         => polls[p].matched /\ raised[p] <= polls[p].last
    /\ \A l \in poller.todo : l.id = p =>
         /\ polls[p].row # "none"
         /\ raised[p] # 0 /\ p \notin unrecorded => l.matched /\ raised[p] <= l.last

\* The part of the state that pollers work on.
PollTypeOK ==
    /\ clock \in 1 .. MaxClock
    /\ polls \in [Poll -> PollRow]
    /\ poller \in Polling
    /\ raised \in [Poll -> 0 .. MaxClock]
    /\ unrecorded \subseteq Poll

\* The part of the invariant about polls.
PollInv ==
    /\ PollTypeOK
    /\ \A p \in Poll : Remembered(p)
    /\ \A l, m \in poller.todo : l.id = m.id => l = m

\* The poller lists what is due,
LEMMA PollTickStep ==
  ASSUME PollInv, PollTick
  PROVE  PollInv'
<1> DEFINE S == {[id |-> p, last |-> polls[p].last, matched |-> polls[p].matched] :
                   p \in {q \in Poll : Due(q)}}
<1>1. /\ poller' = [NoPoll EXCEPT !.todo = S] /\ UNCHANGED <<clock, polls, raised, unrecorded>> /\ PollTypeOK
  BY DEF PollTick, PollInv
<1>2. ASSUME NEW l \in S
      PROVE  /\ l.id \in Poll /\ polls[l.id].row = "live" /\ l \in PolledRow
             /\ l.last = polls[l.id].last /\ l.matched = polls[l.id].matched
             /\ l = [id |-> l.id, last |-> polls[l.id].last, matched |-> polls[l.id].matched]
  <2>1. PICK p \in Poll : /\ Due(p)
                          /\ l = [id |-> p, last |-> polls[p].last, matched |-> polls[p].matched]
    OBVIOUS
  <2>2. polls[p].row = "live" /\ polls[p] \in PollRow
    BY <1>1, <2>1 DEF Due, PollTypeOK
  <2> QED
    BY <2>1, <2>2 DEF PollRow, PolledRow
<1> HIDE DEF S
<1>3. poller'.todo = S /\ poller' \in Polling
  BY <1>1, <1>2 DEF Polling, NoPoll
<1>4. \A l, m \in S : l.id = m.id => l = m
  BY <1>2
<1>5. ASSUME NEW p \in Poll
      PROVE  Remembered(p)'
  BY <1>1, <1>2, <1>3 DEF PollInv, Remembered
<1> QED
  BY <1>1, <1>3, <1>4, <1>5 DEF PollInv, PollTypeOK

\* polls one,
LEMMA PollOnceStep ==
  ASSUME PollInv, NEW l \in poller.todo, NEW matched \in BOOLEAN, PollOnce(l, matched)
  PROVE  PollInv'
<1> DEFINE p == l.id
<1>1. /\ UNCHANGED clock /\ PollTypeOK
      /\ poller' = [todo |-> poller.todo \ {l},
                    raise |-> IF matched /\ ~Suppressed(l) THEN {p} ELSE {}]
      /\ \/ /\ polls' = IF polls[p].row = "live"
                        THEN [polls EXCEPT ![p].last = clock, ![p].matched = matched]
                        ELSE polls
            /\ unrecorded' = unrecorded \ {p}
         \/ polls' = polls /\ unrecorded' = unrecorded \cup {p}
      /\ raised' = IF ~matched THEN [raised EXCEPT ![p] = 0]
                   ELSE IF Suppressed(l) THEN raised ELSE [raised EXCEPT ![p] = clock]
  BY DEF PollOnce, PollInv
<1>2. p \in Poll /\ poller.todo \subseteq PolledRow
  BY <1>1 DEF PollTypeOK, Polling, PolledRow
<1>3. poller' \in Polling /\ poller'.todo = poller.todo \ {l}
  BY <1>1, <1>2 DEF Polling
<1>4. clock \in 1 .. MaxClock /\ clock \in 0 .. MaxClock /\ 0 \in 0 .. MaxClock
  BY <1>1, AutomationAssumption DEF PollTypeOK
<1>5. /\ polls' \in [Poll -> PollRow]
      /\ \A q \in Poll : q # p => polls'[q] = polls[q]
      /\ polls'[p].row = polls[p].row
      /\ polls[p].row = "live" /\ p \notin unrecorded'
           => polls'[p].last = clock /\ polls'[p].matched = matched
      /\ unrecorded' \subseteq Poll
      /\ \A q \in Poll : q # p => (q \in unrecorded' <=> q \in unrecorded)
  BY <1>1, <1>2, <1>4 DEF PollTypeOK, PollRow
<1>6. /\ raised' \in [Poll -> 0 .. MaxClock]
      /\ \A q \in Poll : q # p => raised'[q] = raised[q]
      /\ ~matched => raised'[p] = 0
      /\ raised'[p] \in {0, clock, raised[p]}
  BY <1>1, <1>2, <1>4 DEF PollTypeOK
<1>7. ASSUME NEW q \in Poll
      PROVE  Remembered(q)'
  <2>1. CASE q = p
    <3>1. \A m \in poller'.todo : m.id # p
      BY <1>3 DEF PollInv
    <3>2. polls[p].row # "none" /\ raised[p] <= clock
      BY <1>2 DEF PollInv, Remembered
    <3> QED
      BY <1>1, <1>4, <1>5, <1>6, <2>1, <3>1, <3>2 DEF Remembered
  <2>2. CASE q # p
    BY <1>1, <1>3, <1>5, <1>6, <2>2 DEF PollInv, Remembered
  <2> QED
    BY <2>1, <2>2
<1> QED
  BY <1>1, <1>3, <1>5, <1>6, <1>7 DEF PollInv, PollTypeOK

\* polls are edited,
LEMMA EditPollsStep ==
  ASSUME PollInv, EditPolls
  PROVE  PollInv'
<1>1. PICK p \in Poll : UpsertPollTrigger(p) \/ DeletePollTrigger(p)
  BY DEF EditPolls
<1>2. UNCHANGED <<clock, poller, raised, unrecorded>> /\ PollTypeOK
  BY DEF EditPolls, PollInv
<1>3. /\ polls' \in [Poll -> PollRow]
      /\ \A q \in Poll : q # p => polls'[q] = polls[q]
      /\ polls'[p].row # "none"
      /\ polls'[p].row = "live" => polls[p].row = "none"
  BY <1>1, <1>2 DEF PollTypeOK, PollRow, UpsertPollTrigger, DeletePollTrigger, RowStatus
<1>4. ASSUME NEW q \in Poll
      PROVE  Remembered(q)'
  <2>1. CASE q = p
    BY <1>2, <1>3, <2>1 DEF PollInv, Remembered
  <2>2. CASE q # p
    BY <1>2, <1>3, <2>2 DEF PollInv, Remembered
  <2> QED
    BY <2>1, <2>2
<1> QED
  BY <1>2, <1>3, <1>4 DEF PollInv, PollTypeOK

\* time passes.
LEMMA PollTimeStep ==
  ASSUME PollInv, TimePasses
  PROVE  PollInv'
<1>1. /\ clock' = clock + 1 /\ UNCHANGED <<polls, poller, raised, unrecorded>> /\ PollTypeOK
      /\ clock' \in 1 .. MaxClock
  BY AutomationAssumption DEF TimePasses, PollInv, PollTypeOK
<1>2. ASSUME NEW p \in Poll
      PROVE  Remembered(p)'
  <2>1. raised[p] \in 0 .. MaxClock /\ clock \in 1 .. MaxClock
    BY <1>1 DEF PollTypeOK
  <2> QED
    BY <1>1, <2>1, AutomationAssumption DEF PollInv, Remembered
<1> QED
  BY <1>1, <1>2 DEF PollInv, PollTypeOK

\* The poller stops, raises an event or does nothing.
LEMMA PollerClears ==
  ASSUME PollInv, UNCHANGED <<clock, polls, raised, unrecorded>>,
         poller' \in {poller, NoPoll, [poller EXCEPT !.raise = {}]}
  PROVE  PollInv'
<1>1. poller' \in Polling /\ poller'.todo \subseteq poller.todo
  BY DEF PollInv, PollTypeOK, Polling, NoPoll
<1>2. PollTypeOK'
  BY <1>1 DEF PollInv, PollTypeOK
<1>3. ASSUME NEW p \in Poll
      PROVE  Remembered(p)'
  BY <1>1 DEF PollInv, Remembered
<1> QED
  BY <1>1, <1>2, <1>3 DEF PollInv

-----------------------------------------------------------------------------
\* Everything together.

\* Workflows, and what was started of them.
FlowTypeOK ==
    /\ flows \in [Flow -> {"absent", "on", "off"}]
    /\ started \subseteq Dispatch \X Flow

\* What is inductive: what a dispatch knows of a trigger is no newer than its row, and a
\* trigger that is not crossed has its last firing in its row or on the way to it.
AutomationInv == DispatchInv /\ PollInv /\ FlowTypeOK

\* The first states satisfy it,
LEMMA AutomationInitially ==
  ASSUME AutomationInit
  PROVE  AutomationInv
<1> USE AutomationAssumption
<1>1. DispatchTypeOK /\ PollTypeOK /\ FlowTypeOK
  BY DEF AutomationInit, DispatchTypeOK, PollTypeOK, FlowTypeOK, NoDispatch, NoPoll, Polling,
         PollRow, RowStatus
<1>2. DispatchInv
  BY <1>1 DEF AutomationInit, DispatchInv, Tracked, Crossing, Busy, FiringsRecorded, NoDispatch
<1>3. PollInv
  BY <1>1 DEF AutomationInit, PollInv, Remembered, NoPoll
<1> QED
  BY <1>1, <1>2, <1>3 DEF AutomationInv

\* Each step keeps their shape.
LEMMA FlowStep ==
  ASSUME FlowTypeOK, AutomationNext
  PROVE  FlowTypeOK'
<1>1. \A f \in Flow : CreateWorkflow(f) \/ ToggleWorkflow(f) \/ DeleteWorkflow(f)
        => flows' \in [Flow -> {"absent", "on", "off"}]
  BY DEF FlowTypeOK, CreateWorkflow, ToggleWorkflow, DeleteWorkflow, SetFlow
<1>2. \A d \in Dispatch : FireWorkflows(d) => started' \subseteq Dispatch \X Flow
  BY DEF FlowTypeOK, FireWorkflows
<1>3. \A d \in Dispatch : HandlerEvent(d) \/ ApiWebhook(d) \/ DispatchStep(d)
        => FlowTypeOK'
  BY <1>2 DEF FlowTypeOK, HandlerEvent, ApiWebhook, DispatchStep, FireWorkflows, List, ListFails,
              Skip, Fire, RecordHistory, RecordLastFired, RecordFails, EndDispatch, Rest
<1> QED
  BY <1>1, <1>3 DEF FlowTypeOK, AutomationNext, PollTick, PollOnce, PollRaises, EditTriggers,
                    EditPolls, EditWorkflows, TimePasses, AutomationStops

\* and every step keeps it.
LEMMA AutomationInductive ==
  ASSUME AutomationInv, [AutomationNext]_automationVars
  PROVE  AutomationInv'
<1>1. DispatchInv /\ PollInv /\ FlowTypeOK
  BY DEF AutomationInv
<1>2. CASE UNCHANGED automationVars
  BY <1>1, <1>2, DispatchStutters, PollerClears DEF automationVars, AutomationInv, FlowTypeOK
<1>3. ASSUME AutomationNext
      PROVE  DispatchInv' /\ PollInv'
  <2>1. ASSUME NEW d \in Dispatch, HandlerEvent(d) \/ ApiWebhook(d)
        PROVE  DispatchInv' /\ PollInv'
    BY <1>1, <2>1, BeginStep, PollerClears DEF HandlerEvent, ApiWebhook, Rest
  <2>2. ASSUME NEW d \in Dispatch, DispatchStep(d)
        PROVE  DispatchInv' /\ PollInv'
    <3>1. UNCHANGED <<clock, polls, poller, raised, unrecorded>>
      BY <2>2 DEF DispatchStep, FireWorkflows, List, ListFails, Skip, Fire, RecordHistory,
                  RecordLastFired, RecordFails, EndDispatch, Rest
    <3> QED
      BY <1>1, <2>2, <3>1, DispatchSteps, PollerClears
  <2>3. CASE PollTick
    BY <1>1, <2>3, PollTickStep, DispatchStutters DEF PollTick
  <2>4. ASSUME NEW l \in poller.todo, NEW matched \in EvaluateCondition, PollOnce(l, matched)
        PROVE  DispatchInv' /\ PollInv'
    BY <1>1, <2>4, PollOnceStep, DispatchStutters DEF PollOnce, EvaluateCondition
  <2>5. ASSUME NEW p \in poller.raise, NEW d \in Dispatch, PollRaises(p, d)
        PROVE  DispatchInv' /\ PollInv'
    <3>1. p \in Poll
      BY <1>1 DEF PollInv, PollTypeOK, Polling
    <3> QED
      BY <1>1, <2>5, <3>1, BeginStep, PollerClears, AutomationAssumption DEF PollRaises
  <2>6. CASE EditTriggers
    BY <1>1, <2>6, EditTriggersStep, PollerClears DEF EditTriggers
  <2>7. CASE EditPolls
    BY <1>1, <2>7, EditPollsStep, DispatchStutters DEF EditPolls
  <2>8. CASE EditWorkflows
    BY <1>1, <2>8, DispatchStutters, PollerClears DEF EditWorkflows
  <2>9. CASE TimePasses
    BY <1>1, <2>9, TimeStep, PollTimeStep
  <2>10. CASE AutomationStops
    BY <1>1, <2>10, AutomationStopsStep, PollerClears DEF AutomationStops
  <2> QED
    BY <1>3, <2>1, <2>2, <2>3, <2>4, <2>5, <2>6, <2>7, <2>8, <2>9, <2>10 DEF AutomationNext
<1> QED
  BY <1>1, <1>2, <1>3, FlowStep DEF AutomationInv

\* A trigger fires only in Fire, from what it has listed.
LEMMA OnlyFireFires ==
  ASSUME AutomationInv, AutomationNext, NEW d \in Dispatch,
         dsp[d].pc = "loop", dsp'[d].pc = "record"
  PROVE  Fire(d)
<1> SUFFICES ASSUME ~Fire(d)
             PROVE  dsp'[d] = dsp[d] \/ dsp'[d].pc # "record"
  OBVIOUS
<1>1. DispatchTypeOK /\ dsp[d] # NoDispatch /\ dsp[d] \in Running
  BY DispatchStates DEF AutomationInv, DispatchInv
<1>2. ASSUME NEW c \in Dispatch, NEW r, Set(c, r)
      PROVE  IF c = d THEN dsp'[d] = r ELSE dsp'[d] = dsp[d]
  BY <1>1, <1>2 DEF Set, DispatchTypeOK
<1>3. \A c \in Dispatch, e \in Event, m \in Meta, sync \in BOOLEAN :
        Begin(c, e, m, sync) => dsp'[d] = dsp[d]
  BY <1>1, <1>2 DEF Begin
<1>4. \A c \in Dispatch : HandlerEvent(c) \/ ApiWebhook(c) => dsp'[d] = dsp[d]
  BY <1>3 DEF HandlerEvent, ApiWebhook
<1>5. \A c \in Dispatch : FireWorkflows(c) => dsp'[d] = dsp[d]
  BY <1>2 DEF FireWorkflows
<1>6. \A c \in Dispatch : List(c) => dsp'[d] = dsp[d]
  BY <1>2 DEF List
<1>7. \A c \in Dispatch : Skip(c) => dsp'[d] = dsp[d] \/ dsp'[d].pc = "loop"
  <2>1. ASSUME NEW c \in Dispatch, Skip(c)
        PROVE  dsp'[d] = dsp[d] \/ dsp'[d].pc = "loop"
    <3>1. PICK l \in dsp[c].todo : Set(c, [dsp[c] EXCEPT !.todo = @ \ {l}])
      BY <2>1 DEF Skip
    <3>2. [dsp[d] EXCEPT !.todo = @ \ {l}].pc = "loop"
      BY <1>1 DEF Running
    <3> QED
      BY <1>2, <3>1, <3>2
  <2> QED
    BY <2>1
<1>8. \A c \in Dispatch : Fire(c) => dsp'[d] = dsp[d]
  BY <1>2 DEF Fire
<1>9. \A c \in Dispatch :
        RecordHistory(c) \/ RecordLastFired(c) \/ RecordFails(c) => dsp'[d] = dsp[d]
  BY <1>2 DEF RecordHistory, RecordLastFired, RecordFails
<1>10. \A c \in Dispatch :
         EndDispatch(c) \/ ListFails(c) => dsp'[d] = dsp[d] \/ dsp'[d].pc # "record"
  BY <1>2 DEF EndDispatch, ListFails, NoDispatch
<1>11. \A p \in poller.raise, c \in Dispatch : PollRaises(p, c) => dsp'[d] = dsp[d]
  <2>1. poller.raise \subseteq Poll
    BY DEF AutomationInv, PollInv, PollTypeOK, Polling
  <2> QED
    BY <1>3, <2>1, AutomationAssumption DEF PollRaises
<1>12. AutomationStops => dsp'[d] = NoDispatch
  BY DEF AutomationStops
<1>13. \A c \in Dispatch : DispatchStep(c) => dsp'[d] = dsp[d] \/ dsp'[d].pc # "record"
  BY <1>5, <1>6, <1>7, <1>8, <1>9, <1>10 DEF DispatchStep
<1>14. (\/ PollTick \/ EditTriggers \/ EditPolls \/ EditWorkflows \/ TimePasses
        \/ \E p \in poller.todo, matched \in EvaluateCondition : PollOnce(p, matched))
         => dsp' = dsp
  BY DEF PollTick, PollOnce, EditTriggers, EditPolls, EditWorkflows, TimePasses
<1> QED
  BY <1>4, <1>11, <1>12, <1>13, <1>14 DEF AutomationNext, NoDispatch

\* A trigger that fires has waited,
LEMMA TriggerWaits ==
  ASSUME AutomationInv, AutomationNext, NEW d \in Dispatch, NEW t \in Trigger \ crossed
  PROVE  TriggerWaited(d, t)
<1> SUFFICES ASSUME dsp[d].pc = "loop", dsp'[d].pc = "record", dsp'[d].at = t, fired[t] # 0
             PROVE  clock - fired[t] >= Cooldown
  BY DEF TriggerWaited
<1>1. Fire(d)
  BY OnlyFireFires
<1>2. PICK l \in dsp[d].todo :
         /\ ~Cooling(l.last, Cooldown)
         /\ Set(d, [dsp[d] EXCEPT !.pc = "record", !.todo = @ \ {l}, !.at = l.id])
  BY <1>1 DEF Fire
<1>3. /\ DispatchTypeOK /\ dsp[d] # NoDispatch /\ dsp[d] \in Running /\ Tracked(d)
      /\ l \in Listed
  BY DispatchStates DEF AutomationInv, DispatchInv
<1>4. dsp'[d].at = l.id
  BY <1>2, <1>3 DEF Set, DispatchTypeOK, Running
<1>5. fired[t] <= l.last /\ l.last \in 0 .. MaxClock /\ fired[t] \in 0 .. MaxClock
  BY <1>3, <1>4 DEF Tracked, Listed, DispatchTypeOK
<1>6. l.last # 0
  BY <1>5, AutomationAssumption
<1>7. ~(clock - l.last < Cooldown)
  BY <1>2, <1>6 DEF Cooling
<1> QED
  BY <1>3, <1>5, <1>7, AutomationAssumption DEF DispatchTypeOK

\* and so has a poll.
LEMMA PollWaits ==
  ASSUME AutomationInv, AutomationNext, NEW p \in Poll \ unrecorded
  PROVE  PollWaited(p)
<1> SUFFICES ASSUME raised[p] # 0, raised'[p] # 0, raised'[p] # raised[p]
             PROVE  raised'[p] - raised[p] >= PollCooldown
  BY DEF PollWaited
<1>1. PICK l \in poller.todo, matched \in BOOLEAN : PollOnce(l, matched)
  BY DEF AutomationNext, EvaluateCondition, HandlerEvent, ApiWebhook, DispatchStep,
         FireWorkflows, List, ListFails, Skip, Fire, RecordHistory, RecordLastFired, RecordFails,
         EndDispatch, Rest, PollTick, PollRaises, EditTriggers, EditPolls, EditWorkflows, TimePasses, AutomationStops
<1>2. PollTypeOK /\ Remembered(p) /\ poller.todo \subseteq PolledRow
  BY DEF AutomationInv, PollInv, PollTypeOK, Polling
<1>3. /\ raised' = IF ~matched THEN [raised EXCEPT ![l.id] = 0]
                   ELSE IF Suppressed(l) THEN raised ELSE [raised EXCEPT ![l.id] = clock]
  BY <1>1 DEF PollOnce
<1>4. l.id = p /\ raised'[p] = clock /\ ~Suppressed(l)
  BY <1>2, <1>3 DEF PollTypeOK
<1>5. /\ l.matched /\ raised[p] <= l.last /\ l.last \in 0 .. MaxClock
      /\ raised[p] \in 0 .. MaxClock
  BY <1>2, <1>4 DEF Remembered, PolledRow, PollTypeOK
<1>6. l.last # 0
  BY <1>5, AutomationAssumption
<1>7. ~(clock - l.last < PollCooldown)
  BY <1>4, <1>5, <1>6 DEF Suppressed, Cooling
<1> QED
  BY <1>2, <1>4, <1>5, <1>7, AutomationAssumption DEF PollTypeOK

\* The shape, from the parts.
LEMMA AutomationTyped == AutomationInv => AutomationTypeOK
  BY DEF AutomationInv, AutomationTypeOK, DispatchInv, DispatchTypeOK, PollInv, PollTypeOK,
         FlowTypeOK

\* Triggers, dispatches, polls and workflows keep their shape, whatever their numbers
\* and cooldowns.
THEOREM AutomationTypeCorrect == AutomationSpec => []AutomationTypeOK
  BY AutomationTyped, AutomationInitially, AutomationInductive, PTL DEF AutomationSpec

\* A trigger does not fire again within its cooldown, unless two dispatches looked at it at
\* the same time or its fire was not recorded (dispatcher.go, triggers.go:142-146), and a
\* poll whose last result was written does not raise its event again within its cooldown
\* while its condition holds (poller.go:42-57).
THEOREM CooldownsKept == AutomationSpec => CooldownKept
<1>1. ASSUME AutomationInv, [AutomationNext]_automationVars
      PROVE  [/\ \A d \in Dispatch, t \in Trigger \ crossed : TriggerWaited(d, t)
              /\ \A p \in Poll \ unrecorded : PollWaited(p)]_automationVars
  BY <1>1, TriggerWaits, PollWaits
<1> QED
  BY <1>1, AutomationInitially, AutomationInductive, PTL DEF AutomationSpec, CooldownKept

------------------------------------------------------------------------------
(* Vault. *)

\* Who does not watch yet has heard nothing, whoever runs AddVault is not cancelled, and
\* a watcher without a watch never has anything to do.
NewKeeper(k) ==
    /\ k \in Alive \ Watching => /\ ~keeper[k].pending /\ keeper[k].queue = <<>>
                                 /\ keeper[k].pc # "enter" => keeper[k].hand = NoHand
    /\ k \in Adding => ~keeper[k].cancelled
    /\ k \in Alive /\ keeper[k].deaf => k \in Watching /\ ~Unfinished(k)

\* As long as every change is seen, the last event a watcher has not taken is about the
\* file as it is, and what it has read is what the file says unless it has not taken an
\* event since.
WellTold(k) ==
    ~unseen /\ k \in Watching =>
        LET r == keeper[k] IN
        /\ r.queue # <<>> => (r.queue[Len(r.queue)] = "remove" <=> file[r.path] = 0)
        /\ r.hand \notin {NoHand, file[r.path]} => r.queue # <<>>

\* As long as every change is seen, everybody keeps the vault, those that were cancelled
\* have nothing left to do, and what the first reading found is still so.
AllSee ==
    ~unseen =>
        /\ \A e \in Editor : edit[e] = NoEdit \/ edit[e].pc = "write"
        /\ \A k \in Alive :
             LET r == keeper[k] IN
             /\ r.path = config
             /\ r.cancelled => r.hand = NoHand /\ ~r.pending /\ r.queue = <<>>
             /\ r.pc = "enter" => r.hand \in {NoHand, file[config]}

\* What k will still do makes the index right.
Mends(k) ==
    LET r == keeper[k] IN
    \/ r.pc \in {"cancel", "index"}
    \/ r.hand = file[config] /\ r.hand # NoHand
    \/ r.queue # <<>>
    \/ r.pending /\ file[config] # 0

\* The index is the file, or a watcher is about to make it so.
IndexMended ==
    ~unseen /\ config # NoDir => doc = file[config] \/ \E k \in Alive : Mends(k)

\* Unless two of them overlapped, AddVault leaves the watcher it enters alone.
OneWatches ==
    ~overlapped =>
        /\ \A j, k \in Adding : j = k
        /\ \A k \in Entered : ~keeper[k].cancelled => watched = {k}
        /\ \A k \in Adding :
             keeper[k].pc \in {"index", "enter"} => \A j \in Entered : keeper[j].cancelled

\* What is inductive: the index follows because somebody who has still to look will see the
\* file as it is.
VaultInv ==
    /\ VaultTypeOK
    /\ \A k \in Keeper : NewKeeper(k) /\ WellTold(k)
    /\ AllSee
    /\ IndexMended
    /\ OneWatches

\* --- keepers ---

\* What a watcher holds,
LEMMA KeepingFields ==
  ASSUME NEW r \in Keeping
  PROVE  /\ r # Off
         /\ r.pc \in {"cancel", "index", "enter", "start", "watch"}
         /\ r.path \in Dir /\ r.hand \in Text /\ r.queue \in Seq({"write", "remove"})
         /\ r.pending \in BOOLEAN /\ r.cancelled \in BOOLEAN /\ r.deaf \in BOOLEAN
  BY DEF Keeping, Off

\* and where it is.
LEMMA KeeperStates ==
  ASSUME VaultTypeOK, NEW k \in Keeper
  PROVE  /\ k \in Alive <=> keeper[k] \in Keeping
         /\ k \in Alive <=> keeper[k].pc \in {"cancel", "index", "enter", "start", "watch"}
         /\ k \in Watching <=> keeper[k].pc = "watch"
         /\ k \in Adding <=> keeper[k].pc \in {"cancel", "index", "enter"}
         /\ k \in Entered <=> keeper[k].pc \in {"start", "watch"}
         /\ keeper[k].pc = "off" <=> keeper[k] = Off
<1>1. keeper[k] \in {Off} \cup Keeping
  BY DEF VaultTypeOK
<1>2. Off.pc = "off"
  BY DEF Off
<1>3. CASE keeper[k] = Off
  BY <1>2, <1>3, KeepingFields DEF Alive, Watching, Adding, Entered
<1>4. CASE keeper[k] \in Keeping
  BY <1>2, <1>4, KeepingFields DEF Alive, Watching, Adding, Entered
<1> QED
  BY <1>1, <1>3, <1>4

\* One keeper goes on, the others stay as they are.
LEMMA OneKeeps ==
  ASSUME VaultTypeOK, NEW k \in Keeper, NEW s \in Keeping, Keep(k, s)
  PROVE  /\ keeper' \in [Keeper -> {Off} \cup Keeping]
         /\ keeper'[k] = s
         /\ \A j \in Keeper : j # k => keeper'[j] = keeper[j]
         /\ Alive' = Alive \cup {k}
         /\ s.pc = "watch" => Watching' = Watching \cup {k}
         /\ s.pc # "watch" => Watching' = Watching \ {k}
         /\ s.pc \in {"start", "watch"} => Adding' = Adding \ {k} /\ Entered' = Entered \cup {k}
         /\ s.pc \notin {"start", "watch"} => Adding' = Adding \cup {k} /\ Entered' = Entered \ {k}
<1>1. /\ keeper' \in [Keeper -> {Off} \cup Keeping]
      /\ keeper'[k] = s
      /\ \A j \in Keeper : j # k => keeper'[j] = keeper[j]
  BY DEF VaultTypeOK, Keep
<1>2. s # Off /\ s.pc \in {"cancel", "index", "enter", "start", "watch"}
  BY KeepingFields
<1>3. Alive' = Alive \cup {k}
  BY <1>1, <1>2 DEF Alive
<1>4. /\ s.pc = "watch" => Watching' = Watching \cup {k}
      /\ s.pc # "watch" => Watching' = Watching \ {k}
  BY <1>1, <1>2 DEF Alive, Watching
<1>5. /\ s.pc \in {"start", "watch"} => Adding' = Adding \ {k}
      /\ s.pc \notin {"start", "watch"} => Adding' = Adding \cup {k}
  BY <1>1, <1>2 DEF Alive, Adding
<1>6. /\ s.pc \in {"start", "watch"} => Entered' = Entered \cup {k}
      /\ s.pc \notin {"start", "watch"} => Entered' = Entered \ {k}
  <2>1. Adding \subseteq Alive /\ (s.pc \in {"start", "watch"} => k \notin Adding')
    BY <1>1 DEF Adding
  <2> QED
    BY <1>3, <1>5, <2>1 DEF Entered
<1> QED
  BY <1>1, <1>3, <1>4, <1>5, <1>6

\* One that stays where it is leaves everybody where they are.
LEMMA OneSame ==
  ASSUME VaultTypeOK, NEW k \in Alive, NEW s \in Keeping, Keep(k, s), s.pc = keeper[k].pc
  PROVE  /\ keeper' \in [Keeper -> {Off} \cup Keeping] /\ keeper'[k] = s
         /\ \A j \in Keeper : j # k => keeper'[j] = keeper[j]
         /\ Alive' = Alive /\ Watching' = Watching /\ Adding' = Adding /\ Entered' = Entered
<1>1. /\ k \in Keeper
      /\ s.pc = "watch" <=> k \in Watching
      /\ s.pc \in {"start", "watch"} <=> k \in Entered
      /\ k \in Adding <=> s.pc \notin {"start", "watch"}
  BY KeeperStates, KeepingFields DEF Alive
<1>2. keeper' \in [Keeper -> {Off} \cup Keeping] /\ keeper'[k] = s
      /\ \A j \in Keeper : j # k => keeper'[j] = keeper[j]
  BY <1>1, OneKeeps
<1>3. Alive' = Alive
  <2>1. Alive' = Alive \cup {k}
    BY <1>1, OneKeeps
  <2> QED
    BY <2>1
<1>4. Watching' = Watching
  <2>1. Watching' = IF k \in Watching THEN Watching \cup {k} ELSE Watching \ {k}
    BY <1>1, OneKeeps
  <2> QED
    BY <2>1
<1>5. Adding' = Adding
  <2>1. Adding' = IF k \in Adding THEN Adding \cup {k} ELSE Adding \ {k}
    BY <1>1, OneKeeps
  <2> QED
    BY <2>1
<1>6. Entered' = Entered
  BY <1>3, <1>5 DEF Entered
<1> QED
  BY <1>2, <1>3, <1>4, <1>5, <1>6

\* A file event reaches the watchers of its directory.
LEMMA WatchersTold ==
  ASSUME VaultTypeOK, NEW p \in Dir, NEW news \in {"write", "remove"}, Tell(p, news)
  PROVE  /\ keeper' \in [Keeper -> {Off} \cup Keeping]
         /\ Alive' = Alive /\ Watching' = Watching /\ Adding' = Adding /\ Entered' = Entered
         /\ \A k \in Keeper :
              /\ keeper'[k].pc = keeper[k].pc
              /\ k \in Alive => /\ keeper'[k].path = keeper[k].path
                                /\ keeper'[k].hand = keeper[k].hand
                                /\ keeper'[k].pending = keeper[k].pending
                                /\ keeper'[k].cancelled = keeper[k].cancelled
                                /\ keeper'[k].deaf = keeper[k].deaf
              /\ k \notin Hears(p) \/ Full(k) => keeper'[k] = keeper[k]
              /\ k \in Hears(p) /\ ~Full(k) =>
                   /\ keeper'[k].queue # <<>>
                   /\ keeper'[k].queue[Len(keeper'[k].queue)] = news
<1> DEFINE Gets(k) == [keeper[k] EXCEPT !.queue = Append(@, news)]
<1>1. \A k \in Keeper : keeper'[k] = IF k \in Hears(p) /\ ~Full(k)
                                     THEN Gets(k) ELSE keeper[k]
  BY DEF Tell
<1>2. ASSUME NEW k \in Watching
      PROVE  /\ Gets(k) \in Keeping
             /\ Gets(k).pc = keeper[k].pc /\ Gets(k).path = keeper[k].path
             /\ Gets(k).hand = keeper[k].hand /\ Gets(k).pending = keeper[k].pending
             /\ Gets(k).cancelled = keeper[k].cancelled /\ Gets(k).deaf = keeper[k].deaf
             /\ Gets(k).queue # <<>> /\ Gets(k).queue[Len(Gets(k).queue)] = news
  <2>1. keeper[k] \in Keeping
    BY KeeperStates DEF Watching, Alive
  <2> DEFINE q == keeper[k].queue
  <2>2. q \in Seq({"write", "remove"})
    BY <2>1, KeepingFields
  <2>3. /\ Append(q, news) \in Seq({"write", "remove"}) /\ Append(q, news) # <<>>
        /\ Append(q, news)[Len(Append(q, news))] = news
    BY <2>2, AppendProperties
  <2>4. /\ Gets(k) = [keeper[k] EXCEPT !.queue = Append(q, news)]
    OBVIOUS
  <2> DEFINE new == Append(q, news)
  <2>5. new \in Seq({"write", "remove"}) /\ new # <<>> /\ new[Len(new)] = news
    BY <2>3
  <2>6. Gets(k) = [keeper[k] EXCEPT !.queue = new]
    OBVIOUS
  <2> HIDE DEF new, WatchersTold
  <2>7. /\ Gets(k) \in Keeping
        /\ Gets(k).pc = keeper[k].pc /\ Gets(k).path = keeper[k].path
        /\ Gets(k).hand = keeper[k].hand /\ Gets(k).pending = keeper[k].pending
        /\ Gets(k).cancelled = keeper[k].cancelled /\ Gets(k).deaf = keeper[k].deaf
        /\ Gets(k).queue = new
    BY <2>1, <2>5, <2>6 DEF Keeping
  <2> QED
    BY <2>5, <2>7
<1> HIDE DEF WatchersTold
<1>3. keeper' \in [Keeper -> {Off} \cup Keeping]
  BY <1>1, <1>2 DEF Tell, VaultTypeOK, Hears
<1>4. \A k \in Keeper : keeper'[k] = Off <=> keeper[k] = Off
  BY <1>1, <1>2, KeepingFields, KeeperStates DEF Hears
<1>5. \A k \in Keeper : keeper'[k].pc = keeper[k].pc
  BY <1>1, <1>2 DEF Hears
<1>6. Alive' = Alive /\ Watching' = Watching /\ Adding' = Adding /\ Entered' = Entered
  BY <1>4, <1>5 DEF Alive, Watching, Adding, Entered
<1> QED
  BY <1>1, <1>2, <1>3, <1>5, <1>6 DEF Hears

\* --- the steps ---

\* A watcher that does not move mends what it would have mended.
LEMMA OthersMend ==
  ASSUME NEW j \in Alive, keeper'[j] = keeper[j], file' = file, config' = config
  PROVE  j \in Alive' /\ (Mends(j) => Mends(j)')
  BY DEF Alive, Mends

\* What one keeper must see to when it goes on.
LEMMA OneGoesOn ==
  ASSUME VaultInv, NEW k \in Keeper, NEW s \in Keeping, Keep(k, s), UNCHANGED file,
         NewKeeper(k)', WellTold(k)', ~unseen' => ~unseen \/ Alive = {k}
  PROVE  \A j \in Keeper : (NewKeeper(j) /\ WellTold(j))'
<1>0. VaultTypeOK /\ \A j \in Keeper : NewKeeper(j) /\ WellTold(j)
  BY DEF VaultInv
<1>1. ASSUME NEW j \in Keeper, j # k PROVE (NewKeeper(j) /\ WellTold(j))'
  <2>1. /\ keeper'[j] = keeper[j] /\ (j \in Adding' <=> j \in Adding)
        /\ (j \in Watching' <=> j \in Watching) /\ (j \in Alive' <=> j \in Alive)
    BY <1>0, <1>1, OneKeeps
  <2>2. NewKeeper(j)'
    BY <1>0, <2>1 DEF NewKeeper, Unfinished
  <2>3. WellTold(j)'
    BY <1>0, <1>1, <2>1 DEF WellTold, Watching
  <2> QED
    BY <2>2, <2>3
<1> QED
  BY <1>1

\* A change of a file, by hand or by the dashboard.
LEMMA FileChanges ==
  ASSUME VaultInv, NEW p \in Dir, NEW t \in Text,
         file' = [file EXCEPT ![p] = t],
         Tell(p, IF t = 0 THEN "remove" ELSE "write"),
         UNCHANGED <<config, doc, watched, overlapped>>,
         edit' \in [Editor -> {NoEdit} \cup Editing],
         unseen' \in BOOLEAN,
         ~unseen' => ~unseen /\ Seen(p) /\ edit' = edit
  PROVE  VaultInv'
<1> DEFINE news == IF t = 0 THEN "remove" ELSE "write"
<1>0. VaultTypeOK /\ (\A k \in Keeper : NewKeeper(k) /\ WellTold(k))
        /\ AllSee /\ IndexMended /\ OneWatches
  BY DEF VaultInv
<1>1. news \in {"write", "remove"} /\ (news = "remove" <=> t = 0) /\ Tell(p, news)
  OBVIOUS
<1> HIDE DEF news
<1>2. /\ keeper' \in [Keeper -> {Off} \cup Keeping]
      /\ Alive' = Alive /\ Watching' = Watching /\ Adding' = Adding /\ Entered' = Entered
  BY <1>0, <1>1, WatchersTold
<1>3. \A k \in Keeper :
              /\ keeper'[k].pc = keeper[k].pc
              /\ k \in Alive => /\ keeper'[k].path = keeper[k].path
                                /\ keeper'[k].hand = keeper[k].hand
                                /\ keeper'[k].pending = keeper[k].pending
                                /\ keeper'[k].cancelled = keeper[k].cancelled
                                /\ keeper'[k].deaf = keeper[k].deaf
              /\ k \notin Hears(p) \/ Full(k) => keeper'[k] = keeper[k]
              /\ k \in Hears(p) /\ ~Full(k) =>
                   /\ keeper'[k].queue # <<>>
                   /\ keeper'[k].queue[Len(keeper'[k].queue)] = news
  BY <1>0, <1>1, WatchersTold
<1>4. file' \in [Dir -> Text] /\ file'[p] = t /\ \A q \in Dir : q # p => file'[q] = file[q]
  BY <1>0 DEF VaultTypeOK
<1>5. VaultTypeOK'
  BY <1>0, <1>2, <1>4 DEF VaultTypeOK
<1>6. ASSUME NEW k \in Keeper PROVE NewKeeper(k)'
  <2>1. CASE k \in Hears(p)
    <3>1. k \in Watching /\ k \in Alive /\ ~keeper[k].deaf
      BY <2>1 DEF Hears, Watching
    <3>2. k \notin Adding
      BY <1>0, <3>1, KeeperStates
    <3> QED
      BY <1>2, <1>3, <3>1, <3>2 DEF NewKeeper
  <2>2. CASE k \notin Hears(p)
    BY <1>0, <1>2, <1>3, <2>2 DEF NewKeeper, Unfinished
  <2> QED
    BY <2>1, <2>2
<1>7. ASSUME NEW k \in Keeper PROVE WellTold(k)'
  <2> SUFFICES ASSUME ~unseen', k \in Watching PROVE WellTold(k)'
    BY <1>2 DEF WellTold
  <2>1. ~unseen /\ Seen(p) /\ k \in Alive /\ keeper[k].path \in Dir
    BY <1>0, KeeperStates, KeepingFields DEF Watching
  <2>2. keeper[k].path = config
    BY <1>0, <2>1 DEF AllSee
  <2>3. CASE p = config
    <3>1. k \in Hears(p) /\ ~Full(k)
      BY <2>1, <2>3 DEF Seen
    <3> QED
      BY <1>1, <1>3, <1>4, <2>1, <2>2, <2>3, <3>1 DEF WellTold
  <2>4. CASE p # config
    <3>1. keeper'[k] = keeper[k] /\ file'[keeper[k].path] = file[keeper[k].path]
      BY <1>3, <1>4, <2>1, <2>2, <2>4 DEF Seen
    <3> QED
      BY <1>0, <1>2, <2>1, <3>1 DEF WellTold
  <2> QED
    BY <2>3, <2>4
<1>8. AllSee'
  <2> SUFFICES ASSUME ~unseen'
               PROVE  /\ \A e \in Editor : edit'[e] = NoEdit \/ edit'[e].pc = "write"
                      /\ \A k \in Alive' :
                           /\ keeper'[k].path = config'
                           /\ keeper'[k].cancelled => keeper'[k].hand = NoHand
                                  /\ ~keeper'[k].pending /\ keeper'[k].queue = <<>>
                           /\ keeper'[k].pc = "enter" => keeper'[k].hand \in {NoHand, file'[config']}
    BY DEF AllSee
  <2>1. ~unseen /\ Seen(p) /\ edit' = edit
    OBVIOUS
  <2>2. \A e \in Editor : edit'[e] = NoEdit \/ edit'[e].pc = "write"
    BY <1>0, <2>1 DEF AllSee
  <2>3. ASSUME NEW k \in Alive
        PROVE  /\ keeper'[k].path = config'
               /\ keeper'[k].cancelled => keeper'[k].hand = NoHand
                                  /\ ~keeper'[k].pending /\ keeper'[k].queue = <<>>
               /\ keeper'[k].pc = "enter" => keeper'[k].hand \in {NoHand, file'[config']}
    <3>0. k \in Keeper /\ keeper[k].path \in Dir /\ keeper[k].path = config
      BY <1>0, <2>1, KeeperStates, KeepingFields DEF Alive, AllSee
    <3>1. CASE p = config
      <4>1. k \in Watching /\ ~keeper[k].cancelled
        BY <2>1, <3>1 DEF Seen, Hears
      <4> QED
        BY <1>3, <3>0, <4>1 DEF Watching
    <3>2. CASE p # config
      <4>1. keeper'[k] = keeper[k] /\ file'[config] = file[config]
        BY <1>3, <1>4, <2>1, <3>0, <3>2 DEF Seen
      <4> QED
        BY <1>0, <2>1, <3>0, <4>1 DEF AllSee
    <3> QED
      BY <3>1, <3>2
  <2> QED
    BY <1>2, <2>2, <2>3
<1>9. IndexMended'
  <2> SUFFICES ASSUME ~unseen', config' # NoDir
               PROVE  doc' = file'[config'] \/ \E k \in Alive' : Mends(k)'
    BY DEF IndexMended
  <2>1. ~unseen /\ Seen(p) /\ config \in Dir /\ config # NoDir
    BY <1>0 DEF VaultTypeOK
  <2>2. CASE p = config
    <3>1. PICK k \in Alive : k \in Hears(p) /\ ~Full(k)
      BY <2>1, <2>2 DEF Seen
    <3>2. Mends(k)'
      BY <1>3, <3>1 DEF Mends, Alive
    <3> QED
      BY <1>2, <3>2
  <2>3. CASE p # config
    <3>1. \A k \in Alive : keeper'[k] = keeper[k]
      <4>1. \A k \in Alive : k \notin Hears(p)
        BY <2>1, <2>3 DEF Seen
      <4> QED
        BY <1>3, <4>1 DEF Alive
    <3>2. file'[config] = file[config]
      BY <1>4, <2>1, <2>3
    <3> QED
      BY <1>0, <1>2, <2>1, <3>1, <3>2 DEF IndexMended, Mends
  <2> QED
    BY <2>2, <2>3
<1>10. OneWatches'
  <2>1. \A k \in Keeper : k \in Entered => keeper'[k].cancelled = keeper[k].cancelled
    BY <1>3 DEF Entered
  <2>2. Entered \subseteq Keeper /\ Adding \subseteq Keeper
    BY DEF Entered, Adding, Alive
  <2> QED
    BY <1>0, <1>2, <1>3, <2>1, <2>2 DEF OneWatches
<1> QED
  BY <1>5, <1>6, <1>7, <1>8, <1>9, <1>10 DEF VaultInv

\* A vault is registered,
LEMMA AddsKeeps ==
  ASSUME VaultInv, NEW k \in Keeper, NEW p \in Dir, Adds(k, p), config' = p,
         unseen' = (unseen \/ config # p), UNCHANGED <<file, doc, watched, edit>>
  PROVE  VaultInv'
<1> DEFINE s == [pc |-> "cancel", path |-> p, hand |-> NoHand, queue |-> <<>>,
                 pending |-> FALSE, cancelled |-> FALSE, deaf |-> FALSE]
<1>0. VaultTypeOK /\ (\A j \in Keeper : NewKeeper(j) /\ WellTold(j))
        /\ AllSee /\ IndexMended /\ OneWatches
  BY DEF VaultInv
<1>1. /\ s \in Keeping /\ s.pc = "cancel" /\ s.path = p /\ s.hand = NoHand /\ s.queue = <<>>
      /\ ~s.pending /\ ~s.cancelled /\ ~s.deaf
  BY EmptySeq, VaultAssumption DEF Keeping, NoHand, Text
<1>2. Keep(k, s) /\ keeper[k] = Off /\ overlapped' = (overlapped \/ Adding # {})
  BY DEF Adds
<1> HIDE DEF s
<1>3. /\ keeper' \in [Keeper -> {Off} \cup Keeping] /\ keeper'[k] = s
      /\ \A j \in Keeper : j # k => keeper'[j] = keeper[j]
      /\ Alive' = Alive \cup {k} /\ Watching' = Watching \ {k} /\ Adding' = Adding \cup {k}
      /\ Entered' = Entered \ {k}
  BY <1>0, <1>1, <1>2, OneKeeps
<1>4. NewKeeper(k)' /\ WellTold(k)'
  BY <1>1, <1>3 DEF NewKeeper, WellTold
<1>5. (\A j \in Keeper : (NewKeeper(j) /\ WellTold(j))')
  <2>1. ~unseen' => ~unseen
    BY <1>0 DEF VaultTypeOK
  <2> QED
    BY <1>1, <1>2, <1>4, <2>1, OneGoesOn
<1>6. VaultTypeOK'
  BY <1>0, <1>2, <1>3 DEF VaultTypeOK
<1>7. AllSee'
  <2>1. ASSUME ~unseen' PROVE ~unseen /\ config' = config /\ config = p
    BY <1>0, <2>1 DEF VaultTypeOK
  <2> QED
    BY <1>0, <1>1, <1>3, <2>1 DEF AllSee, Alive
<1>8. IndexMended'
  BY <1>1, <1>3 DEF IndexMended, Mends
<1>9. OneWatches'
  <2>1. ASSUME ~overlapped' PROVE ~overlapped /\ Adding = {}
    BY <1>0, <1>2, <2>1 DEF VaultTypeOK
  <2>2. \A j \in Entered : j # k
    BY <1>2 DEF Entered, Alive
  <2>3. Entered' = Entered /\ \A j \in Entered : keeper'[j] = keeper[j]
    BY <1>3, <2>2 DEF Entered, Alive
  <2> QED
    BY <1>0, <1>1, <1>3, <2>1, <2>3 DEF OneWatches
<1> QED
  BY <1>5, <1>6, <1>7, <1>8, <1>9 DEF VaultInv

\* indexed,
LEMMA IndexAllKeeps ==
  ASSUME VaultInv, NEW k \in Keeper, IndexAll(k)
  PROVE  VaultInv'
<1> DEFINE p == keeper[k].path
           s == [keeper[k] EXCEPT !.pc = "enter", !.hand = file[p]]
<1>0. VaultTypeOK /\ (\A j \in Keeper : NewKeeper(j) /\ WellTold(j))
        /\ AllSee /\ IndexMended /\ OneWatches
  BY DEF VaultInv
<1>1. /\ keeper[k].pc = "index" /\ Keep(k, s)
      /\ unseen' = (unseen \/ (file[p] = 0 /\ doc # 0))
      /\ UNCHANGED <<file, config, doc, watched, edit, overlapped>>
  BY DEF IndexAll
<1>2. keeper[k] \in Keeping /\ k \in Alive /\ k \in Adding /\ k \notin Watching
  BY <1>0, <1>1, KeeperStates
<1>3. file[p] \in Text
  BY <1>0, <1>2, KeepingFields DEF VaultTypeOK
<1>4. /\ s \in Keeping /\ s.pc = "enter" /\ s.path = p /\ s.hand = file[p]
      /\ s.queue = keeper[k].queue /\ s.pending = keeper[k].pending
      /\ s.cancelled = keeper[k].cancelled /\ s.deaf = keeper[k].deaf
  BY <1>2, <1>3 DEF Keeping
<1>5. s.queue = <<>> /\ ~s.pending /\ ~s.cancelled /\ ~s.deaf
  BY <1>0, <1>2, <1>4 DEF NewKeeper
<1> HIDE DEF s
<1>6. /\ keeper' \in [Keeper -> {Off} \cup Keeping] /\ keeper'[k] = s
      /\ \A j \in Keeper : j # k => keeper'[j] = keeper[j]
      /\ Alive' = Alive \cup {k} /\ Watching' = Watching \ {k} /\ Adding' = Adding \cup {k}
      /\ Entered' = Entered \ {k}
  BY <1>0, <1>1, <1>4, OneKeeps
<1>7. NewKeeper(k)' /\ WellTold(k)'
  BY <1>4, <1>5, <1>6 DEF NewKeeper, WellTold
<1>8. (\A j \in Keeper : (NewKeeper(j) /\ WellTold(j))')
  <2>1. ~unseen' => ~unseen
    BY <1>0, <1>1 DEF VaultTypeOK
  <2> QED
    BY <1>1, <1>4, <1>5, <1>7, <2>1, OneGoesOn
<1>9. VaultTypeOK'
  BY <1>0, <1>1, <1>6 DEF VaultTypeOK
<1>10. AllSee'
  <2>1. ASSUME ~unseen' PROVE ~unseen /\ p = config
    BY <1>0, <1>1, <1>2, <2>1 DEF VaultTypeOK, AllSee
  <2> QED
    BY <1>0, <1>1, <1>4, <1>5, <1>6, <2>1 DEF AllSee, Alive
<1>11. IndexMended'
  <2> SUFFICES ASSUME ~unseen', config' # NoDir
               PROVE  doc' = file'[config'] \/ \E j \in Alive' : Mends(j)'
    BY DEF IndexMended
  <2>1. ~unseen /\ p = config /\ (file[p] # 0 \/ doc = 0)
    BY <1>0, <1>1, <1>2 DEF VaultTypeOK, AllSee
  <2>2. CASE file[p] # 0
    BY <1>1, <1>4, <1>6, <2>1, <2>2 DEF Mends, NoHand
  <2>3. CASE file[p] = 0
    BY <1>1, <2>1, <2>3
  <2> QED
    BY <2>2, <2>3
<1>12. OneWatches'
  <2>1. Entered' = Entered /\ Adding' = Adding /\ \A j \in Entered : keeper'[j] = keeper[j]
    BY <1>2, <1>6 DEF Entered, Alive
  <2> QED
    BY <1>0, <1>1, <1>2, <1>4, <1>6, <2>1 DEF OneWatches, Adding, Alive
<1> QED
  BY <1>8, <1>9, <1>10, <1>11, <1>12 DEF VaultInv

\* the watcher before cancelled;
LEMMA CancelOldKeeps ==
  ASSUME VaultInv, NEW k \in Keeper, CancelOld(k)
  PROVE  VaultInv'
<1> DEFINE old == watched \cap Entered
           s == [keeper[k] EXCEPT !.pc = "index"]
           Cancelled(j) == [keeper[j] EXCEPT !.cancelled = TRUE]
<1>0. VaultTypeOK /\ (\A j \in Keeper : NewKeeper(j) /\ WellTold(j))
        /\ AllSee /\ IndexMended /\ OneWatches
  BY DEF VaultInv
<1>1. /\ keeper[k].pc = "cancel"
      /\ keeper' = [i \in Keeper |->
           IF i = k THEN s ELSE IF i \in old THEN Cancelled(i) ELSE keeper[i]]
      /\ unseen' = (unseen \/ \E i \in old : Unfinished(i))
      /\ UNCHANGED <<file, config, doc, watched, edit, overlapped>>
  BY DEF CancelOld
<1>2. keeper[k] \in Keeping /\ k \in Alive /\ k \in Adding /\ k \notin Watching /\ k \notin Entered
  BY <1>0, <1>1, KeeperStates
<1>3. /\ s \in Keeping /\ s.pc = "index" /\ s.path = keeper[k].path /\ s.hand = keeper[k].hand
      /\ s.queue = keeper[k].queue /\ s.pending = keeper[k].pending
      /\ s.cancelled = keeper[k].cancelled /\ s.deaf = keeper[k].deaf
  BY <1>2 DEF Keeping
<1>4. s.queue = <<>> /\ ~s.pending /\ ~s.cancelled /\ s.hand = NoHand /\ ~s.deaf
  BY <1>0, <1>1, <1>2, <1>3 DEF NewKeeper
<1>5. ASSUME NEW j \in Entered
      PROVE  /\ j \in Keeper /\ j # k
             /\ Cancelled(j) \in Keeping /\ Cancelled(j).cancelled
             /\ Cancelled(j).pc = keeper[j].pc /\ Cancelled(j).path = keeper[j].path
             /\ Cancelled(j).hand = keeper[j].hand /\ Cancelled(j).queue = keeper[j].queue
             /\ Cancelled(j).pending = keeper[j].pending /\ Cancelled(j).deaf = keeper[j].deaf
  <2>1. j \in Keeper /\ j # k /\ keeper[j] \in Keeping
    BY <1>0, <1>2, KeeperStates DEF Entered, Alive
  <2> QED
    BY <2>1 DEF Keeping
<1> HIDE DEF s, Cancelled
<1>6. /\ keeper'[k] = s
      /\ \A j \in old : keeper'[j] = Cancelled(j)
      /\ \A j \in Keeper : j # k /\ j \notin old => keeper'[j] = keeper[j]
  BY <1>1, <1>5
<1>7. keeper' \in [Keeper -> {Off} \cup Keeping]
  BY <1>0, <1>1, <1>3, <1>5 DEF VaultTypeOK
<1>8. Alive' = Alive /\ Watching' = Watching /\ Adding' = Adding /\ Entered' = Entered
  <2>1. ASSUME NEW j \in Keeper PROVE keeper'[j] = Off <=> keeper[j] = Off
    <3>1. CASE j = k
      BY <1>2, <1>3, <1>6, <3>1, KeepingFields
    <3>2. CASE j \in old
      BY <1>5, <1>6, <3>2, KeepingFields DEF Entered, Alive
    <3>3. CASE j # k /\ j \notin old
      BY <1>6, <3>3
    <3> QED
      BY <3>1, <3>2, <3>3
  <2>2. \A j \in Keeper : j # k => keeper'[j].pc = keeper[j].pc
    BY <1>5, <1>6
  <2> QED
    BY <1>1, <1>3, <1>6, <2>1, <2>2 DEF Alive, Watching, Adding, Entered
<1>9. VaultTypeOK'
  BY <1>0, <1>1, <1>7 DEF VaultTypeOK
<1>10. ASSUME NEW j \in Keeper PROVE NewKeeper(j)' /\ WellTold(j)'
  <2>1. CASE j = k
    BY <1>2, <1>3, <1>4, <1>6, <1>8, <2>1 DEF NewKeeper, WellTold
  <2>2. CASE j \in old
    <3>1. j \notin Adding /\ j \in Alive
      BY <2>2 DEF Entered
    <3>2. NewKeeper(j)'
      BY <1>0, <1>1, <1>5, <1>6, <1>8, <2>2, <3>1 DEF NewKeeper, Unfinished
    <3>3. WellTold(j)'
      BY <1>0, <1>1, <1>5, <1>6, <1>8, <2>2 DEF WellTold, VaultTypeOK
    <3> QED
      BY <3>2, <3>3
  <2>3. CASE j # k /\ j \notin old
    <3>1. NewKeeper(j)'
      BY <1>0, <1>6, <1>8, <2>3 DEF NewKeeper, Unfinished
    <3>2. WellTold(j)'
      BY <1>0, <1>1, <1>6, <1>8, <2>3 DEF WellTold, VaultTypeOK
    <3> QED
      BY <3>1, <3>2
  <2> QED
    BY <2>1, <2>2, <2>3
<1>11. AllSee'
  <2> SUFFICES ASSUME ~unseen'
               PROVE  /\ \A e \in Editor : edit'[e] = NoEdit \/ edit'[e].pc = "write"
                      /\ \A j \in Alive' :
                           /\ keeper'[j].path = config'
                           /\ keeper'[j].cancelled => keeper'[j].hand = NoHand
                                  /\ ~keeper'[j].pending /\ keeper'[j].queue = <<>>
                           /\ keeper'[j].pc = "enter" => keeper'[j].hand \in {NoHand, file'[config']}
    BY DEF AllSee
  <2>1. ~unseen /\ \A i \in old : keeper[i].hand = NoHand /\ ~keeper[i].pending /\ keeper[i].queue = <<>>
    BY <1>0, <1>1 DEF VaultTypeOK, Unfinished
  <2>2. \A e \in Editor : edit'[e] = NoEdit \/ edit'[e].pc = "write"
    BY <1>0, <1>1, <2>1 DEF AllSee
  <2>3. ASSUME NEW j \in Alive
        PROVE  /\ keeper'[j].path = config'
               /\ keeper'[j].cancelled => keeper'[j].hand = NoHand
                                  /\ ~keeper'[j].pending /\ keeper'[j].queue = <<>>
               /\ keeper'[j].pc = "enter" => keeper'[j].hand \in {NoHand, file'[config']}
    <3>1. CASE j = k
      BY <1>0, <1>1, <1>2, <1>3, <1>4, <1>6, <2>1, <3>1 DEF AllSee
    <3>2. CASE j \in old
      <4>1. keeper[j].pc \in {"start", "watch"} /\ keeper[j].path = config
        BY <1>0, <2>1, <2>3, <3>2, KeeperStates DEF AllSee, Entered, Alive
      <4> QED
        BY <1>1, <1>5, <1>6, <2>1, <3>2, <4>1
    <3>3. CASE j # k /\ j \notin old
      BY <1>0, <1>1, <1>6, <2>1, <3>3 DEF AllSee, Alive
    <3> QED
      BY <3>1, <3>2, <3>3
  <2> QED
    BY <1>8, <2>2, <2>3
<1>12. IndexMended'
  BY <1>2, <1>3, <1>6, <1>8 DEF IndexMended, Mends
<1>13. OneWatches'
  <2> SUFFICES ASSUME ~overlapped' PROVE OneWatches'
    BY DEF OneWatches
  <2>1. \A j \in Adding : j = k
    BY <1>0, <1>1, <1>2 DEF OneWatches
  <2>2. \A j \in Entered : keeper'[j].cancelled
    <3>1. ASSUME NEW j \in Entered, j \notin old PROVE keeper'[j].cancelled
      <4>1. keeper[j].cancelled
        BY <1>0, <1>1, <3>1 DEF OneWatches
      <4> QED
        BY <1>5, <1>6, <3>1, <4>1
    <3> QED
      BY <1>5, <1>6, <3>1
  <2> QED
    BY <1>3, <1>6, <1>8, <2>1, <2>2 DEF OneWatches
<1> QED
  BY <1>9, <1>10, <1>11, <1>12, <1>13 DEF VaultInv

\* a document is written to the index.
LEMMA WriteDocKeeps ==
  ASSUME VaultInv, NEW k \in Keeper, WriteDoc(k)
  PROVE  VaultInv'
<1> DEFINE t == keeper[k].hand
           s == [keeper[k] EXCEPT !.hand = NoHand]
<1>0. VaultTypeOK /\ (\A j \in Keeper : NewKeeper(j) /\ WellTold(j))
        /\ AllSee /\ IndexMended /\ OneWatches
  BY DEF VaultInv
<1>1. /\ k \in Alive /\ t # NoHand /\ doc' = t /\ Keep(k, s)
      /\ unseen' = IF Alone(k) /\ keeper[k].path = config /\ t = file[config]
                   THEN FALSE ELSE unseen
      /\ UNCHANGED <<file, config, watched, edit, overlapped>>
  BY DEF WriteDoc, Alive
<1>2. keeper[k] \in Keeping /\ t \in Text
  BY <1>0, <1>1, KeeperStates, KeepingFields
<1>3. /\ s \in Keeping /\ s.pc = keeper[k].pc /\ s.path = keeper[k].path /\ s.hand = NoHand
      /\ s.queue = keeper[k].queue /\ s.pending = keeper[k].pending
      /\ s.cancelled = keeper[k].cancelled /\ s.deaf = keeper[k].deaf
  BY <1>2, VaultAssumption DEF Keeping, NoHand, Text
<1>4. keeper[k].pc \in {"enter", "watch"}
  BY <1>0, <1>1, KeeperStates DEF NewKeeper
<1> HIDE DEF s
<1>5. /\ keeper' \in [Keeper -> {Off} \cup Keeping] /\ keeper'[k] = s
      /\ \A j \in Keeper : j # k => keeper'[j] = keeper[j]
      /\ Alive' = Alive /\ Watching' = Watching /\ Adding' = Adding /\ Entered' = Entered
  BY <1>0, <1>1, <1>3, OneSame
<1>6. NewKeeper(k)' /\ WellTold(k)'
  <2>1. NewKeeper(k)'
    BY <1>0, <1>3, <1>5 DEF NewKeeper, Unfinished
  <2>2. WellTold(k)'
    BY <1>0, <1>1, <1>3, <1>5 DEF WellTold, Alone
  <2> QED
    BY <2>1, <2>2
<1>7. \A j \in Keeper : (NewKeeper(j) /\ WellTold(j))'
  <2>1. ~unseen' => ~unseen \/ Alive = {k}
    BY <1>1 DEF Alone
  <2> QED
    BY <1>1, <1>3, <1>6, <2>1, OneGoesOn
<1>8. VaultTypeOK'
  <2>1. unseen' \in BOOLEAN
    BY <1>0, <1>1 DEF VaultTypeOK
  <2> QED
    BY <1>0, <1>1, <1>2, <1>5, <2>1 DEF VaultTypeOK
<1>9. AllSee'
  <2>1. CASE Alone(k) /\ keeper[k].path = config /\ t = file[config]
    <3>1. ~keeper[k].cancelled
      BY <2>1 DEF Alone
    <3> QED
      BY <1>1, <1>3, <1>5, <2>1, <3>1 DEF AllSee, Alone
  <2>2. CASE ~(Alone(k) /\ keeper[k].path = config /\ t = file[config])
    <3> SUFFICES ASSUME ~unseen, ~unseen' PROVE AllSee'
      BY <1>1, <2>2 DEF AllSee
    <3>1. \A e \in Editor : edit'[e] = NoEdit \/ edit'[e].pc = "write"
      BY <1>0, <1>1 DEF AllSee
    <3>2. ASSUME NEW j \in Alive
          PROVE  /\ keeper'[j].path = config'
                 /\ keeper'[j].cancelled => keeper'[j].hand = NoHand
                                  /\ ~keeper'[j].pending /\ keeper'[j].queue = <<>>
                 /\ keeper'[j].pc = "enter" => keeper'[j].hand \in {NoHand, file'[config']}
      <4>1. CASE j = k
        BY <1>0, <1>1, <1>3, <1>5, <4>1 DEF AllSee
      <4>2. CASE j # k
        BY <1>0, <1>1, <1>5, <4>2 DEF AllSee, Alive
      <4> QED
        BY <4>1, <4>2
    <3> QED
      BY <1>5, <3>1, <3>2 DEF AllSee
  <2> QED
    BY <2>1, <2>2
<1>10. IndexMended'
  <2>1. CASE t = file[config]
    BY <1>1, <2>1 DEF IndexMended
  <2>2. CASE t # file[config]
    <3> SUFFICES ASSUME ~unseen' PROVE \E j \in Alive' : Mends(j)'
      BY DEF IndexMended
    <3>1. ~unseen /\ keeper[k].path = config
      BY <1>0, <1>1, <2>2 DEF AllSee
    <3>2. keeper[k].pc = "watch"
      BY <1>0, <1>1, <1>4, <2>2, <3>1 DEF AllSee
    <3>3. keeper[k].queue # <<>>
      BY <1>0, <1>1, <2>2, <3>1, <3>2, KeeperStates DEF WellTold
    <3> QED
      BY <1>1, <1>3, <1>5, <3>3 DEF Mends
  <2> QED
    BY <2>1, <2>2
<1>11. OneWatches'
  BY <1>0, <1>1, <1>3, <1>5 DEF OneWatches, Entered, Adding, Alive
<1> QED
  BY <1>7, <1>8, <1>9, <1>10, <1>11 DEF VaultInv

\* Or it is not.
LEMMA WriteDocFailsKeeps ==
  ASSUME VaultInv, NEW k \in Keeper, WriteDocFails(k)
  PROVE  VaultInv'
<1> DEFINE s == [keeper[k] EXCEPT !.hand = NoHand]
<1>0. VaultTypeOK /\ (\A j \in Keeper : NewKeeper(j) /\ WellTold(j)) /\ OneWatches
  BY DEF VaultInv
<1>1. /\ k \in Alive /\ Keep(k, s) /\ unseen'
      /\ UNCHANGED <<file, config, doc, watched, edit, overlapped>>
  BY DEF WriteDocFails, Alive
<1>2. keeper[k] \in Keeping
  BY <1>0, <1>1, KeeperStates
<1>3. /\ s \in Keeping /\ s.pc = keeper[k].pc /\ s.path = keeper[k].path /\ s.hand = NoHand
      /\ s.queue = keeper[k].queue /\ s.pending = keeper[k].pending
      /\ s.cancelled = keeper[k].cancelled /\ s.deaf = keeper[k].deaf
  BY <1>2, VaultAssumption DEF Keeping, NoHand, Text
<1> HIDE DEF s
<1>4. /\ keeper' \in [Keeper -> {Off} \cup Keeping] /\ keeper'[k] = s
      /\ \A j \in Keeper : j # k => keeper'[j] = keeper[j]
      /\ Alive' = Alive /\ Watching' = Watching /\ Adding' = Adding /\ Entered' = Entered
  BY <1>0, <1>1, <1>3, OneSame
<1>5. NewKeeper(k)' /\ WellTold(k)'
  BY <1>0, <1>1, <1>3, <1>4 DEF NewKeeper, Unfinished, WellTold
<1>6. \A j \in Keeper : (NewKeeper(j) /\ WellTold(j))'
  BY <1>1, <1>3, <1>5, OneGoesOn
<1>7. VaultTypeOK'
  BY <1>0, <1>1, <1>4 DEF VaultTypeOK
<1>8. AllSee' /\ IndexMended'
  BY <1>1 DEF AllSee, IndexMended
<1>9. OneWatches'
  BY <1>0, <1>1, <1>3, <1>4 DEF OneWatches, Entered, Adding, Alive
<1> QED
  BY <1>6, <1>7, <1>8, <1>9 DEF VaultInv

\* A watcher that moves on still sees what it saw.
LEMMA OneSees ==
  ASSUME VaultTypeOK, AllSee, NEW k \in Alive, NEW s \in Keeping, Keep(k, s),
         UNCHANGED <<file, config, edit, unseen>>,
         s.path = keeper[k].path, s.cancelled = keeper[k].cancelled, s.pc # "enter",
         s.cancelled /\ keeper[k].hand = NoHand /\ ~keeper[k].pending /\ keeper[k].queue = <<>>
           => s.hand = NoHand /\ ~s.pending /\ s.queue = <<>>
  PROVE  AllSee'
<1> SUFFICES ASSUME ~unseen, ~unseen' PROVE AllSee'
  BY DEF AllSee
<1>1. /\ keeper'[k] = s /\ Alive' = Alive
      /\ \A j \in Keeper : j # k => keeper'[j] = keeper[j]
  BY OneKeeps DEF Alive
<1>2. ASSUME NEW j \in Alive
      PROVE  /\ keeper'[j].path = config'
             /\ keeper'[j].cancelled => keeper'[j].hand = NoHand
                                  /\ ~keeper'[j].pending /\ keeper'[j].queue = <<>>
             /\ keeper'[j].pc = "enter" => keeper'[j].hand \in {NoHand, file'[config']}
  <2>1. CASE j = k
    BY <1>1, <2>1 DEF AllSee
  <2>2. CASE j # k
    BY <1>1, <2>2 DEF AllSee, Alive
  <2> QED
    BY <2>1, <2>2
<1> QED
  BY <1>1, <1>2 DEF AllSee

\* A watcher enters the table and starts,
LEMMA EnterStartKeeps ==
  ASSUME VaultInv, NEW k \in Keeper, EnterWatched(k) \/ StartWatch(k)
  PROVE  VaultInv'
<1>0. VaultTypeOK /\ (\A j \in Keeper : NewKeeper(j) /\ WellTold(j))
        /\ AllSee /\ IndexMended /\ OneWatches
  BY DEF VaultInv
<1>1. PICK mute \in BOOLEAN :
        /\ StartWatch(k) => Keep(k, [keeper[k] EXCEPT !.pc = "watch", !.deaf = mute])
        /\ EnterWatched(k) => mute = keeper[k].deaf
  <2>1. CASE StartWatch(k)
    <3>1. ~EnterWatched(k)
      BY <2>1 DEF StartWatch, EnterWatched
    <3> QED
      BY <2>1, <3>1 DEF StartWatch
  <2>2. CASE EnterWatched(k)
    <3>1. ~StartWatch(k) /\ keeper[k].pc = "enter"
      BY <2>2 DEF StartWatch, EnterWatched
    <3>2. keeper[k].deaf \in BOOLEAN
      BY <1>0, <3>1, KeeperStates, KeepingFields
    <3> QED
      BY <3>1, <3>2
  <2> QED
    BY <2>1, <2>2
<1> DEFINE s == [keeper[k] EXCEPT !.pc = IF EnterWatched(k) THEN "start" ELSE "watch", !.deaf = mute]
<1>2. /\ keeper[k].pc = "enter" \/ keeper[k].pc = "start"
      /\ EnterWatched(k) <=> keeper[k].pc = "enter"
      /\ UNCHANGED <<file, config, doc, edit, unseen, overlapped>>
  BY DEF EnterWatched, StartWatch
<1>3. keeper[k] \in Keeping /\ k \in Alive /\ k \notin Watching /\ (k \in Adding <=> keeper[k].pc = "enter")
  BY <1>0, <1>2, KeeperStates
<1>4. /\ keeper[k].hand = NoHand /\ keeper[k].queue = <<>> /\ ~keeper[k].pending /\ ~keeper[k].deaf
      /\ keeper[k].pc = "enter" => ~keeper[k].cancelled
  BY <1>0, <1>2, <1>3 DEF NewKeeper, EnterWatched
<1>5. /\ s \in Keeping /\ s.pc = (IF keeper[k].pc = "enter" THEN "start" ELSE "watch")
      /\ s.path = keeper[k].path /\ s.hand = NoHand /\ s.cancelled = keeper[k].cancelled
      /\ s.queue = <<>> /\ ~s.pending /\ s.deaf = mute
  BY <1>2, <1>3, <1>4 DEF Keeping
<1>6. Keep(k, s)
  <2>1. CASE StartWatch(k)
    BY <1>1, <1>2, <2>1 DEF StartWatch
  <2>2. CASE EnterWatched(k)
    <3>1. s = [keeper[k] EXCEPT !.pc = "start"]
      BY <1>1, <1>3, <2>2 DEF Keeping
    <3> QED
      BY <2>2, <3>1 DEF EnterWatched
  <2> QED
    BY <2>1, <2>2
<1> HIDE DEF s
<1>7. /\ keeper' \in [Keeper -> {Off} \cup Keeping] /\ keeper'[k] = s
      /\ \A j \in Keeper : j # k => keeper'[j] = keeper[j]
      /\ Alive' = Alive \cup {k}
      /\ s.pc = "watch" => Watching' = Watching \cup {k}
      /\ s.pc # "watch" => Watching' = Watching \ {k}
      /\ Adding' = Adding \ {k} /\ Entered' = Entered \cup {k}
  BY <1>0, <1>2, <1>6, <1>5, OneKeeps
<1>8. NewKeeper(k)' /\ WellTold(k)'
  BY <1>1, <1>2, <1>4, <1>5, <1>7 DEF NewKeeper, WellTold, Unfinished
<1>9. \A j \in Keeper : (NewKeeper(j) /\ WellTold(j))'
  BY <1>2, <1>6, <1>5, <1>8, OneGoesOn
<1>10. VaultTypeOK'
  <2>1. watched' \subseteq Keeper
    BY <1>0 DEF EnterWatched, StartWatch, VaultTypeOK
  <2> QED
    BY <1>0, <1>2, <1>7, <2>1 DEF VaultTypeOK
<1>11. AllSee'
  BY <1>0, <1>6, <1>2, <1>3, <1>4, <1>5, OneSees
<1>12. IndexMended'
  <2> SUFFICES ASSUME ~unseen', config' # NoDir, doc' # file'[config']
               PROVE  \E j \in Alive' : Mends(j)'
    BY DEF IndexMended
  <2>1. PICK j \in Alive : Mends(j)
    BY <1>0, <1>2 DEF IndexMended
  <2>2. j # k
    BY <1>2, <1>4, <2>1 DEF Mends
  <2> QED
    BY <1>2, <1>7, <2>1, <2>2, OthersMend DEF Alive
<1>13. OneWatches'
  <2> SUFFICES ASSUME ~overlapped, ~overlapped' PROVE OneWatches'
    BY <1>2 DEF OneWatches
  <2>1. CASE keeper[k].pc = "enter"
    <3>1. watched' = {k}
      BY <1>2, <2>1 DEF EnterWatched
    <3>2. (\A j \in Adding : j = k) /\ \A j \in Entered : keeper[j].cancelled /\ j # k /\ j \in Keeper
      BY <1>0, <1>3, <2>1 DEF OneWatches, Entered, Alive
    <3> QED
      BY <1>5, <1>7, <3>1, <3>2 DEF OneWatches
  <2>2. CASE keeper[k].pc = "start"
    <3>1. watched' = watched /\ k \in Entered /\ k \notin Adding
      BY <1>0, <1>2, <2>2, KeeperStates DEF StartWatch
    <3>2. Adding \subseteq Keeper /\ Entered \subseteq Keeper /\ Adding' = Adding /\ Entered' = Entered
      BY <1>7, <3>1 DEF Adding, Entered, Alive
    <3>3. /\ \A j \in Entered : keeper'[j].cancelled = keeper[j].cancelled
          /\ \A j \in Adding : keeper'[j] = keeper[j]
      BY <1>5, <1>7, <3>1, <3>2
    <3> QED
      BY <1>0, <3>1, <3>2, <3>3 DEF OneWatches
  <2> QED
    BY <1>2, <2>1, <2>2
<1> QED
  BY <1>9, <1>10, <1>11, <1>12, <1>13 DEF VaultInv

\* A watcher that stays one.
LEMMA OneStillWatches ==
  ASSUME VaultTypeOK, OneWatches, NEW k \in Watching, NEW s \in Keeping, Keep(k, s),
         s.pc = "watch", s.cancelled = keeper[k].cancelled, UNCHANGED <<watched, overlapped>>
  PROVE  OneWatches'
<1>1. k \in Alive /\ k \in Keeper /\ keeper[k].pc = "watch" /\ k \notin Adding
  BY KeeperStates DEF Watching, Alive
<1>2. /\ keeper'[k] = s /\ Entered' = Entered /\ Adding' = Adding
      /\ \A j \in Keeper : j # k => keeper'[j] = keeper[j]
  BY <1>1, OneSame
<1>3. Entered \subseteq Keeper /\ Adding \subseteq Keeper
  BY DEF Entered, Adding, Alive
<1>4. /\ \A j \in Entered : keeper'[j].cancelled = keeper[j].cancelled
      /\ \A j \in Adding : keeper'[j] = keeper[j]
  BY <1>1, <1>2, <1>3
<1> QED
  BY <1>2, <1>4 DEF OneWatches

\* takes an event,
LEMMA TakeEventKeeps ==
  ASSUME VaultInv, NEW k \in Keeper, TakeEvent(k)
  PROVE  VaultInv'
<1> DEFINE q == keeper[k].queue
           rest == Tail(q)
           off == keeper[k].pending \/ Head(q) = "write"
           s == [keeper[k] EXCEPT !.queue = rest, !.pending = off]
<1>0. VaultTypeOK /\ (\A j \in Keeper : NewKeeper(j) /\ WellTold(j))
        /\ AllSee /\ IndexMended /\ OneWatches
  BY DEF VaultInv
<1>1. /\ k \in Watching /\ keeper[k].hand = NoHand /\ q # <<>> /\ Keep(k, s)
      /\ doc' = IF Head(q) = "remove" THEN 0 ELSE doc
      /\ UNCHANGED <<file, config, watched, edit, unseen, overlapped>>
  BY DEF TakeEvent, Free
<1>2. /\ keeper[k] \in Keeping /\ k \in Alive /\ q \in Seq({"write", "remove"})
      /\ keeper[k].pc = "watch" /\ keeper[k].pending \in BOOLEAN
  BY <1>0, <1>1, KeeperStates, KeepingFields
<1>3. /\ rest \in Seq({"write", "remove"}) /\ off \in BOOLEAN
      /\ Head(q) = "write" \/ Head(q) = "remove"
      /\ rest = <<>> => q[Len(q)] = Head(q)
      /\ rest # <<>> => rest[Len(rest)] = q[Len(q)]
  <2>1. /\ rest \in Seq({"write", "remove"}) /\ Head(q) \in {"write", "remove"}
        /\ Len(rest) = Len(q) - 1 /\ \A i \in 1 .. Len(rest) : rest[i] = q[i + 1]
        /\ Head(q) = q[1] /\ Len(q) \in Nat /\ Len(q) > 0
    BY <1>1, <1>2, HeadTailProperties, LenProperties, EmptySeq
  <2> HIDE DEF q, rest
  <2>2. rest = <<>> => Len(q) = 1
    BY <2>1, EmptySeq
  <2>3. rest # <<>> => Len(rest) \in 1 .. Len(rest)
    BY <2>1, EmptySeq
  <2>4. rest # <<>> => rest[Len(rest)] = q[Len(rest) + 1]
    BY <2>1, <2>3
  <2> QED
    BY <2>1, <2>2, <2>4
<1> HIDE DEF rest, off
<1>4. /\ s \in Keeping /\ s.pc = "watch" /\ s.path = keeper[k].path /\ s.hand = NoHand
      /\ s.queue = rest /\ s.pending = off /\ s.cancelled = keeper[k].cancelled
      /\ s.deaf = keeper[k].deaf
  BY <1>1, <1>2, <1>3 DEF Keeping
<1> HIDE DEF s
<1>5. /\ keeper' \in [Keeper -> {Off} \cup Keeping] /\ keeper'[k] = s
      /\ \A j \in Keeper : j # k => keeper'[j] = keeper[j]
      /\ Alive' = Alive /\ Watching' = Watching /\ Adding' = Adding
  BY <1>0, <1>1, <1>2, <1>4, OneSame
<1>6. NewKeeper(k)' /\ WellTold(k)'
  <2>1. NewKeeper(k)'
    BY <1>0, <1>1, <1>2, <1>4, <1>5 DEF NewKeeper, Unfinished, Adding
  <2>2. ~unseen => (q[Len(q)] = "remove" <=> file[keeper[k].path] = 0)
    BY <1>0, <1>1 DEF WellTold
  <2>3. WellTold(k)'
    BY <1>1, <1>3, <1>4, <1>5, <2>2 DEF WellTold
  <2> QED
    BY <2>1, <2>3
<1>7. (\A j \in Keeper : (NewKeeper(j) /\ WellTold(j))')
  BY <1>1, <1>2, <1>4, <1>6, OneGoesOn
<1>8. VaultTypeOK'
  <2>1. doc' \in Text
    BY <1>0, <1>1, VaultAssumption DEF VaultTypeOK, Text
  <2> QED
    BY <1>0, <1>1, <1>5, <2>1 DEF VaultTypeOK
<1>9. AllSee'
  BY <1>0, <1>1, <1>2, <1>4, OneSees
<1>10. IndexMended'
  <2> SUFFICES ASSUME ~unseen, config # NoDir, doc' # file[config]
               PROVE  \E j \in Alive' : Mends(j)'
    BY <1>1 DEF IndexMended
  <2>0. keeper[k].path = config
    BY <1>0, <1>2 DEF AllSee
  <2>1. q[Len(q)] = "remove" <=> file[config] = 0
    BY <1>0, <1>1, <2>0 DEF WellTold
  <2>2. CASE rest # <<>>
    BY <1>2, <1>4, <1>5, <2>2 DEF Mends
  <2>3. CASE rest = <<>>
    <3>1. Head(q) = "write" /\ file[config] # 0
      BY <1>1, <1>3, <2>1, <2>3
    <3>2. off
      BY <3>1 DEF off
    <3> QED
      BY <1>1, <1>2, <1>4, <1>5, <3>1, <3>2 DEF Mends
  <2> QED
    BY <2>2, <2>3
<1>11. OneWatches'
  BY <1>0, <1>1, <1>4, OneStillWatches
<1> QED
  BY <1>7, <1>8, <1>9, <1>10, <1>11 DEF VaultInv

\* or fails to,
LEMMA RemoveFailsKeeps ==
  ASSUME VaultInv, NEW k \in Keeper, RemoveFails(k)
  PROVE  VaultInv'
<1> DEFINE q == keeper[k].queue
           s == [keeper[k] EXCEPT !.queue = Tail(q)]
<1>0. VaultTypeOK /\ (\A j \in Keeper : NewKeeper(j) /\ WellTold(j)) /\ OneWatches
  BY DEF VaultInv
<1>1. /\ k \in Watching /\ k \in Alive /\ keeper[k].hand = NoHand /\ q # <<>> /\ Keep(k, s)
      /\ unseen' /\ UNCHANGED <<file, config, doc, watched, edit, overlapped>>
  BY DEF RemoveFails, Free, Watching
<1>2. keeper[k] \in Keeping /\ keeper[k].pc = "watch"
  BY <1>0, <1>1, KeeperStates
<1>3. Tail(q) \in Seq({"write", "remove"})
  BY <1>1, <1>2, KeepingFields, HeadTailProperties
<1>4. /\ s \in Keeping /\ s.pc = "watch" /\ s.cancelled = keeper[k].cancelled
      /\ s.deaf = keeper[k].deaf
  BY <1>2, <1>3 DEF Keeping
<1> HIDE DEF s
<1>5. /\ keeper' \in [Keeper -> {Off} \cup Keeping] /\ keeper'[k] = s
      /\ Alive' = Alive /\ Watching' = Watching /\ Adding' = Adding
  BY <1>0, <1>1, <1>2, <1>4, OneSame
<1>6. NewKeeper(k)' /\ WellTold(k)'
  BY <1>0, <1>1, <1>2, <1>4, <1>5 DEF NewKeeper, WellTold, Unfinished, Adding
<1>7. \A j \in Keeper : (NewKeeper(j) /\ WellTold(j))'
  BY <1>1, <1>4, <1>6, OneGoesOn
<1>8. VaultTypeOK'
  BY <1>0, <1>1, <1>5 DEF VaultTypeOK
<1>9. AllSee' /\ IndexMended'
  BY <1>1 DEF AllSee, IndexMended
<1>10. OneWatches'
  BY <1>0, <1>1, <1>4, OneStillWatches
<1> QED
  BY <1>7, <1>8, <1>9, <1>10 DEF VaultInv

\* reads the file,
LEMMA ReindexKeeps ==
  ASSUME VaultInv, NEW k \in Keeper, Reindex(k)
  PROVE  VaultInv'
<1> DEFINE text == file[keeper[k].path]
           s == [keeper[k] EXCEPT !.pending = FALSE, !.hand = text]
<1>0. VaultTypeOK /\ (\A j \in Keeper : NewKeeper(j) /\ WellTold(j))
        /\ AllSee /\ IndexMended /\ OneWatches
  BY DEF VaultInv
<1>1. /\ k \in Watching /\ keeper[k].hand = NoHand /\ keeper[k].pending /\ Keep(k, s)
      /\ UNCHANGED <<file, config, doc, watched, edit, unseen, overlapped>>
  BY DEF Reindex, Free
<1>2. keeper[k] \in Keeping /\ k \in Alive /\ keeper[k].pc = "watch" /\ text \in Text
  BY <1>0, <1>1, KeeperStates, KeepingFields DEF VaultTypeOK
<1> HIDE DEF text
<1>3. /\ s \in Keeping /\ s.pc = "watch" /\ s.path = keeper[k].path /\ s.hand = text
      /\ s.queue = keeper[k].queue /\ ~s.pending /\ s.cancelled = keeper[k].cancelled
      /\ s.deaf = keeper[k].deaf
  BY <1>1, <1>2 DEF Keeping
<1> HIDE DEF s
<1>4. /\ keeper' \in [Keeper -> {Off} \cup Keeping] /\ keeper'[k] = s
      /\ \A j \in Keeper : j # k => keeper'[j] = keeper[j]
      /\ Alive' = Alive /\ Watching' = Watching /\ Adding' = Adding
  BY <1>0, <1>1, <1>2, <1>3, OneSame
<1>5. NewKeeper(k)' /\ WellTold(k)'
  <2>1. NewKeeper(k)'
    BY <1>0, <1>1, <1>2, <1>3, <1>4 DEF NewKeeper, Unfinished, Adding
  <2>2. WellTold(k)'
    BY <1>0, <1>1, <1>3, <1>4 DEF WellTold, text
  <2> QED
    BY <2>1, <2>2
<1>6. (\A j \in Keeper : (NewKeeper(j) /\ WellTold(j))')
  BY <1>1, <1>2, <1>3, <1>5, OneGoesOn
<1>7. VaultTypeOK'
  BY <1>0, <1>1, <1>4 DEF VaultTypeOK
<1>8. AllSee'
  BY <1>0, <1>1, <1>2, <1>3, OneSees
<1>9. IndexMended'
  <2> SUFFICES ASSUME ~unseen, config # NoDir, doc # file[config]
               PROVE  \E j \in Alive' : Mends(j)'
    BY <1>1 DEF IndexMended
  <2>0. text = file[config]
    BY <1>0, <1>2 DEF AllSee, text
  <2>1. CASE text # 0
    BY <1>1, <1>2, <1>3, <1>4, <2>0, <2>1 DEF Mends, NoHand
  <2>2. CASE text = 0
    <3>1. PICK j \in Alive : Mends(j)
      BY <1>0 DEF IndexMended
    <3>2. CASE j = k
      <4>1. keeper[k].queue # <<>>
        BY <1>1, <1>2, <2>0, <2>2, <3>1, <3>2 DEF Mends, NoHand
      <4> QED
        BY <1>2, <1>3, <1>4, <4>1 DEF Mends
    <3>3. CASE j # k
      BY <1>1, <1>4, <3>1, <3>3, OthersMend DEF Alive
    <3> QED
      BY <3>2, <3>3
  <2> QED
    BY <2>1, <2>2
<1>10. OneWatches'
  BY <1>0, <1>1, <1>3, OneStillWatches
<1> QED
  BY <1>6, <1>7, <1>8, <1>9, <1>10 DEF VaultInv

\* and ends when it is cancelled.
LEMMA WatchEndsKeeps ==
  ASSUME VaultInv, NEW k \in Keeper, WatchEnds(k) \/ StartWatchFails(k)
  PROVE  VaultInv'
<1>0. VaultTypeOK /\ (\A j \in Keeper : NewKeeper(j) /\ WellTold(j))
        /\ AllSee /\ IndexMended /\ OneWatches
  BY DEF VaultInv
<1>1. /\ keeper[k].pc = "start" \/ (k \in Watching /\ keeper[k].cancelled)
      /\ Keep(k, Off)
      /\ UNCHANGED <<file, config, doc, watched, edit, unseen, overlapped>>
  BY DEF WatchEnds, StartWatchFails, Free
<1>2. k \in Alive /\ k \in Entered /\ k \notin Adding /\ keeper[k].pc \in {"start", "watch"}
  BY <1>0, <1>1, KeeperStates
<1>3. /\ keeper' \in [Keeper -> {Off} \cup Keeping] /\ keeper'[k] = Off
      /\ \A j \in Keeper : j # k => keeper'[j] = keeper[j]
      /\ Alive' = Alive \ {k} /\ Watching' = Watching \ {k} /\ Adding' = Adding
      /\ Entered' = Entered \ {k}
  <2>1. /\ keeper' \in [Keeper -> {Off} \cup Keeping] /\ keeper'[k] = Off
        /\ \A j \in Keeper : j # k => keeper'[j] = keeper[j]
    BY <1>0, <1>1 DEF Keep, VaultTypeOK
  <2>2. Alive' = Alive \ {k} /\ Watching' = Watching \ {k} /\ Adding' = Adding
    BY <1>2, <2>1 DEF Alive, Watching, Adding
  <2> QED
    BY <1>2, <2>1, <2>2 DEF Entered
<1>4. VaultTypeOK'
  BY <1>0, <1>1, <1>3 DEF VaultTypeOK
<1>5. ASSUME NEW j \in Keeper PROVE NewKeeper(j)' /\ WellTold(j)'
  <2>1. CASE j = k
    BY <1>1, <1>2, <1>3, <2>1 DEF NewKeeper, WellTold, Watching
  <2>2. CASE j # k
    BY <1>0, <1>1, <1>3, <2>2 DEF NewKeeper, WellTold, Unfinished
  <2> QED
    BY <2>1, <2>2
<1>6. AllSee'
  BY <1>0, <1>1, <1>3 DEF AllSee, Alive
<1>7. IndexMended'
  <2> SUFFICES ASSUME ~unseen, config # NoDir, doc # file[config]
               PROVE  \E j \in Alive' : Mends(j)'
    BY <1>1 DEF IndexMended
  <2>1. PICK j \in Alive : Mends(j)
    BY <1>0 DEF IndexMended
  <2>2. keeper[k].hand = NoHand /\ ~keeper[k].pending /\ keeper[k].queue = <<>>
    BY <1>0, <1>1, <1>2 DEF AllSee, NewKeeper, Watching
  <2>3. j # k
    BY <1>2, <2>1, <2>2 DEF Mends
  <2> QED
    BY <1>1, <1>3, <2>1, <2>3, OthersMend DEF Alive
<1>8. OneWatches'
  BY <1>0, <1>1, <1>3 DEF OneWatches, Entered, Adding, Alive
<1> QED
  BY <1>4, <1>5, <1>6, <1>7, <1>8 DEF VaultInv

\* What depends on the files, the keepers and the row alone.
LEMMA KeepersUnmoved ==
  ASSUME VaultInv, UNCHANGED <<file, keeper, watched, overlapped>>, ~unseen' => ~unseen
  PROVE  (\A j \in Keeper : (NewKeeper(j) /\ WellTold(j))') /\ OneWatches'
  BY DEF VaultInv, NewKeeper, WellTold, OneWatches, Alive, Watching, Adding, Entered, Unfinished

\* Where an edit on the dashboard is,
LEMMA EditStates ==
  ASSUME VaultTypeOK, NEW e \in Editor
  PROVE  /\ edit[e].pc \in {"write", "get", "put"} <=> edit[e] \in Editing
         /\ edit[e] \in Editing => /\ edit[e].path \in Dir /\ edit[e].text \in 1 .. MaxText
                                   /\ edit[e] # NoEdit
  BY DEF VaultTypeOK, Editing, NoEdit

\* and where it goes.
LEMMA EditGoes ==
  ASSUME NEW r \in Editing
  PROVE  /\ [r EXCEPT !.pc = "get"] \in Editing /\ [r EXCEPT !.pc = "put"] \in Editing
         /\ [r EXCEPT !.pc = "get"].pc = "get" /\ [r EXCEPT !.pc = "put"].pc = "put"
  BY DEF Editing

\* Each step of it.
LEMMA EditorKeeps ==
  ASSUME VaultInv, NEW e \in Editor,
         (\E t \in 1 .. MaxText : ApiUpdateVaultDoc(e, t)) \/ WriteFile(e) \/ GetDoc(e) \/ PutDoc(e)
         \/ EditFails(e)
  PROVE  VaultInv'
<1>0. VaultTypeOK /\ AllSee /\ IndexMended
  BY DEF VaultInv
<1>1. ASSUME NEW t \in 1 .. MaxText, ApiUpdateVaultDoc(e, t) PROVE VaultInv'
  <2>1. config \in Dir
    BY <1>0, <1>1 DEF ApiUpdateVaultDoc, VaultTypeOK
  <2>2. [pc |-> "write", path |-> config, text |-> t] \in Editing
    BY <2>1 DEF Editing
  <2>3. edit' \in [Editor -> {NoEdit} \cup Editing]
    BY <1>0, <1>1, <2>2 DEF ApiUpdateVaultDoc, VaultTypeOK
  <2>4. VaultTypeOK'
    BY <1>0, <1>1, <2>3 DEF ApiUpdateVaultDoc, VaultTypeOK
  <2>5. \A j \in Editor : edit'[j] = edit[j] \/ edit'[j].pc = "write"
    BY <1>0, <1>1 DEF ApiUpdateVaultDoc, VaultTypeOK
  <2>6. AllSee'
    BY <1>0, <1>1, <2>5 DEF ApiUpdateVaultDoc, AllSee, Alive
  <2>7. IndexMended'
    BY <1>0, <1>1 DEF ApiUpdateVaultDoc, IndexMended, Mends, Alive
  <2>8. UNCHANGED <<file, keeper, watched, overlapped, unseen>>
    BY <1>1 DEF ApiUpdateVaultDoc
  <2> QED
    BY <2>4, <2>6, <2>7, <2>8, KeepersUnmoved DEF VaultInv
<1>2. CASE WriteFile(e)
  <2> DEFINE p == edit[e].path
             t == edit[e].text
  <2>1. edit[e] \in Editing /\ p \in Dir /\ t \in 1 .. MaxText
    BY <1>0, <1>2, EditStates DEF WriteFile
  <2>2. edit' \in [Editor -> {NoEdit} \cup Editing]
    <3> DEFINE r == [edit[e] EXCEPT !.pc = "get"]
    <3>1. r \in Editing
      BY <2>1, EditGoes
    <3>2. edit' = [edit EXCEPT ![e] = r]
      BY <1>2 DEF WriteFile
    <3> HIDE DEF r
    <3> QED
      BY <1>0, <3>1, <3>2 DEF VaultTypeOK
  <2>3. t \in Text /\ t # 0
    BY <2>1, VaultAssumption DEF Text
  <2>4. file' = [file EXCEPT ![p] = t] /\ Tell(p, IF t = 0 THEN "remove" ELSE "write")
    BY <1>2, <2>3 DEF WriteFile
  <2>5. UNCHANGED <<config, doc, watched, overlapped>> /\ unseen' = TRUE
    BY <1>2 DEF WriteFile
  <2> HIDE DEF p, t
  <2> QED
    BY <2>1, <2>2, <2>3, <2>4, <2>5, FileChanges
<1>3. CASE GetDoc(e) \/ PutDoc(e)
  <2>1. edit[e] \in Editing /\ edit[e].pc \in {"get", "put"} /\ edit[e].text \in 1 .. MaxText
    BY <1>0, <1>3, EditStates DEF GetDoc, PutDoc
  <2>2. unseen
    BY <1>0, <2>1, EditStates DEF AllSee
  <2>3. edit' \in [Editor -> {NoEdit} \cup Editing]
    <3> DEFINE r == [edit[e] EXCEPT !.pc = "put"]
    <3>1. r \in Editing
      BY <2>1, EditGoes
    <3>2. edit' = [edit EXCEPT ![e] = r] \/ edit' = [edit EXCEPT ![e] = NoEdit]
      BY <1>3 DEF GetDoc, PutDoc
    <3> HIDE DEF r
    <3> QED
      BY <1>0, <3>1, <3>2 DEF VaultTypeOK
  <2>4. doc' \in Text
    BY <1>0, <1>3, <2>1, VaultAssumption DEF GetDoc, PutDoc, VaultTypeOK, Text
  <2>5. UNCHANGED <<file, config, keeper, watched, unseen, overlapped>>
    BY <1>3 DEF GetDoc, PutDoc
  <2>6. VaultTypeOK'
    BY <1>0, <2>3, <2>4, <2>5 DEF VaultTypeOK
  <2>7. AllSee' /\ IndexMended'
    BY <2>2, <2>5 DEF AllSee, IndexMended
  <2> QED
    BY <2>5, <2>6, <2>7, KeepersUnmoved DEF VaultInv
<1>4. CASE EditFails(e)
  <2>1. /\ edit' = [edit EXCEPT ![e] = NoEdit]
        /\ UNCHANGED <<file, config, doc, keeper, watched, unseen, overlapped>>
    BY <1>4 DEF EditFails
  <2>2. /\ edit' \in [Editor -> {NoEdit} \cup Editing]
        /\ \A j \in Editor : edit'[j] = edit[j] \/ edit'[j] = NoEdit
    BY <1>0, <2>1 DEF VaultTypeOK
  <2>3. VaultTypeOK'
    BY <1>0, <2>1, <2>2 DEF VaultTypeOK
  <2>4. AllSee'
    BY <1>0, <2>1, <2>2 DEF AllSee, Alive
  <2>5. IndexMended'
    BY <1>0, <2>1 DEF IndexMended, Mends, Alive
  <2> QED
    BY <2>1, <2>3, <2>4, <2>5, KeepersUnmoved DEF VaultInv
<1> QED
  BY <1>1, <1>2, <1>3, <1>4

\* A project is deleted with its vault.
LEMMA DeleteProjectKeeps ==
  ASSUME VaultInv, DeleteProject
  PROVE  VaultInv'
<1>1. UNCHANGED <<file, keeper, watched, edit, overlapped>> /\ unseen' /\ config' = NoDir /\ doc' = 0
  BY DEF DeleteProject
<1>2. VaultTypeOK'
  BY <1>1, VaultAssumption DEF VaultInv, VaultTypeOK, Text
<1>3. AllSee' /\ IndexMended'
  BY <1>1 DEF AllSee, IndexMended
<1> QED
  BY <1>1, <1>2, <1>3, KeepersUnmoved DEF VaultInv

\* The relay stops.
LEMMA VaultStopsKeeps ==
  ASSUME VaultInv, VaultStops
  PROVE  VaultInv'
<1>0. VaultTypeOK /\ AllSee /\ IndexMended
  BY DEF VaultInv
<1>1. /\ keeper' = [k \in Keeper |-> Off] /\ watched' = {} /\ edit' = [e \in Editor |-> NoEdit]
      /\ ~overlapped' /\ UNCHANGED <<file, config, doc>>
  BY DEF VaultStops
<1>2. Alive' = {} /\ Watching' = {} /\ Adding' = {} /\ Entered' = {}
  BY <1>1 DEF Alive, Watching, Adding, Entered
<1>3. unseen' \in BOOLEAN
  BY <1>0 DEF VaultStops, VaultTypeOK
<1>4. VaultTypeOK'
  <2>1. keeper' \in [Keeper -> {Off} \cup Keeping]
    BY <1>1
  <2>2. edit' \in [Editor -> {NoEdit} \cup Editing]
    BY <1>1
  <2>3. {unseen', overlapped'} \subseteq BOOLEAN /\ watched' \subseteq Keeper
    BY <1>0, <1>1, <1>3 DEF VaultStops, VaultTypeOK
  <2> QED
    BY <1>0, <1>1, <2>1, <2>2, <2>3 DEF VaultTypeOK
<1>5. AllSee'
  BY <1>1, <1>2 DEF AllSee
<1>6. IndexMended'
  <2> SUFFICES ASSUME ~unseen', config # NoDir PROVE doc = file[config]
    BY <1>1 DEF IndexMended
  <2>1. ~unseen /\ Adding = {} /\ \A k \in Alive : ~Unfinished(k)
    <3> DEFINE left == \E k \in Alive : Unfinished(k)
               edits == \E e \in Editor : edit[e] # NoEdit
    <3>1. unseen' = (unseen \/ Adding # {} \/ edits \/ left)
      BY DEF VaultStops
    <3> HIDE DEF left, edits
    <3>2. ~unseen /\ Adding = {} /\ ~left
      BY <3>1
    <3> QED
      BY <3>2 DEF left
  <2>2. ASSUME NEW k \in Alive PROVE ~Mends(k)
    <3>1. keeper[k].pc \notin {"cancel", "index", "enter"}
      BY <2>1 DEF Adding
    <3> QED
      BY <2>1, <3>1 DEF Mends, Unfinished
  <2> QED
    BY <1>0, <2>1, <2>2 DEF IndexMended
<1>7. (\A j \in Keeper : (NewKeeper(j) /\ WellTold(j))') /\ OneWatches'
  BY <1>1, <1>2 DEF NewKeeper, WellTold, OneWatches
<1> QED
  BY <1>4, <1>5, <1>6, <1>7 DEF VaultInv

\* The first states satisfy it,
LEMMA VaultInitially ==
  ASSUME VaultInit
  PROVE  VaultInv
<1>1. Alive = {} /\ Watching = {} /\ Adding = {} /\ Entered = {}
  BY DEF VaultInit, Alive, Watching, Adding, Entered
<1>2. VaultTypeOK
  <2>1. {0, 1} \subseteq Text
    BY VaultAssumption DEF Text
  <2>2. file \in [Dir -> Text] /\ doc \in Text
    BY <2>1 DEF VaultInit
  <2> QED
    BY <2>2 DEF VaultInit, VaultTypeOK
<1>3. AllSee /\ IndexMended
  BY <1>1 DEF VaultInit, AllSee, IndexMended
<1> QED
  BY <1>1, <1>2, <1>3 DEF VaultInv, NewKeeper, WellTold, OneWatches

\* and every step keeps it.
LEMMA VaultInductive ==
  ASSUME VaultInv, [VaultNext]_vaultVars
  PROVE  VaultInv'
<1>1. ASSUME NEW p \in Dir, NEW t \in Text, ChangeFile(p, t) PROVE VaultInv'
  <2>1. VaultTypeOK
    BY DEF VaultInv
  <2>2. /\ file' = [file EXCEPT ![p] = t]
        /\ Tell(p, IF t = 0 THEN "remove" ELSE "write")
        /\ unseen' = (unseen \/ ~Seen(p))
        /\ UNCHANGED <<config, doc, watched, edit, overlapped>>
    BY <1>1 DEF ChangeFile
  <2>3. edit' \in [Editor -> {NoEdit} \cup Editing] /\ unseen' \in BOOLEAN
    BY <2>1, <2>2 DEF VaultTypeOK
  <2>4. ~unseen' => ~unseen /\ Seen(p) /\ edit' = edit
    BY <2>1, <2>2 DEF VaultTypeOK
  <2> QED
    BY <2>2, <2>3, <2>4, FileChanges
<1>2. ASSUME NEW k \in Keeper, NEW p \in Dir, HandleRegisterVault(k, p) PROVE VaultInv'
  BY <1>2, AddsKeeps DEF HandleRegisterVault
<1>3. ASSUME NEW k \in Keeper, StartVault(k) PROVE VaultInv'
  <2>1. config \in Dir /\ unseen' = unseen /\ unseen \in BOOLEAN
    BY <1>3 DEF StartVault, VaultInv, VaultTypeOK
  <2>2. unseen' = (unseen \/ config # config)
    BY <2>1
  <2> QED
    BY <1>3, <2>1, <2>2, AddsKeeps DEF StartVault
<1>4. ASSUME NEW k \in Keeper, KeeperStep(k) PROVE VaultInv'
  BY <1>4, CancelOldKeeps, IndexAllKeeps, WriteDocKeeps, WriteDocFailsKeeps, EnterStartKeeps,
     TakeEventKeeps, RemoveFailsKeeps, ReindexKeeps, WatchEndsKeeps DEF KeeperStep
<1>5. CASE UNCHANGED vaultVars
  <2> USE <1>5 DEF vaultVars
  <2>1. VaultTypeOK' /\ AllSee'
    BY DEF VaultInv, VaultTypeOK, AllSee, Alive
  <2>2. IndexMended'
    BY DEF VaultInv, IndexMended, Mends, Alive
  <2> QED
    BY <2>1, <2>2, KeepersUnmoved DEF VaultInv
<1> QED
  BY <1>1, <1>2, <1>3, <1>4, <1>5, EditorKeeps, DeleteProjectKeeps, VaultStopsKeeps DEF VaultNext

\* Files, vaults, watchers and edits keep their shape, whatever their numbers.
THEOREM VaultTypeCorrect == VaultSpec => []VaultTypeOK
<1>1. VaultInv => VaultTypeOK
  BY DEF VaultInv
<1> QED
  BY <1>1, VaultInitially, VaultInductive, PTL DEF VaultSpec

\* Once all is quiet and nothing was left unseen, the index holds what the file says, and
\* one watcher at most is not cancelled, unless two registrations overlapped: for any
\* number of watchers, directories, editors and events on their way (watcher.go).
THEOREM IndexFollows == VaultSpec => []VaultIndexed
<1>1. ASSUME VaultInv PROVE VaultIndexed
  <2>0. IndexMended /\ OneWatches
    BY <1>1 DEF VaultInv
  <2>1. ASSUME Settled, ~unseen PROVE doc = file[config]
    <3>1. config # NoDir
      BY <2>1 DEF Settled
    <3>2. ASSUME NEW k \in Alive PROVE ~Mends(k)
      <4>1. /\ keeper[k].pc = "watch" /\ keeper[k].hand = NoHand
            /\ keeper[k].queue = <<>> /\ ~keeper[k].pending
        BY <2>1 DEF Settled, Unfinished
      <4> QED
        BY <4>1 DEF Mends
    <3> QED
      BY <2>0, <2>1, <3>1, <3>2 DEF IndexMended
  <2>2. ASSUME ~overlapped, NEW j \in Watching, NEW k \in Watching,
               ~keeper[j].cancelled, ~keeper[k].cancelled
        PROVE  j = k
    <3>1. j \in Entered /\ k \in Entered
      BY <2>2 DEF Entered, Adding, Watching
    <3>2. watched = {j} /\ watched = {k}
      BY <2>0, <2>2, <3>1 DEF OneWatches
    <3> QED
      BY <3>2
  <2> QED
    BY <2>1, <2>2 DEF VaultIndexed
<1> QED
  BY <1>1, VaultInitially, VaultInductive, PTL DEF VaultSpec

------------------------------------------------------------------------------
(* Terminal. *)

\* The chunks that are in the ring or were, and those that subscribers were told of.
StoredBy(p) == IF p.reader = "store" THEN p.read - 1 ELSE p.read

\* The chunk up to which the reader has told the viewers.
ToldBy(p) == IF p.reader \in {"store", "tell"} THEN p.read - 1 ELSE p.read

\* The ring holds the last of what was stored; once it is full, the oldest chunk is
\* where the next will be written.
RingKeeps(p) ==
    /\ p.reader \in {"store", "tell"} => p.read >= 1
    /\ p.ringLen <= StoredBy(p)
    /\ p.ringLen < RingSize =>
          /\ p.ringLen = StoredBy(p)
          /\ p.ringPos = StoredBy(p)
          /\ \A i \in 0 .. RingSize - 1 : i < p.ringPos => p.ring[i] = i + 1
    /\ p.ringLen = RingSize =>
          \A i \in 0 .. RingSize - 1 :
              p.ring[i] = IF i < p.ringPos THEN StoredBy(p) - p.ringPos + i + 1
                          ELSE StoredBy(p) - p.ringPos - RingSize + i + 1

\* What the pump has taken and not written.
Holding(w) == IF w.held = 0 THEN <<>> ELSE <<w.held>>

\* What a viewer was shown, and what waits for it, in order.
Got(w) == w.shown \o w.replay \o Holding(w) \o w.live

\* In order, but for the element at n, which may be repeated right after.
Ordered(q, n) ==
    \A i, j \in 1 .. Len(q) : i < j => \/ q[i] < q[j]
                                       \/ q[i] = q[j] /\ i = n /\ j = i + 1

\* Nothing is seen before it is told, but for the last of a replay.
NotEarly(q, n, p) ==
    \A i \in 1 .. Len(q) :
        \/ q[i] <= ToldBy(p)
        \/ p.reader = "tell" /\ i = n /\ n = Len(q) /\ q[i] = p.read

\* Who is connected was shown, or will be, or missed, all that subscribers were told.
NoneLost(w, q, p) ==
    w.connected =>
        \A c \in w.since .. ToldBy(p) : c \in w.missed \/ \E i \in 1 .. Len(q) : q[i] = c

\* The replay is shown before anything else is.
InPhase(w) ==
    /\ w.pump # "write" => w.held = 0
    /\ w.pc \in {"open", "replay"} => w.shown = <<>> /\ w.pump = "off"
    /\ w.pc = "open" => w.replay = <<>> /\ w.live = <<>>
    /\ w.pc = "replay" => Len(w.replay) = w.replayed
    /\ w.pc \in {"read", "input", "pong", "leave"} => w.replay = <<>> /\ w.replayed <= Len(w.shown)

\* What a subscribed viewer sees follows the output of its session.
Follows(w, p) ==
    w.pc \in {"replay", "read", "input", "pong", "leave"} =>
        Ordered(Got(w), w.replayed) /\ NotEarly(Got(w), w.replayed, p) /\ NoneLost(w, Got(w), p)

\* What is inductive: the ring keeps the newest chunks, and what waits for a viewer follows
\* what was shown to it.
TerminalInv ==
    /\ TerminalTypeOK
    /\ \A s \in Pty : RingKeeps(pty[s])
    /\ \A v \in Viewer : viewer[v] # NoViewer =>
          InPhase(viewer[v]) /\ Follows(viewer[v], pty[viewer[v].at])

\* --- viewers and what they see ---

\* A viewer that is not there has no step.
LEMMA NoViewerOff == NoViewer.pc = "off"
  BY DEF NoViewer

\* What a viewer holds,
LEMMA ViewerFields ==
  ASSUME NEW w \in ViewerAt
  PROVE  /\ w.pc \in {"open", "replay", "read", "input", "pong", "leave", "gone"}
         /\ w.at \in Pty /\ w.connected \in BOOLEAN /\ w.live \in Seq(Chunk)
         /\ w.pump \in {"off", "wait", "write"} /\ w.held \in 0 .. MaxChunk
         /\ w.replay \in Seq(Chunk) /\ w.shown \in Seq(Chunk) /\ w.replayed \in 0 .. RingSize
         /\ w.since \in 1 .. MaxChunk + 1 /\ w.missed \subseteq Chunk
         /\ w # NoViewer
<1>1. /\ w.pc \in {"open", "replay", "read", "input", "pong", "leave", "gone"}
      /\ w.at \in Pty /\ w.connected \in BOOLEAN /\ w.live \in Seq(Chunk)
      /\ w.pump \in {"off", "wait", "write"} /\ w.held \in 0 .. MaxChunk
      /\ w.replay \in Seq(Chunk) /\ w.shown \in Seq(Chunk) /\ w.replayed \in 0 .. RingSize
      /\ w.since \in 1 .. MaxChunk + 1 /\ w.missed \subseteq Chunk
  BY DEF ViewerAt
<1>2. w.pc # "off"
  BY <1>1
<1> QED
  BY <1>1, <1>2, NoViewerOff

\* what its pump holds,
LEMMA HoldingType ==
  ASSUME NEW w \in ViewerAt
  PROVE  Holding(w) \in Seq(Chunk)
<1>1. CASE w.held = 0
  BY <1>1, EmptySeq DEF Holding
<1>2. CASE w.held # 0
  <2>1. w.held \in Chunk
    BY <1>2, ViewerFields DEF Chunk
  <2>2. <<w.held>> \in Seq(Chunk)
    BY <2>1
  <2> QED
    BY <1>2, <2>2 DEF Holding
<1> QED
  BY <1>1, <1>2

\* and all of it in order,
LEMMA SeenType ==
  ASSUME NEW w \in ViewerAt
  PROVE  Got(w) \in Seq(Chunk)
<1> PICK a : a = w.shown
  OBVIOUS
<1> PICK b : b = w.replay
  OBVIOUS
<1> PICK c : c = Holding(w)
  OBVIOUS
<1> PICK d : d = w.live
  OBVIOUS
<1>1. a \in Seq(Chunk) /\ b \in Seq(Chunk) /\ c \in Seq(Chunk) /\ d \in Seq(Chunk)
  BY ViewerFields, HoldingType
<1>2. a \o b \in Seq(Chunk)
  BY <1>1, ConcatProperties
<1>3. (a \o b) \o c \in Seq(Chunk)
  BY <1>1, <1>2, ConcatProperties
<1>4. ((a \o b) \o c) \o d \in Seq(Chunk)
  BY <1>1, <1>3, ConcatProperties
<1> QED
  BY <1>4 DEF Got

\* which is what it is shown and what it never is.
LEMMA ShownIsSeen ==
  ASSUME NEW v \in Viewer, viewer[v] \in ViewerAt
  PROVE  ShownTo(v) \o NeverShown(v) = Got(viewer[v])
<1> PICK w : w = viewer[v]
  OBVIOUS
<1> PICK a : a = w.shown \o w.replay \o Holding(w)
  OBVIOUS
<1> PICK l : l = w.live
  OBVIOUS
<1>1. w.shown \in Seq(Chunk) /\ w.replay \in Seq(Chunk) /\ Holding(w) \in Seq(Chunk) /\ l \in Seq(Chunk)
  BY ViewerFields, HoldingType
<1>2. a \in Seq(Chunk)
  BY <1>1, ConcatProperties
<1>3. (a \o <<>>) \o l = a \o l /\ (a \o l) \o <<>> = a \o l
  BY <1>1, <1>2, ConcatEmptySeq, ConcatProperties
<1>4. ShownTo(v) = a \o (IF Over(w) THEN <<>> ELSE l) /\ Got(w) = a \o l
  BY DEF ShownTo, Got, Holding
<1>5. NeverShown(v) = IF Over(w) THEN l ELSE <<>>
  BY DEF NeverShown
<1> QED
  BY <1>3, <1>4, <1>5

\* Elements of sequences of chunks are numbers.
LEMMA ChunksAreNat ==
  ASSUME NEW q \in Seq(Chunk)
  PROVE  /\ Len(q) \in Nat
         /\ \A i \in 1 .. Len(q) : q[i] \in 1 .. MaxChunk /\ q[i] \in Nat
<1>1. Len(q) \in Nat /\ \A i \in 1 .. Len(q) : q[i] \in Chunk
  BY LenProperties, ElementOfSeq
<1>2. \A c \in Chunk : c \in 1 .. MaxChunk /\ c \in Nat
  BY TerminalAssumption DEF Chunk
<1> QED
  BY <1>1, <1>2

\* A chunk at the end of the second part is at the end of the whole.
LEMMA AppendLast ==
  ASSUME NEW a \in Seq(Chunk), NEW b \in Seq(Chunk), NEW c \in Chunk
  PROVE  a \o Append(b, c) = Append(a \o b, c)
<1> PICK one : one = <<c>>
  OBVIOUS
<1>1. one \in Seq(Chunk)
  OBVIOUS
<1>2. Append(b, c) = b \o one /\ a \o b \in Seq(Chunk)
  BY AppendIsConcat, ConcatProperties
<1>3. Append(a \o b, c) = (a \o b) \o one
  BY <1>2, AppendIsConcat
<1>4. (a \o b) \o one = a \o (b \o one)
  BY <1>1, ConcatAssociative
<1> QED
  BY <1>2, <1>3, <1>4

\* One more at the end.
LEMMA OneMore ==
  ASSUME NEW q \in Seq(Chunk), NEW c \in Chunk, NEW n \in Nat, Ordered(q, n),
         \A i \in 1 .. Len(q) : q[i] < c \/ (q[i] = c /\ i = n /\ n = Len(q))
  PROVE  Ordered(Append(q, c), n)
<1> PICK a : a = Append(q, c)
  OBVIOUS
<1>1. /\ Len(a) = Len(q) + 1 /\ Len(q) \in Nat
      /\ a[Len(q) + 1] = c /\ \A i \in 1 .. Len(q) : a[i] = q[i]
  BY AppendProperties, LenProperties
<1>2. ASSUME NEW i \in 1 .. Len(a), NEW j \in 1 .. Len(a), i < j
      PROVE  a[i] < a[j] \/ (a[i] = a[j] /\ i = n /\ j = i + 1)
  <2>1. i \in 1 .. Len(q) /\ a[i] = q[i]
    BY <1>1, <1>2
  <2>2. CASE j = Len(q) + 1
    BY <1>1, <2>1, <2>2
  <2>3. CASE j \in 1 .. Len(q)
    BY <1>1, <1>2, <2>1, <2>3 DEF Ordered
  <2> QED
    BY <1>1, <2>2, <2>3
<1> QED
  BY <1>2 DEF Ordered

\* One less, after the replay.
LEMMA OneLess ==
  ASSUME NEW a \in Seq(Chunk), NEW h \in Chunk, NEW b \in Seq(Chunk), NEW n \in Nat, n <= Len(a),
         Ordered((a \o <<h>>) \o b, n)
  PROVE  /\ Ordered(a \o b, n)
         /\ \A i \in 1 .. Len(a \o b) :
               \E j \in 1 .. Len((a \o <<h>>) \o b) : (a \o b)[i] = ((a \o <<h>>) \o b)[j]
         /\ Len((a \o <<h>>) \o b) = Len(a \o b) + 1
<1> PICK one : one = <<h>>
  OBVIOUS
<1>1. one \in Seq(Chunk) /\ Len(one) = 1
  BY DEF Chunk
<1> PICK x : x = a \o one
  OBVIOUS
<1> PICK q : q = x \o b
  OBVIOUS
<1> PICK r : r = a \o b
  OBVIOUS
<1>2. /\ x \in Seq(Chunk) /\ Len(x) = Len(a) + 1
      /\ \A i \in 1 .. Len(a) + Len(one) : x[i] = IF i <= Len(a) THEN a[i] ELSE one[i - Len(a)]
  BY <1>1, ConcatProperties
<1>3. /\ q \in Seq(Chunk) /\ Len(q) = Len(x) + Len(b)
      /\ \A i \in 1 .. Len(x) + Len(b) : q[i] = IF i <= Len(x) THEN x[i] ELSE b[i - Len(x)]
  BY <1>2, ConcatProperties
<1>4. /\ r \in Seq(Chunk) /\ Len(r) = Len(a) + Len(b)
      /\ \A i \in 1 .. Len(a) + Len(b) : r[i] = IF i <= Len(a) THEN a[i] ELSE b[i - Len(a)]
  BY ConcatProperties
<1>5. Len(a) \in Nat /\ Len(b) \in Nat
  BY LenProperties
<1>6. ASSUME NEW i \in 1 .. Len(r)
      PROVE  /\ i <= Len(a) => i \in 1 .. Len(q) /\ r[i] = q[i]
             /\ i > Len(a) => i + 1 \in 1 .. Len(q) /\ r[i] = q[i + 1]
  <2>1. CASE i <= Len(a)
    <3>1. i \in 1 .. Len(a) + Len(one) /\ i \in 1 .. Len(x) + Len(b) /\ i <= Len(x)
          /\ i \in 1 .. Len(a) + Len(b)
      BY <1>1, <1>2, <1>4, <1>5, <2>1
    <3>2. r[i] = a[i] /\ x[i] = a[i] /\ q[i] = x[i]
      BY <1>2, <1>3, <1>4, <2>1, <3>1
    <3> QED
      BY <1>3, <1>5, <2>1, <3>1, <3>2
  <2>2. CASE i > Len(a)
    <3>1. i + 1 \in 1 .. Len(x) + Len(b) /\ ~(i + 1 <= Len(x)) /\ ~(i <= Len(a))
          /\ i \in 1 .. Len(a) + Len(b) /\ (i + 1) - Len(x) = i - Len(a)
      BY <1>1, <1>2, <1>4, <1>5, <2>2
    <3>2. r[i] = b[i - Len(a)] /\ q[i + 1] = b[i - Len(a)]
      BY <1>3, <1>4, <3>1
    <3> QED
      BY <1>3, <1>5, <2>2, <3>1, <3>2
  <2> QED
    BY <1>5, <2>1, <2>2
<1>7. Len(q) = Len(r) + 1
  BY <1>2, <1>3, <1>4, <1>5
<1>8. ASSUME NEW i \in 1 .. Len(r)
      PROVE  \E j \in 1 .. Len(q) : r[i] = q[j]
  <2>1. CASE i <= Len(a)
    BY <1>6, <2>1
  <2>2. CASE i > Len(a)
    BY <1>6, <2>2
  <2> QED
    BY <1>4, <1>5, <2>1, <2>2
<1>9. ASSUME NEW i \in 1 .. Len(r), NEW j \in 1 .. Len(r), i < j
      PROVE  r[i] < r[j] \/ (r[i] = r[j] /\ i = n /\ j = i + 1)
  <2>1. CASE j <= Len(a)
    BY <1>5, <1>6, <1>9, <2>1 DEF Ordered
  <2>2. CASE i > Len(a)
    <3>1. j > Len(a) /\ i # n /\ i + 1 # n
      BY <1>4, <1>5, <1>9, <2>2
    <3>2. r[i] = q[i + 1] /\ r[j] = q[j + 1] /\ i + 1 \in 1 .. Len(q) /\ j + 1 \in 1 .. Len(q) /\ i + 1 < j + 1
      BY <1>6, <1>9, <2>2, <3>1
    <3> QED
      BY <3>1, <3>2 DEF Ordered
  <2>3. CASE i <= Len(a) /\ j > Len(a)
    <3>1. r[i] = q[i] /\ r[j] = q[j + 1] /\ i \in 1 .. Len(q) /\ j + 1 \in 1 .. Len(q)
      BY <1>6, <2>3
    <3>2. i < j + 1 /\ j + 1 # i + 1
      BY <1>9
    <3> QED
      BY <3>1, <3>2 DEF Ordered
  <2> QED
    BY <1>5, <2>1, <2>2, <2>3
<1>10. Ordered(r, n)
  BY <1>9 DEF Ordered
<1> QED
  BY <1>7, <1>8, <1>10

\* A viewer follows still when what it sees is what it saw.
LEMMA SeesTheSame ==
  ASSUME NEW p \in PtySession, NEW w \in ViewerAt, NEW z \in ViewerAt,
         Follows(w, p), w.pc \in {"replay", "read", "input", "pong", "leave"},
         Got(z) = Got(w), z.replayed = w.replayed, z.connected => w.connected,
         z.since = w.since, z.missed = w.missed
  PROVE  Follows(z, p)
<1>1. Ordered(Got(w), w.replayed) /\ NotEarly(Got(w), w.replayed, p) /\ NoneLost(w, Got(w), p)
  BY DEF Follows
<1>2. NoneLost(z, Got(z), p)
  BY <1>1 DEF NoneLost
<1> QED
  BY <1>1, <1>2 DEF Follows

\* And when the session moves without telling.
LEMMA StillFollows ==
  ASSUME NEW p \in PtySession, NEW q \in PtySession, NEW w \in ViewerAt, Follows(w, p),
         ToldBy(q) = ToldBy(p), p.reader = "tell" => q.reader = "tell" /\ q.read = p.read
  PROVE  Follows(w, q)
BY DEF Follows, NotEarly, NoneLost

\* --- the ring ---

\* A place in the ring.
LEMMA Wraps ==
  ASSUME NEW r \in Nat \ {0}, NEW a \in Nat, a < r + r
  PROVE  a % r = IF a < r THEN a ELSE a - r
BY SMT

\* What a session holds.
LEMMA SessionFields ==
  ASSUME NEW p \in PtySession
  PROVE  /\ p.reader \in {"none", "read", "store", "tell", "done"} /\ p.read \in 0 .. MaxChunk
         /\ p.ring \in [0 .. RingSize - 1 -> 0 .. MaxChunk] /\ p.ringPos \in 0 .. RingSize - 1
         /\ p.ringLen \in 0 .. RingSize /\ p.mu \subseteq Viewer
         /\ p.read \in Nat /\ p.ringPos \in Nat /\ p.ringLen \in Nat
<1>1. /\ p.reader \in {"none", "read", "store", "tell", "done"} /\ p.read \in 0 .. MaxChunk
      /\ p.ring \in [0 .. RingSize - 1 -> 0 .. MaxChunk] /\ p.ringPos \in 0 .. RingSize - 1
      /\ p.ringLen \in 0 .. RingSize /\ p.mu \subseteq Viewer
  BY DEF PtySession
<1> QED
  BY <1>1, TerminalAssumption

\* A snapshot of the ring is the last chunks stored, in order.
LEMMA SnapshotHolds ==
  ASSUME NEW s \in Pty, pty[s] \in PtySession, RingKeeps(pty[s])
  PROVE  /\ Snapshot(s) \in Seq(Chunk)
         /\ Len(Snapshot(s)) = pty[s].ringLen
         /\ \A i \in 1 .. pty[s].ringLen : Snapshot(s)[i] = StoredBy(pty[s]) - pty[s].ringLen + i
<1> PICK p : p = pty[s]
  OBVIOUS
<1> PICK n : n = p.ringLen
  OBVIOUS
<1> PICK k : k = StoredBy(p)
  OBVIOUS
<1> PICK pos : pos = p.ringPos
  OBVIOUS
<1>1. n \in Nat /\ n <= RingSize /\ RingSize \in Nat \ {0} /\ pos \in 0 .. RingSize - 1
  BY SessionFields, TerminalAssumption
<1>2. k \in Nat /\ n <= k /\ k <= MaxChunk /\ MaxChunk \in Nat
  BY SessionFields, TerminalAssumption DEF RingKeeps, StoredBy
<1> PICK q : q = Snapshot(s)
  OBVIOUS
<1>3. q = [i \in 1 .. n |->
        IF n < RingSize THEN p.ring[i - 1] ELSE p.ring[(pos + i - 1) % RingSize]]
  BY DEF Snapshot
<1>4. ASSUME NEW i \in 1 .. n
      PROVE  q[i] = k - n + i
  <2>1. CASE n < RingSize
    <3>1. i - 1 \in 0 .. RingSize - 1 /\ i - 1 < pos /\ k = n
      BY <1>1, <1>4, <2>1 DEF RingKeeps
    <3>2. p.ring[i - 1] = i
      <4>1. p.ring[i - 1] = (i - 1) + 1
        BY <2>1, <3>1 DEF RingKeeps
      <4> QED
        BY <4>1
    <3> QED
      BY <1>1, <1>3, <2>1, <3>1, <3>2
  <2>2. CASE n = RingSize
    <3> PICK a : a = pos + i - 1
      OBVIOUS
    <3> PICK m : m = IF a < RingSize THEN a ELSE a - RingSize
      OBVIOUS
    <3>1. a \in Nat /\ a < RingSize + RingSize
      BY <1>1, <2>2
    <3>2. a % RingSize = m
      BY <1>1, <3>1, Wraps
    <3>3. m \in 0 .. RingSize - 1 /\ (m < pos <=> ~(a < RingSize))
      BY <1>1, <2>2, <3>1
    <3>4. p.ring[m] = IF m < pos THEN k - pos + m + 1 ELSE k - pos - RingSize + m + 1
      BY <2>2, <3>3 DEF RingKeeps
    <3>5. p.ring[m] = k - n + i
      BY <1>1, <1>2, <2>2, <3>1, <3>3, <3>4
    <3>6. q[i] = p.ring[m]
      <4>1. ~(n < RingSize)
        BY <1>1, <2>2
      <4>2. q[i] = p.ring[(pos + i - 1) % RingSize]
        BY <1>3, <4>1
      <4>3. (pos + i - 1) % RingSize = m
        BY <3>2
      <4> QED
        BY <4>2, <4>3
    <3> QED
      BY <3>5, <3>6
  <2> QED
    BY <1>1, <2>1, <2>2
<1>5. ASSUME NEW i \in 1 .. n
      PROVE  q[i] \in Chunk
  BY <1>1, <1>2, <1>4 DEF Chunk
<1>6. q \in [1 .. n -> Chunk]
  BY <1>3, <1>5
<1>7. q \in Seq(Chunk) /\ Len(q) = n
  BY <1>1, <1>6, SeqDef, LenProperties
<1> QED
  BY <1>4, <1>7

\* --- the steps of a session ---

\* One session moves, and tells nothing.
LEMMA SessionMoves ==
  ASSUME TerminalInv, NEW s \in Pty, NEW q \in PtySession,
         pty' = [pty EXCEPT ![s] = q], ptys' \subseteq Pty, viewer' = viewer,
         RingKeeps(q), ToldBy(q) = ToldBy(pty[s]),
         pty[s].reader = "tell" => q.reader = "tell" /\ q.read = pty[s].read
  PROVE  TerminalInv'
<1>1. pty \in [Pty -> PtySession] /\ viewer \in [Viewer -> ViewerAt \cup {NoViewer}]
  BY DEF TerminalInv, TerminalTypeOK
<1>2. \A t \in Pty : pty'[t] = IF t = s THEN q ELSE pty[t]
  BY <1>1
<1>3. TerminalTypeOK'
  BY <1>1 DEF TerminalTypeOK
<1>4. \A t \in Pty : RingKeeps(pty'[t])
  BY <1>2 DEF TerminalInv
<1>5. ASSUME NEW v \in Viewer, viewer'[v] # NoViewer
      PROVE  InPhase(viewer'[v]) /\ Follows(viewer'[v], pty'[viewer'[v].at])
  <2> PICK w : w = viewer[v]
    OBVIOUS
  <2>1. w \in ViewerAt /\ w.at \in Pty /\ InPhase(w) /\ Follows(w, pty[w.at])
    BY <1>1, <1>5, ViewerFields DEF TerminalInv
  <2>2. CASE w.at = s
    <3>1. pty'[w.at] = q /\ pty[s] \in PtySession
      BY <1>1, <1>2, <2>2
    <3> QED
      BY <2>1, <2>2, <3>1, StillFollows
  <2>3. CASE w.at # s
    BY <1>2, <2>1, <2>3
  <2> QED
    BY <2>2, <2>3
<1> QED
  BY <1>3, <1>4, <1>5 DEF TerminalInv

\* The sessions in the table have a ring that keeps what it should.
LEMMA AtMostPtys ==
  ASSUME TerminalInv, NEW s \in Pty
  PROVE  /\ ptys \subseteq Pty /\ pty[s] \in PtySession /\ RingKeeps(pty[s])
         /\ ptys \cup {s} \subseteq Pty /\ ptys \ {s} \subseteq Pty
BY DEF TerminalInv, TerminalTypeOK

\* A session is spawned,
LEMMA SpawnPTYStep ==
  ASSUME TerminalInv, NEW s \in Pty, SpawnPTY(s)
  PROVE  TerminalInv'
<1> PICK p : p = pty[s]
  OBVIOUS
<1> PICK q : q = [p EXCEPT !.reader = "read", !.alive = TRUE]
  OBVIOUS
<1>1. /\ p = NoPty /\ ptys' = ptys \cup {s} /\ pty' = [pty EXCEPT ![s] = q] /\ viewer' = viewer
  BY DEF SpawnPTY
<1>2. p.reader = "none" /\ p.read = 0 /\ p.ringLen = 0 /\ p.ringPos = 0
  BY <1>1 DEF NoPty
<1>3. p \in PtySession
  BY AtMostPtys
<1>4. /\ q \in PtySession /\ q.reader = "read" /\ q.read = 0 /\ q.ringLen = 0 /\ q.ringPos = 0
  BY <1>2, <1>3 DEF PtySession
<1>5. RingKeeps(q)
  BY <1>4, TerminalAssumption DEF RingKeeps, StoredBy
<1>6. ToldBy(q) = ToldBy(p)
  BY <1>2, <1>4 DEF ToldBy
<1> QED
  BY <1>1, <1>2, <1>4, <1>5, <1>6, AtMostPtys, SessionMoves

\* Killing, closing and exiting change neither the ring nor what was told.
LEMMA EndingStep ==
  ASSUME TerminalInv, NEW s \in Pty, KillPTY(s) \/ ClosePTY(s) \/ ProcessExits(s)
  PROVE  TerminalInv'
<1> PICK p : p = pty[s]
  OBVIOUS
<1>1. PICK q \in {[p EXCEPT !.killed = TRUE], [p EXCEPT !.closed = TRUE], [p EXCEPT !.alive = FALSE]} :
        pty' = [pty EXCEPT ![s] = q]
  BY DEF KillPTY, ClosePTY, ProcessExits
<1>2. ptys' \subseteq Pty /\ viewer' = viewer
  BY AtMostPtys DEF KillPTY, ClosePTY, ProcessExits
<1>3. p \in PtySession /\ RingKeeps(p)
  BY AtMostPtys
<1>4. /\ q \in PtySession /\ q.reader = p.reader /\ q.read = p.read
      /\ q.ring = p.ring /\ q.ringLen = p.ringLen /\ q.ringPos = p.ringPos
  BY <1>3 DEF PtySession
<1>5. RingKeeps(q)
  BY <1>3, <1>4 DEF RingKeeps, StoredBy
<1>6. ToldBy(q) = ToldBy(p)
  BY <1>4 DEF ToldBy
<1> QED
  BY <1>1, <1>2, <1>4, <1>5, <1>6, SessionMoves

\* and forgotten.
LEMMA ForgetPTYStep ==
  ASSUME TerminalInv, NEW s \in Pty, ForgetPTY(s)
  PROVE  TerminalInv'
<1>1. ptys' \subseteq Pty /\ pty' = pty /\ viewer' = viewer
  BY AtMostPtys DEF ForgetPTY
<1> QED
  BY <1>1 DEF TerminalInv, TerminalTypeOK

\* Its reader reads a chunk,
LEMMA ReadChunkStep ==
  ASSUME TerminalInv, NEW s \in Pty, ReadChunk(s)
  PROVE  TerminalInv'
<1> PICK p : p = pty[s]
  OBVIOUS
<1> PICK q : q = [p EXCEPT !.reader = "store", !.read = p.read + 1]
  OBVIOUS
<1>1. p \in PtySession /\ RingKeeps(p) /\ ptys \subseteq Pty
  BY AtMostPtys
<1>2. /\ p.reader = "read" /\ p.read < Output[s]
      /\ UNCHANGED <<ptys, viewer>>
  BY DEF ReadChunk
<1>3. pty' = [pty EXCEPT ![s] = q]
  BY DEF ReadChunk
<1>4. p.read + 1 \in 0 .. MaxChunk /\ p.read \in Nat
  BY <1>1, <1>2, SessionFields, TerminalAssumption
<1>5. /\ q \in PtySession /\ q.reader = "store" /\ q.read = p.read + 1
      /\ q.ring = p.ring /\ q.ringLen = p.ringLen /\ q.ringPos = p.ringPos
  BY <1>1, <1>4 DEF PtySession
<1>6. StoredBy(q) = StoredBy(p) /\ ToldBy(q) = ToldBy(p)
  BY <1>2, <1>4, <1>5 DEF StoredBy, ToldBy
<1>7. q.read >= 1
  BY <1>4, <1>5
<1>8. RingKeeps(q)
  BY <1>1, <1>5, <1>6, <1>7 DEF RingKeeps
<1> QED
  BY <1>1, <1>2, <1>3, <1>5, <1>6, <1>8, SessionMoves

\* or the end;
LEMMA ReaderStopsStep ==
  ASSUME TerminalInv, NEW s \in Pty, ReaderStops(s)
  PROVE  TerminalInv'
<1> PICK p : p = pty[s]
  OBVIOUS
<1> PICK q : q = [p EXCEPT !.reader = "done"]
  OBVIOUS
<1>1. p \in PtySession /\ RingKeeps(p) /\ ptys \subseteq Pty
  BY AtMostPtys
<1>2. p.reader = "read" /\ UNCHANGED <<ptys, viewer>>
  BY DEF ReaderStops
<1>3. pty' = [pty EXCEPT ![s] = q]
  BY DEF ReaderStops
<1>4. /\ q \in PtySession /\ q.reader = "done" /\ q.read = p.read
      /\ q.ring = p.ring /\ q.ringLen = p.ringLen /\ q.ringPos = p.ringPos
  BY <1>1 DEF PtySession
<1>5. StoredBy(q) = StoredBy(p) /\ ToldBy(q) = ToldBy(p)
  BY <1>2, <1>4 DEF StoredBy, ToldBy
<1>6. RingKeeps(q)
  BY <1>1, <1>4, <1>5 DEF RingKeeps
<1> QED
  BY <1>1, <1>2, <1>3, <1>4, <1>5, <1>6, SessionMoves

\* stores it in the ring,
LEMMA StoreChunkStep ==
  ASSUME TerminalInv, NEW s \in Pty, StoreChunk(s)
  PROVE  TerminalInv'
<1> PICK p : p = pty[s]
  OBVIOUS
<1>a. PICK next : next = (p.ringPos + 1) % RingSize
  OBVIOUS
<1>b. PICK n : n = IF p.ringLen < RingSize THEN p.ringLen + 1 ELSE p.ringLen
  OBVIOUS
<1> PICK ring : ring = [p.ring EXCEPT ![p.ringPos] = p.read]
  OBVIOUS
<1> PICK q : q = [p EXCEPT !.reader = "tell", !.ring = ring, !.ringPos = next, !.ringLen = n]
  OBVIOUS
<1>1. p \in PtySession /\ RingKeeps(p) /\ ptys \subseteq Pty
  BY AtMostPtys
<1>2. p.reader = "store" /\ UNCHANGED <<ptys, viewer>>
  BY DEF StoreChunk
<1>3. pty' = [pty EXCEPT ![s] = q]
  BY <1>a, <1>b DEF StoreChunk
<1>4. /\ p.read \in 0 .. MaxChunk /\ p.ring \in [0 .. RingSize - 1 -> 0 .. MaxChunk]
      /\ p.ringPos \in 0 .. RingSize - 1 /\ p.ringLen \in 0 .. RingSize /\ RingSize \in Nat \ {0}
  BY <1>1, SessionFields, TerminalAssumption
<1>5. next = IF p.ringPos + 1 < RingSize THEN p.ringPos + 1 ELSE 0
  <2>1. p.ringPos + 1 \in Nat /\ p.ringPos + 1 < RingSize + RingSize
    BY <1>4
  <2>2. next = IF p.ringPos + 1 < RingSize THEN p.ringPos + 1 ELSE p.ringPos + 1 - RingSize
    BY <1>4, <1>a, <2>1, Wraps
  <2> QED
    BY <1>4, <2>2
<1>6. next \in 0 .. RingSize - 1 /\ n \in 0 .. RingSize
  BY <1>4, <1>5, <1>b
<1>7. ring \in [0 .. RingSize - 1 -> 0 .. MaxChunk]
  BY <1>4
<1>8. /\ q \in PtySession /\ q.reader = "tell" /\ q.read = p.read
      /\ q.ring = ring /\ q.ringLen = n /\ q.ringPos = next
  BY <1>1, <1>6, <1>7 DEF PtySession
<1>9. ToldBy(q) = ToldBy(p) /\ StoredBy(p) = p.read - 1 /\ StoredBy(q) = p.read
  BY <1>2, <1>8 DEF StoredBy, ToldBy
<1>10. \A i \in 0 .. RingSize - 1 : ring[i] = IF i = p.ringPos THEN p.read ELSE p.ring[i]
  BY <1>4
<1>11. p.read >= 1 /\ p.ringLen <= p.read - 1
  BY <1>1, <1>2, <1>9 DEF RingKeeps
<1>12. CASE p.ringLen = RingSize
  <2>1. n = RingSize
    BY <1>4, <1>12, <1>b
  <2>2. ASSUME NEW i \in 0 .. RingSize - 1
        PROVE  ring[i] = IF i < next THEN p.read - next + i + 1 ELSE p.read - next - RingSize + i + 1
    <3>1. p.ring[i] = IF i < p.ringPos THEN p.read - 1 - p.ringPos + i + 1
                      ELSE p.read - 1 - p.ringPos - RingSize + i + 1
      BY <1>1, <1>9, <1>12 DEF RingKeeps
    <3>2. ring[i] = IF i = p.ringPos THEN p.read ELSE p.ring[i]
      BY <1>10
    <3> PICK old : old = p.ring[i]
      OBVIOUS
    <3> PICK new : new = ring[i]
      OBVIOUS
    <3> PICK k : k = p.read
      OBVIOUS
    <3> PICK pos : pos = p.ringPos
      OBVIOUS
    <3>3. /\ RingSize \in Nat \ {0} /\ pos \in 0 .. RingSize - 1 /\ k \in Nat
          /\ next = IF pos + 1 < RingSize THEN pos + 1 ELSE 0
          /\ old = IF i < pos THEN k - 1 - pos + i + 1 ELSE k - 1 - pos - RingSize + i + 1
          /\ new = IF i = pos THEN k ELSE old
      BY <1>4, <1>5, <3>1, <3>2
    <3>4. new = IF i < next THEN k - next + i + 1 ELSE k - next - RingSize + i + 1
      <4>1. CASE i = pos
        BY <3>3, <4>1
      <4>2. CASE i < pos
        BY <3>3, <4>2
      <4>3. CASE i > pos
        BY <3>3, <4>3
      <4>4. i \in Int /\ pos \in Int
        BY <3>3
      <4> QED
        BY <4>1, <4>2, <4>3, <4>4
    <3> QED
      BY <3>4
  <2>3. RingKeeps(q)
    <3>1. n <= p.read /\ ~(n < RingSize)
      BY <1>4, <1>11, <1>12, <2>1
    <3> QED
      BY <1>8, <1>9, <1>11, <2>2, <3>1 DEF RingKeeps
  <2> QED
    BY <1>1, <1>2, <1>3, <1>8, <1>9, <2>3, SessionMoves
<1>13. CASE p.ringLen < RingSize
  <2>1. n = p.ringLen + 1 /\ p.ringLen = p.read - 1 /\ p.ringPos = p.ringLen
    BY <1>1, <1>4, <1>9, <1>13, <1>b DEF RingKeeps
  <2>2. ASSUME NEW i \in 0 .. RingSize - 1, i <= p.ringPos
        PROVE  ring[i] = i + 1
    <3>1. i < p.ringPos => p.ring[i] = i + 1
      BY <1>1, <1>13 DEF RingKeeps
    <3> QED
      BY <1>4, <1>10, <2>1, <2>2, <3>1
  <2>3. CASE n < RingSize
    <3>1. next = n /\ n = p.read /\ next = p.ringPos + 1
      BY <1>4, <1>5, <2>1, <2>3
    <3>2. ASSUME NEW i \in 0 .. RingSize - 1, i < next
          PROVE  ring[i] = i + 1
      BY <1>4, <2>2, <3>1, <3>2
    <3>3. RingKeeps(q)
      BY <1>4, <1>8, <1>9, <1>11, <2>3, <3>1, <3>2 DEF RingKeeps
    <3> QED
      BY <1>1, <1>2, <1>3, <1>8, <1>9, <3>3, SessionMoves
  <2>4. CASE n = RingSize
    <3>1. next = 0 /\ p.read = RingSize /\ p.ringPos = RingSize - 1
      BY <1>4, <1>5, <2>1, <2>4
    <3>2. ASSUME NEW i \in 0 .. RingSize - 1
          PROVE  ring[i] = IF i < next THEN p.read - next + i + 1 ELSE p.read - next - RingSize + i + 1
      <4>1. ring[i] = i + 1 /\ ~(i < next)
        BY <1>4, <2>2, <3>1
      <4>2. p.read - next - RingSize + i + 1 = i + 1
        BY <1>4, <3>1
      <4> QED
        BY <4>1, <4>2
    <3>3. RingKeeps(q)
      <4>1. n <= p.read /\ ~(n < RingSize)
        BY <1>4, <2>4, <3>1
      <4> QED
        BY <1>8, <1>9, <1>11, <3>2, <4>1 DEF RingKeeps
    <3> QED
      BY <1>1, <1>2, <1>3, <1>8, <1>9, <3>3, SessionMoves
  <2> QED
    BY <1>6, <1>4, <2>1, <2>3, <2>4
<1> QED
  BY <1>4, <1>12, <1>13

\* --- telling subscribers ---

\* A chunk that a subscriber is offered it will be shown, or it missed it.
LEMMA OfferFollows ==
  ASSUME NEW p \in PtySession, RingKeeps(p), p.reader = "tell",
         NEW q \in PtySession, q.reader = "read", q.read = p.read,
         NEW w \in ViewerAt, w.pc \in {"replay", "read", "input", "pong", "leave"},
         InPhase(w), Follows(w, p)
  PROVE  Offer(w, p.read) \in ViewerAt /\ InPhase(Offer(w, p.read)) /\ Follows(Offer(w, p.read), q)
         /\ Offer(w, p.read).at = w.at
<1> PICK c : c = p.read
  OBVIOUS
<1>1. c \in Chunk /\ c \in Nat /\ c >= 1
  BY SessionFields DEF RingKeeps, Chunk
<1>2. ToldBy(p) = c - 1 /\ ToldBy(q) = c
  BY DEF ToldBy
<1> PICK s : s = Got(w)
  OBVIOUS
<1>3. s \in Seq(Chunk) /\ Len(s) \in Nat /\ \A i \in 1 .. Len(s) : s[i] \in Nat
  BY SeenType, ChunksAreNat
<1>4. Ordered(s, w.replayed) /\ NotEarly(s, w.replayed, p) /\ NoneLost(w, s, p)
  BY DEF Follows
<1>5. w.replayed \in Nat /\ w.since \in Nat
  BY ViewerFields, TerminalAssumption
<1>6. \A i \in 1 .. Len(s) : s[i] < c \/ (s[i] = c /\ i = w.replayed /\ w.replayed = Len(s))
  BY <1>1, <1>2, <1>3, <1>4 DEF NotEarly
<1>7. \A x \in w.since .. c : x = c \/ x \in w.since .. c - 1
  BY <1>1, <1>5
<1>8. CASE Len(w.live) < ChanSize
  <2> PICK l : l = Append(w.live, c)
    OBVIOUS
  <2> PICK z : z = [w EXCEPT !.live = l]
    OBVIOUS
  <2>1. l \in Seq(Chunk)
    BY <1>1, ViewerFields, AppendProperties
  <2>2. /\ z \in ViewerAt /\ z.live = l /\ z.pc = w.pc /\ z.at = w.at /\ z.shown = w.shown
        /\ z.replay = w.replay /\ z.held = w.held /\ z.pump = w.pump /\ z.replayed = w.replayed
        /\ z.since = w.since /\ z.missed = w.missed /\ z.connected = w.connected
    BY <2>1 DEF ViewerAt
  <2>3. Offer(w, c) = z
    BY <1>8 DEF Offer
  <2>4. Got(z) = Append(s, c)
    <3> PICK a : a = w.shown \o w.replay \o Holding(w)
      OBVIOUS
    <3>1. a \in Seq(Chunk) /\ w.live \in Seq(Chunk)
      <4>1. w.shown \o w.replay \in Seq(Chunk)
        BY ViewerFields, ConcatProperties
      <4> QED
        BY <4>1, HoldingType, ViewerFields, ConcatProperties
    <3>2. s = a \o w.live /\ Got(z) = a \o l
      <4>1. Holding(z) = Holding(w)
        BY <2>2 DEF Holding
      <4> QED
        BY <2>2, <4>1 DEF Got
    <3> QED
      BY <1>1, <3>1, <3>2, AppendLast
  <2> PICK t : t = Append(s, c)
    OBVIOUS
  <2>5. /\ Len(t) = Len(s) + 1 /\ t[Len(s) + 1] = c
        /\ \A i \in 1 .. Len(s) : t[i] = s[i]
    BY <1>1, <1>3, AppendProperties
  <2>6. Ordered(t, w.replayed)
    BY <1>1, <1>3, <1>4, <1>5, <1>6, OneMore
  <2>7. NotEarly(t, w.replayed, q)
    <3>1. ASSUME NEW i \in 1 .. Len(t)
          PROVE  t[i] <= c
      <4>1. CASE i = Len(s) + 1
        BY <1>1, <2>5, <4>1
      <4>2. CASE i \in 1 .. Len(s)
        BY <1>1, <1>3, <1>6, <2>5, <4>2
      <4> QED
        BY <1>3, <2>5, <4>1, <4>2
    <3> QED
      BY <1>2, <3>1 DEF NotEarly
  <2>8. NoneLost(z, t, q)
    <3>1. ASSUME w.connected, NEW x \in w.since .. c
          PROVE  x \in w.missed \/ \E i \in 1 .. Len(t) : t[i] = x
      <4>1. CASE x = c
        <5>1. Len(s) + 1 \in 1 .. Len(t)
          BY <1>3, <2>5
        <5> QED
          BY <2>5, <4>1, <5>1
      <4>2. CASE x \in w.since .. c - 1
        <5>1. x \in w.missed \/ \E i \in 1 .. Len(s) : s[i] = x
          BY <1>2, <1>4, <3>1, <4>2 DEF NoneLost
        <5>2. \A i \in 1 .. Len(s) : i \in 1 .. Len(t)
          BY <1>3, <2>5
        <5> QED
          BY <2>5, <5>1, <5>2
      <4> QED
        BY <1>7, <4>1, <4>2
    <3> QED
      BY <1>2, <2>2, <3>1 DEF NoneLost
  <2>9. Follows(z, q)
    BY <2>2, <2>4, <2>6, <2>7, <2>8 DEF Follows
  <2>10. InPhase(z)
    BY <2>2 DEF InPhase
  <2> QED
    BY <2>2, <2>3, <2>9, <2>10
<1>9. CASE ~(Len(w.live) < ChanSize)
  <2> PICK z : z = [w EXCEPT !.missed = w.missed \cup {c}]
    OBVIOUS
  <2>1. w.missed \cup {c} \subseteq Chunk
    BY <1>1, ViewerFields
  <2>2. /\ z \in ViewerAt /\ z.live = w.live /\ z.pc = w.pc /\ z.at = w.at /\ z.shown = w.shown
        /\ z.replay = w.replay /\ z.held = w.held /\ z.pump = w.pump /\ z.replayed = w.replayed
        /\ z.since = w.since /\ z.missed = w.missed \cup {c} /\ z.connected = w.connected
    BY <2>1 DEF ViewerAt
  <2>3. Offer(w, c) = z
    BY <1>9 DEF Offer
  <2>4. Got(z) = s
    <3>1. Holding(z) = Holding(w)
      BY <2>2 DEF Holding
    <3> QED
      BY <2>2, <3>1 DEF Got
  <2>5. NotEarly(s, w.replayed, q)
    <3>1. \A i \in 1 .. Len(s) : s[i] <= c
      BY <1>1, <1>3, <1>6
    <3> QED
      BY <1>2, <3>1 DEF NotEarly
  <2>6. NoneLost(z, s, q)
    BY <1>2, <1>4, <1>7, <2>2 DEF NoneLost
  <2>7. Follows(z, q)
    BY <1>4, <2>2, <2>4, <2>5, <2>6 DEF Follows
  <2>8. InPhase(z)
    BY <2>2 DEF InPhase
  <2> QED
    BY <2>2, <2>3, <2>7, <2>8
<1> QED
  BY <1>8, <1>9

\* and tells the viewers.
LEMMA TellChunkStep ==
  ASSUME TerminalInv, NEW s \in Pty, TellChunk(s)
  PROVE  TerminalInv'
<1> PICK p : p = pty[s]
  OBVIOUS
<1> PICK q : q = [p EXCEPT !.reader = "read"]
  OBVIOUS
<1>1. p.reader = "tell" /\ ptys' = ptys /\ pty' = [pty EXCEPT ![s] = q]
  BY DEF TellChunk
<1>2. viewer' = [v \in Viewer |-> IF v \in Subscribers(s) THEN Offer(viewer[v], p.read) ELSE viewer[v]]
  BY DEF TellChunk
<1>3. p \in PtySession /\ RingKeeps(p) /\ ptys \subseteq Pty
  BY AtMostPtys
<1>4. /\ q \in PtySession /\ q.reader = "read" /\ q.read = p.read
      /\ q.ring = p.ring /\ q.ringLen = p.ringLen /\ q.ringPos = p.ringPos
  BY <1>3 DEF PtySession
<1>5. StoredBy(q) = StoredBy(p)
  BY <1>1, <1>4 DEF StoredBy
<1>6. RingKeeps(q)
  BY <1>3, <1>4, <1>5 DEF RingKeeps
<1>7. pty \in [Pty -> PtySession] /\ viewer \in [Viewer -> ViewerAt \cup {NoViewer}]
  BY DEF TerminalInv, TerminalTypeOK
<1>8. \A t \in Pty : pty'[t] = IF t = s THEN q ELSE pty[t]
  BY <1>1, <1>7
<1>9. ASSUME NEW v \in Viewer
      PROVE  /\ viewer'[v] \in ViewerAt \cup {NoViewer}
             /\ viewer'[v] # NoViewer =>
                   InPhase(viewer'[v]) /\ Follows(viewer'[v], pty'[viewer'[v].at])
  <2> PICK w : w = viewer[v]
    OBVIOUS
  <2>1. CASE w = NoViewer
    <3>1. v \notin Subscribers(s)
      BY <2>1, NoViewerOff DEF Subscribers, Subscribed
    <3> QED
      BY <1>2, <2>1, <3>1
  <2>2. CASE w # NoViewer
    <3>1. w \in ViewerAt /\ w.at \in Pty /\ InPhase(w) /\ Follows(w, pty[w.at])
      BY <1>7, <2>2, ViewerFields DEF TerminalInv
    <3>2. CASE v \in Subscribers(s)
      <4>1. w.at = s /\ w.pc \in {"replay", "read", "input", "pong", "leave"}
        BY <3>2 DEF Subscribers, Subscribed
      <4>2. viewer'[v] = Offer(w, p.read)
        BY <1>2, <3>2
      <4>3. Offer(w, p.read) \in ViewerAt /\ InPhase(Offer(w, p.read))
            /\ Follows(Offer(w, p.read), q) /\ Offer(w, p.read).at = s
        BY <1>1, <1>3, <1>4, <3>1, <4>1, OfferFollows
      <4>4. pty'[s] = q
        BY <1>8
      <4> QED
        BY <4>2, <4>3, <4>4
    <3>3. CASE v \notin Subscribers(s)
      <4>1. viewer'[v] = w
        BY <1>2, <3>3
      <4>2. CASE w.at = s
        <5>1. ~(w.pc \in {"replay", "read", "input", "pong", "leave"})
          BY <3>3, <4>2 DEF Subscribers, Subscribed
        <5> QED
          BY <3>1, <4>1, <5>1 DEF Follows
      <4>3. CASE w.at # s
        BY <1>8, <3>1, <4>1, <4>3
      <4> QED
        BY <4>2, <4>3
    <3> QED
      BY <3>2, <3>3
  <2> QED
    BY <2>1, <2>2
<1>10. TerminalTypeOK'
  <2>1. pty' \in [Pty -> PtySession]
    BY <1>1, <1>4, <1>7
  <2>2. viewer' \in [Viewer -> ViewerAt \cup {NoViewer}]
    BY <1>2, <1>9
  <2> QED
    BY <1>1, <1>3, <2>1, <2>2 DEF TerminalTypeOK
<1>11. \A t \in Pty : RingKeeps(pty'[t])
  BY <1>6, <1>8 DEF TerminalInv
<1> QED
  BY <1>9, <1>10, <1>11 DEF TerminalInv

\* --- the steps of a viewer ---

\* One viewer moves; of the sessions no more than their locks.
LEMMA ViewerMoves ==
  ASSUME TerminalInv, NEW v \in Viewer, NEW z \in ViewerAt \cup {NoViewer},
         viewer' = [viewer EXCEPT ![v] = z], ptys' = ptys, pty' \in [Pty -> PtySession],
         \A s \in Pty : /\ pty'[s].reader = pty[s].reader /\ pty'[s].read = pty[s].read
                        /\ pty'[s].ring = pty[s].ring /\ pty'[s].ringLen = pty[s].ringLen
                        /\ pty'[s].ringPos = pty[s].ringPos,
         z # NoViewer => InPhase(z) /\ Follows(z, pty[z.at])
  PROVE  TerminalInv'
<1>1. pty \in [Pty -> PtySession] /\ viewer \in [Viewer -> ViewerAt \cup {NoViewer}] /\ ptys \subseteq Pty
  BY DEF TerminalInv, TerminalTypeOK
<1>2. \A u \in Viewer : viewer'[u] = IF u = v THEN z ELSE viewer[u]
  BY <1>1
<1>3. TerminalTypeOK'
  BY <1>1 DEF TerminalTypeOK
<1>4. ASSUME NEW s \in Pty
      PROVE  RingKeeps(pty'[s])
  <2>1. RingKeeps(pty[s])
    BY DEF TerminalInv
  <2> QED
    BY <2>1 DEF RingKeeps, StoredBy
<1>5. ASSUME NEW u \in Viewer, viewer'[u] # NoViewer
      PROVE  InPhase(viewer'[u]) /\ Follows(viewer'[u], pty'[viewer'[u].at])
  <2> PICK w : w = viewer'[u]
    OBVIOUS
  <2>1. w \in ViewerAt /\ w.at \in Pty /\ InPhase(w) /\ Follows(w, pty[w.at])
    <3>1. w \in ViewerAt /\ InPhase(w) /\ Follows(w, pty[w.at])
      BY <1>1, <1>2, <1>5 DEF TerminalInv
    <3> QED
      BY <3>1, ViewerFields
  <2> PICK p : p = pty[w.at]
    OBVIOUS
  <2> PICK q : q = pty'[w.at]
    OBVIOUS
  <2>2. p \in PtySession /\ q \in PtySession /\ q.reader = p.reader /\ q.read = p.read
    BY <1>1, <2>1
  <2>3. ToldBy(q) = ToldBy(p)
    BY <2>2 DEF ToldBy
  <2> QED
    BY <2>1, <2>2, <2>3, StillFollows
<1> QED
  BY <1>3, <1>4, <1>5 DEF TerminalInv

\* ... or of the sessions nothing.
LEMMA ViewerAloneMoves ==
  ASSUME TerminalInv, NEW v \in Viewer, NEW z \in ViewerAt \cup {NoViewer},
         viewer' = [viewer EXCEPT ![v] = z], UNCHANGED <<ptys, pty>>,
         z # NoViewer => InPhase(z) /\ Follows(z, pty[z.at])
  PROVE  TerminalInv'
<1>1. pty' \in [Pty -> PtySession] /\ pty' = pty
  BY DEF TerminalInv, TerminalTypeOK
<1> QED
  BY <1>1, ViewerMoves

\* What is known of a viewer that is somewhere.
LEMMA ViewerKnown ==
  ASSUME TerminalInv, NEW v \in Viewer, viewer[v].pc # "off"
  PROVE  /\ viewer[v] \in ViewerAt /\ viewer[v].at \in Pty
         /\ InPhase(viewer[v]) /\ Follows(viewer[v], pty[viewer[v].at])
         /\ pty[viewer[v].at] \in PtySession /\ RingKeeps(pty[viewer[v].at])
<1>1. viewer[v] # NoViewer
  BY NoViewerOff
<1>2. viewer[v] \in ViewerAt /\ InPhase(viewer[v]) /\ Follows(viewer[v], pty[viewer[v].at])
  BY <1>1 DEF TerminalInv, TerminalTypeOK
<1>3. viewer[v].at \in Pty
  BY <1>2, ViewerFields
<1> QED
  BY <1>2, <1>3 DEF TerminalInv, TerminalTypeOK

\* A viewer connects,
LEMMA ConnectStep ==
  ASSUME TerminalInv, NEW v \in Viewer, NEW s \in Pty, Connect(v, s)
  PROVE  TerminalInv'
<1> PICK z : z = Opened(s)
  OBVIOUS
<1>1. viewer' = [viewer EXCEPT ![v] = z] /\ UNCHANGED <<ptys, pty>>
  BY DEF Connect
<1>2. /\ z.pc = "open" /\ z.shown = <<>> /\ z.replay = <<>> /\ z.live = <<>>
      /\ z.pump = "off" /\ z.held = 0 /\ z \in ViewerAt
  BY TerminalAssumption DEF Opened, ViewerAt
<1>3. InPhase(z)
  BY <1>2 DEF InPhase
<1>4. Follows(z, pty[z.at])
  BY <1>2 DEF Follows
<1> QED
  BY <1>1, <1>2, <1>3, <1>4, ViewerAloneMoves

\* before anything else it sees the replay.
LEMMA NothingElse ==
  ASSUME NEW w \in ViewerAt, w.shown = <<>>, w.held = 0, w.live = <<>>
  PROVE  Got(w) = w.replay
<1>1. Holding(w) = <<>> /\ w.replay \in Seq(Chunk)
  BY ViewerFields DEF Holding
<1> PICK r : r = w.replay
  OBVIOUS
<1>2. <<>> \o r = r /\ r \o <<>> = r
  BY <1>1, ConcatEmptySeq
<1> QED
  BY <1>1, <1>2 DEF Got

\* It subscribes, and takes the ring as it is;
LEMMA SubscribePTYStep ==
  ASSUME TerminalInv, NEW v \in Viewer, Subscribe(v)
  PROVE  TerminalInv'
<1> PICK w : w = viewer[v]
  OBVIOUS
<1> PICK s : s = w.at
  OBVIOUS
<1> PICK p : p = pty[s]
  OBVIOUS
<1> PICK snap : snap = Snapshot(s)
  OBVIOUS
<1> PICK n : n = p.ringLen
  OBVIOUS
<1> PICK k : k = StoredBy(p)
  OBVIOUS
<1> PICK first : first = 1 + k - n
  OBVIOUS
<1> PICK z : z = [w EXCEPT !.pc = "replay", !.replay = snap, !.replayed = n, !.since = first]
  OBVIOUS
<1>1. w.pc = "open" /\ UNCHANGED <<ptys, pty>>
  BY DEF Subscribe
<1>2. w \in ViewerAt /\ s \in Pty /\ InPhase(w) /\ p \in PtySession /\ RingKeeps(p)
  BY <1>1, ViewerKnown
<1>3. viewer' = [viewer EXCEPT ![v] = z]
  BY DEF Subscribe, StoredBy
<1>4. /\ n \in 0 .. RingSize /\ k \in Nat /\ n <= k /\ k <= MaxChunk
  <2>1. n \in 0 .. RingSize /\ p.read \in 0 .. MaxChunk /\ (p.reader = "store" => p.read >= 1)
    BY <1>2, SessionFields DEF RingKeeps
  <2>2. n <= k
    BY <1>2 DEF RingKeeps
  <2>3. k = IF p.reader = "store" THEN p.read - 1 ELSE p.read
    BY DEF StoredBy
  <2> QED
    BY <2>1, <2>2, <2>3, TerminalAssumption
<1>5. first \in 1 .. MaxChunk + 1
  BY <1>4, TerminalAssumption
<1>6. snap \in Seq(Chunk) /\ Len(snap) = n /\ \A i \in 1 .. n : snap[i] = k - n + i
  BY <1>2, SnapshotHolds
<1>7. /\ z \in ViewerAt /\ z.pc = "replay" /\ z.replay = snap /\ z.replayed = n /\ z.since = first
      /\ z.at = s /\ z.shown = w.shown /\ z.held = w.held /\ z.live = w.live /\ z.pump = w.pump
  BY <1>2, <1>4, <1>5, <1>6 DEF ViewerAt
<1>8. z.shown = <<>> /\ z.held = 0 /\ z.live = <<>> /\ z.pump = "off"
  BY <1>1, <1>2, <1>7 DEF InPhase
<1>9. InPhase(z)
  BY <1>6, <1>7, <1>8 DEF InPhase
<1>10. Got(z) = snap
  BY <1>7, <1>8, NothingElse
<1>11. Ordered(snap, n)
  BY <1>4, <1>6 DEF Ordered
<1>12. ToldBy(p) = IF p.reader \in {"store", "tell"} THEN p.read - 1 ELSE p.read
  BY DEF ToldBy
<1>13. k = IF p.reader = "store" THEN p.read - 1 ELSE p.read
  BY DEF StoredBy
<1>14. p.read \in Nat
  BY <1>2, SessionFields
<1>15. NotEarly(snap, n, p)
  <2>1. ASSUME NEW i \in 1 .. n
        PROVE  snap[i] <= ToldBy(p) \/ (p.reader = "tell" /\ i = n /\ snap[i] = p.read)
    <3>1. snap[i] = k - n + i /\ i <= n
      BY <1>4, <1>6
    <3>2. CASE p.reader = "tell"
      BY <1>4, <1>12, <1>13, <1>14, <3>1, <3>2
    <3>3. CASE p.reader # "tell"
      BY <1>4, <1>12, <1>13, <1>14, <3>1, <3>3
    <3> QED
      BY <3>2, <3>3
  <2> QED
    BY <1>6, <2>1 DEF NotEarly
<1>16. NoneLost(z, snap, p)
  <2>1. ASSUME NEW c \in first .. ToldBy(p)
        PROVE  \E i \in 1 .. Len(snap) : snap[i] = c
    <3>1. ToldBy(p) <= k /\ ToldBy(p) \in Int
      BY <1>12, <1>13, <1>14
    <3>2. c - k + n \in 1 .. n /\ k - n + (c - k + n) = c
      BY <1>4, <3>1
    <3> QED
      BY <1>6, <3>2
  <2> QED
    BY <1>7, <2>1 DEF NoneLost
<1>17. Follows(z, p)
  BY <1>7, <1>10, <1>11, <1>15, <1>16 DEF Follows
<1> QED
  BY <1>1, <1>3, <1>7, <1>9, <1>17, ViewerAloneMoves

\* it is sent the replay.
LEMMA SendReplayStep ==
  ASSUME TerminalInv, NEW v \in Viewer, SendReplay(v)
  PROVE  TerminalInv'
<1> PICK w : w = viewer[v]
  OBVIOUS
<1> PICK z : z = [w EXCEPT !.pc = "read", !.pump = "wait", !.shown = w.replay, !.replay = <<>>]
  OBVIOUS
<1>1. w.pc = "replay" /\ viewer' = [viewer EXCEPT ![v] = z] /\ UNCHANGED <<ptys, pty>>
  BY DEF SendReplay
<1>2. w \in ViewerAt /\ InPhase(w) /\ Follows(w, pty[w.at]) /\ pty[w.at] \in PtySession
  BY <1>1, ViewerKnown
<1>3. w.shown = <<>> /\ w.held = 0 /\ Len(w.replay) = w.replayed
  BY <1>1, <1>2 DEF InPhase
<1>4. w.replay \in Seq(Chunk) /\ w.live \in Seq(Chunk) /\ w.replayed \in Nat
  BY <1>2, ViewerFields, TerminalAssumption
<1>5. /\ z \in ViewerAt /\ z.pc = "read" /\ z.pump = "wait" /\ z.shown = w.replay /\ z.replay = <<>>
      /\ z.at = w.at /\ z.held = w.held /\ z.live = w.live /\ z.replayed = w.replayed
      /\ z.since = w.since /\ z.missed = w.missed /\ z.connected = w.connected
  <2>1. <<>> \in Seq(Chunk)
    OBVIOUS
  <2> QED
    BY <1>2, <1>4, <2>1 DEF ViewerAt
<1>6. InPhase(z)
  BY <1>3, <1>4, <1>5 DEF InPhase
<1>7. Got(z) = Got(w)
  <2>1. Holding(z) = <<>> /\ Holding(w) = <<>>
    BY <1>3, <1>5 DEF Holding
  <2>2. Got(w) = ((<<>> \o w.replay) \o <<>>) \o w.live
    BY <1>3, <2>1 DEF Got
  <2>3. Got(z) = ((w.replay \o <<>>) \o <<>>) \o w.live
    BY <1>5, <2>1 DEF Got
  <2> PICK r : r = w.replay
    OBVIOUS
  <2>4. <<>> \o r = r /\ r \o <<>> = r
    BY <1>4, ConcatEmptySeq
  <2> QED
    BY <2>2, <2>3, <2>4
<1>8. Follows(z, pty[w.at])
  <2> PICK p : p = pty[w.at]
    OBVIOUS
  <2>1. z.connected => w.connected
    BY <1>5
  <2>2. w.pc \in {"replay", "read", "input", "pong", "leave"} /\ p \in PtySession /\ Follows(w, p)
    BY <1>1, <1>2
  <2>3. /\ z \in ViewerAt /\ w \in ViewerAt /\ z.replayed = w.replayed /\ z.since = w.since
        /\ z.missed = w.missed
    BY <1>2, <1>5
  <2>4. Follows(z, p)
    BY <1>7, <2>1, <2>2, <2>3, SeesTheSame, Zenon
  <2> QED
    BY <2>4
<1> QED
  BY <1>1, <1>5, <1>6, <1>8, ViewerAloneMoves

\* The handler goes on, or the browser disconnects.
LEMMA HandlerMoves ==
  ASSUME NEW p \in PtySession, NEW w \in ViewerAt, InPhase(w), Follows(w, p), NEW z \in ViewerAt,
         z.shown = w.shown, z.replay = w.replay, z.held = w.held, z.live = w.live, z.pump = w.pump,
         z.replayed = w.replayed, z.since = w.since, z.missed = w.missed,
         z.connected => w.connected,
         \/ z.pc \in {w.pc, "gone"}
         \/ z.pc \in {"read", "input", "pong", "leave"} /\ w.pc \in {"read", "input", "pong", "leave"}
  PROVE  InPhase(z) /\ Follows(z, p)
<1>1. InPhase(z)
  BY DEF InPhase
<1>2. Got(z) = Got(w)
  <2>1. Holding(z) = Holding(w)
    BY DEF Holding
  <2> QED
    BY <2>1 DEF Got
<1>3. CASE z.pc \notin {"replay", "read", "input", "pong", "leave"}
  BY <1>1, <1>3 DEF Follows
<1>4. CASE z.pc \in {"replay", "read", "input", "pong", "leave"}
  <2>1. w.pc \in {"replay", "read", "input", "pong", "leave"}
    BY <1>4
  <2>2. Follows(z, p)
    BY <1>2, <2>1, SeesTheSame, Zenon
  <2> QED
    BY <1>1, <2>2
<1> QED
  BY <1>3, <1>4

\* Its handler answers pings and reads input,
LEMMA HandlerStep ==
  ASSUME TerminalInv, NEW v \in Viewer,
         Pong(v) \/ PongSent(v) \/ Disconnect(v) \/ StopReading(v)
  PROVE  TerminalInv'
<1> PICK w : w = viewer[v]
  OBVIOUS
<1>1. w.pc \in {"open", "replay", "read", "input", "pong", "leave"} /\ UNCHANGED <<ptys, pty>>
  BY DEF Pong, PongSent, Disconnect, StopReading
<1>2. /\ w \in ViewerAt /\ InPhase(w) /\ Follows(w, pty[w.at]) /\ pty[w.at] \in PtySession
      /\ viewer \in [Viewer -> ViewerAt \cup {NoViewer}]
  <2>1. w.pc # "off"
    BY <1>1
  <2> QED
    BY <2>1, ViewerKnown DEF TerminalInv, TerminalTypeOK
<1>3. PICK x \in {"open", "replay", "read", "input", "pong", "leave", "gone"}, c \in BOOLEAN :
        /\ viewer' = [viewer EXCEPT ![v] = [w EXCEPT !.pc = x, !.connected = c]]
        /\ c => w.connected
        /\ \/ x \in {w.pc, "gone"}
           \/ x \in {"read", "input", "pong", "leave"} /\ w.pc \in {"read", "input", "pong", "leave"}
  <2>1. w.connected \in BOOLEAN /\ [w EXCEPT !.connected = w.connected] = w
    BY <1>2 DEF ViewerAt
  <2>2. CASE Pong(v) /\ w.pump = "write"
    <3>1. viewer' = [viewer EXCEPT ![v] = [w EXCEPT !.pc = "gone", !.connected = FALSE]]
      BY <1>2, <2>2 DEF Pong
    <3> QED
      BY <3>1
  <2>3. ASSUME NEW y \in {"read", "pong", "leave"}, w.pc \in {"read", "pong"},
               viewer' = [viewer EXCEPT ![v].pc = y]
        PROVE  /\ viewer' = [viewer EXCEPT ![v] = [w EXCEPT !.pc = y, !.connected = w.connected]]
               /\ y \in {"read", "input", "pong", "leave"}
               /\ w.pc \in {"read", "input", "pong", "leave"}
    <3>1. [w EXCEPT !.pc = y] = [w EXCEPT !.pc = y, !.connected = w.connected]
      BY <1>2 DEF ViewerAt
    <3>2. viewer' = [viewer EXCEPT ![v] = [w EXCEPT !.pc = y]]
      BY <1>2, <2>3
    <3> QED
      BY <2>3, <3>1, <3>2
  <2>4. CASE Pong(v) /\ w.pump # "write"
    <3>1. viewer' = [viewer EXCEPT ![v].pc = "pong"] /\ w.pc = "read"
      BY <2>4 DEF Pong
    <3> QED
      BY <2>1, <2>3, <3>1
  <2>5. CASE PongSent(v)
    <3>1. viewer' = [viewer EXCEPT ![v].pc = "read"] /\ w.pc = "pong"
      BY <2>5 DEF PongSent
    <3> QED
      BY <2>1, <2>3, <3>1
  <2>6. CASE StopReading(v)
    <3>1. viewer' = [viewer EXCEPT ![v].pc = "leave"] /\ w.pc = "read"
      BY <2>6 DEF StopReading
    <3> QED
      BY <2>1, <2>3, <3>1
  <2>7. CASE Disconnect(v)
    <3>1. [w EXCEPT !.connected = FALSE] = [w EXCEPT !.pc = w.pc, !.connected = FALSE]
      BY <1>2 DEF ViewerAt
    <3>2. viewer' = [viewer EXCEPT ![v] = [w EXCEPT !.connected = FALSE]]
      BY <1>2, <2>7 DEF Disconnect
    <3>3. viewer' = [viewer EXCEPT ![v] = [w EXCEPT !.pc = w.pc, !.connected = FALSE]]
      BY <3>1, <3>2
    <3> QED
      BY <1>1, <3>3
  <2> QED
    BY <2>2, <2>4, <2>5, <2>6, <2>7
<1>4. PICK z : z = [w EXCEPT !.pc = x, !.connected = c]
  OBVIOUS
<1> PICK p : p = pty[w.at]
  OBVIOUS
<1>5. z \in ViewerAt /\ z.at = w.at /\ InPhase(z) /\ Follows(z, p)
  <2>1. /\ z \in ViewerAt /\ z.pc = x /\ z.connected = c /\ z.shown = w.shown /\ z.replay = w.replay
        /\ z.at = w.at /\ z.held = w.held /\ z.live = w.live /\ z.replayed = w.replayed
        /\ z.since = w.since /\ z.missed = w.missed /\ z.pump = w.pump
    BY <1>2, <1>4 DEF ViewerAt
  <2>2. z.connected => w.connected
    BY <1>3, <2>1
  <2>3. \/ z.pc \in {w.pc, "gone"}
        \/ z.pc \in {"read", "input", "pong", "leave"} /\ w.pc \in {"read", "input", "pong", "leave"}
    BY <1>3, <2>1
  <2>4. p \in PtySession /\ Follows(w, p)
    BY <1>2
  <2>5. InPhase(z) /\ Follows(z, p)
    BY <1>2, <2>1, <2>2, <2>3, <2>4, HandlerMoves, Zenon
  <2> QED
    BY <2>1, <2>5
<1>6. viewer' = [viewer EXCEPT ![v] = z]
  BY <1>3, <1>4
<1> QED
  BY <1>1, <1>5, <1>6, ViewerAloneMoves

\* Typing takes the lock of the session and gives it back.
LEMMA InputStep ==
  ASSUME TerminalInv, NEW v \in Viewer, TakeInput(v) \/ InputTaken(v)
  PROVE  TerminalInv'
<1> PICK w : w = viewer[v]
  OBVIOUS
<1> PICK s : s = w.at
  OBVIOUS
<1> PICK p : p = pty[s]
  OBVIOUS
<1>1. w.pc \in {"read", "input"} /\ ptys' = ptys
  BY DEF TakeInput, InputTaken
<1>2. /\ w \in ViewerAt /\ s \in Pty /\ InPhase(w) /\ Follows(w, p) /\ p \in PtySession
      /\ viewer \in [Viewer -> ViewerAt \cup {NoViewer}] /\ pty \in [Pty -> PtySession]
  <2>1. w.pc # "off"
    BY <1>1
  <2> QED
    BY <2>1, ViewerKnown DEF TerminalInv, TerminalTypeOK
<1>3. PICK y \in {"read", "input"}, mu \in SUBSET Viewer :
        /\ viewer' = [viewer EXCEPT ![v] = [w EXCEPT !.pc = y]]
        /\ pty' = [pty EXCEPT ![s] = [p EXCEPT !.mu = mu]]
  <2>1. CASE TakeInput(v)
    <3>1. {v} \in SUBSET Viewer
      OBVIOUS
    <3> QED
      BY <1>2, <2>1, <3>1 DEF TakeInput
  <2>2. CASE InputTaken(v)
    <3>1. {} \in SUBSET Viewer
      OBVIOUS
    <3> QED
      BY <1>2, <2>2, <3>1 DEF InputTaken
  <2> QED
    BY <2>1, <2>2
<1> PICK z : z = [w EXCEPT !.pc = y]
  OBVIOUS
<1> PICK q : q = [p EXCEPT !.mu = mu]
  OBVIOUS
<1>4. /\ z \in ViewerAt /\ z.pc = y /\ z.connected = w.connected /\ z.shown = w.shown
      /\ z.replay = w.replay /\ z.at = w.at /\ z.held = w.held /\ z.live = w.live
      /\ z.replayed = w.replayed /\ z.since = w.since /\ z.missed = w.missed /\ z.pump = w.pump
  BY <1>2 DEF ViewerAt
<1>5. z \in ViewerAt /\ z.at = s /\ InPhase(z) /\ Follows(z, p)
  <2>1. z.pc \in {"read", "input", "pong", "leave"} /\ w.pc \in {"read", "input", "pong", "leave"}
    BY <1>1, <1>4
  <2>2. z.connected => w.connected
    BY <1>4
  <2>3. InPhase(z) /\ Follows(z, p)
    BY <1>2, <1>4, <2>1, <2>2, HandlerMoves, Zenon
  <2> QED
    BY <1>4, <2>3
<1>6. /\ q \in PtySession /\ q.reader = p.reader /\ q.read = p.read
      /\ q.ring = p.ring /\ q.ringLen = p.ringLen /\ q.ringPos = p.ringPos
  BY <1>2 DEF PtySession
<1>7. viewer' = [viewer EXCEPT ![v] = z] /\ pty' = [pty EXCEPT ![s] = q]
  BY <1>3
<1>8. /\ pty' \in [Pty -> PtySession]
      /\ \A t \in Pty : pty'[t] = IF t = s THEN q ELSE pty[t]
  BY <1>2, <1>6, <1>7
<1>9. \A t \in Pty : /\ pty'[t].reader = pty[t].reader /\ pty'[t].read = pty[t].read
                     /\ pty'[t].ring = pty[t].ring /\ pty'[t].ringLen = pty[t].ringLen
                     /\ pty'[t].ringPos = pty[t].ringPos
  BY <1>6, <1>8
<1> QED
  BY <1>1, <1>5, <1>7, <1>8, <1>9, ViewerMoves

\* and leaves.
LEMMA LeavingStep ==
  ASSUME TerminalInv, NEW v \in Viewer, FailReplay(v) \/ LeavePTY(v)
  PROVE  TerminalInv'
<1>1. viewer' = [viewer EXCEPT ![v] = NoViewer] /\ UNCHANGED <<ptys, pty>>
  BY DEF FailReplay, LeavePTY
<1> QED
  BY <1>1, ViewerAloneMoves

\* --- the pump ---

\* What is taken from the rest goes to the end of what was shown.
LEMMA FirstAndRest ==
  ASSUME NEW a \in Seq(Chunk), NEW l \in Seq(Chunk), l # <<>>
  PROVE  (a \o <<Head(l)>>) \o Tail(l) = a \o l
<1> PICK one : one = <<Head(l)>>
  OBVIOUS
<1>1. Head(l) \in Chunk /\ Tail(l) \in Seq(Chunk) /\ Len(l) >= 1 /\ Len(l) \in Nat
  BY HeadTailProperties, EmptySeq, LenProperties
<1>2. one \in Seq(Chunk)
  BY <1>1
<1>3. one \o Tail(l) = l
  <2>1. 1 \in 1 .. Len(l) /\ Len(l) \in 1 .. Len(l)
    BY <1>1
  <2>2. SubSeq(l, 1, Len(l)) = <<l[1]>> \o SubSeq(l, 1 + 1, Len(l))
    BY <2>1, SubSeqRecursiveFirst
  <2>3. SubSeq(l, 1, Len(l)) = l /\ Tail(l) = SubSeq(l, 1 + 1, Len(l)) /\ Head(l) = l[1]
    BY SubSeqFull, TailIsSubSeq
  <2> QED
    BY <2>2, <2>3
<1>4. (a \o one) \o Tail(l) = a \o (one \o Tail(l))
  BY <1>1, <1>2, ConcatAssociative
<1> QED
  BY <1>3, <1>4

\* What a pump that holds nothing shows, and what it shows when it holds a chunk.
LEMMA SeenParts ==
  ASSUME NEW w \in ViewerAt, NEW a, a = w.shown \o w.replay
  PROVE  /\ a \in Seq(Chunk)
         /\ w.held = 0 => Got(w) = a \o w.live
         /\ w.held # 0 => Got(w) = (a \o <<w.held>>) \o w.live
<1>1. a \in Seq(Chunk)
  BY ViewerFields, ConcatProperties
<1>2. CASE w.held = 0
  <2>1. Holding(w) = <<>>
    BY <1>2 DEF Holding
  <2>2. a \o <<>> = a
    BY <1>1, ConcatEmptySeq
  <2> QED
    BY <1>1, <1>2, <2>1, <2>2 DEF Got
<1>3. CASE w.held # 0
  <2>1. Holding(w) = <<w.held>>
    BY <1>3 DEF Holding
  <2> QED
    BY <1>1, <1>3, <2>1 DEF Got
<1> QED
  BY <1>2, <1>3

\* The pump moves, and what is seen does not.
LEMMA PumpMoves ==
  ASSUME NEW p \in PtySession, NEW w \in ViewerAt, InPhase(w), Follows(w, p), w.pump # "off",
         NEW z \in ViewerAt, z.pc = w.pc, z.replay = w.replay, Len(w.shown) <= Len(z.shown),
         z.replayed = w.replayed, z.since = w.since, z.missed = w.missed, z.connected = w.connected,
         z.pump # "write" => z.held = 0, Got(z) = Got(w)
  PROVE  InPhase(z) /\ Follows(z, p)
<1>1. w.pc \notin {"open", "replay"}
  BY DEF InPhase
<1>2. /\ Len(w.shown) \in Nat /\ Len(z.shown) \in Nat /\ w.replayed \in Nat
  BY ViewerFields, LenProperties, TerminalAssumption
<1>3. InPhase(z)
  BY <1>1, <1>2 DEF InPhase
<1>4. CASE w.pc = "gone"
  BY <1>3, <1>4 DEF Follows
<1>5. CASE w.pc # "gone"
  <2>1. w.pc \in {"replay", "read", "input", "pong", "leave"}
    BY <1>1, <1>5, ViewerFields
  <2>2. z.connected => w.connected
    OBVIOUS
  <2>3. Follows(z, p)
    BY <2>1, <2>2, SeesTheSame, Zenon
  <2> QED
    BY <1>3, <2>3
<1> QED
  BY <1>4, <1>5

\* The pump takes the next chunk, or hears of the end.
LEMMA TakesNext ==
  ASSUME NEW p \in PtySession, NEW w \in ViewerAt, InPhase(w), Follows(w, p), w.pump = "wait",
         NEW z \in ViewerAt, z.pc = w.pc, z.shown = w.shown, z.replay = w.replay, z.pump = "write",
         z.replayed = w.replayed, z.since = w.since, z.missed = w.missed, z.connected = w.connected,
         \/ z.held = 0 /\ z.live = w.live
         \/ z.held # 0 /\ w.live # <<>> /\ z.held = Head(w.live) /\ z.live = Tail(w.live)
  PROVE  InPhase(z) /\ Follows(z, p)
<1>3. w.held = 0
  BY DEF InPhase
<1>b. PICK a : a = w.shown \o w.replay
  OBVIOUS
<1>4. a \in Seq(Chunk) /\ Got(w) = a \o w.live
  BY <1>3, <1>b, SeenParts
<1>5. a = z.shown \o z.replay
  BY <1>b
<1>6. Got(z) = Got(w)
  <2>1. CASE z.held = 0 /\ z.live = w.live
    <3>1. Got(z) = a \o z.live
      BY <1>5, <2>1, SeenParts
    <3> QED
      BY <1>4, <2>1, <3>1
  <2>2. CASE z.held # 0 /\ w.live # <<>> /\ z.held = Head(w.live) /\ z.live = Tail(w.live)
    <3>1. Got(z) = (a \o <<z.held>>) \o z.live
      BY <1>5, <2>2, SeenParts
    <3>2. Got(z) = (a \o <<Head(w.live)>>) \o Tail(w.live)
      BY <2>2, <3>1
    <3>3. w.live \in Seq(Chunk) /\ w.live # <<>>
      BY <2>2, ViewerFields
    <3> QED
      BY <1>4, <3>2, <3>3, FirstAndRest
  <2> QED
    BY <2>1, <2>2
<1>7. Len(w.shown) <= Len(z.shown)
  <2>1. Len(w.shown) \in Nat
    BY ViewerFields, LenProperties
  <2> QED
    BY <2>1
<1>8. w.pump # "off"
  OBVIOUS
<1> QED
  BY <1>6, <1>7, <1>8, PumpMoves

\* A session that never was has read nothing.
LEMMA NoPtyFields ==
  /\ NoPty \in PtySession /\ NoPty.reader = "none" /\ NoPty.read = 0 /\ NoPty.ringLen = 0
  /\ NoPty.ringPos = 0
<1>1. [i \in 0 .. RingSize - 1 |-> 0] \in [0 .. RingSize - 1 -> 0 .. MaxChunk]
  BY TerminalAssumption
<1>2. {} \in SUBSET Viewer /\ 0 \in 0 .. RingSize - 1 /\ 0 \in 0 .. RingSize /\ 0 \in 0 .. MaxChunk
  BY TerminalAssumption
<1> QED
  BY <1>1, <1>2 DEF NoPty, PtySession

\* Its pump takes a chunk,
LEMMA PumpTakesStep ==
  ASSUME TerminalInv, NEW v \in Viewer, PumpTakes(v)
  PROVE  TerminalInv'
<1>a. PICK w : w = viewer[v]
  OBVIOUS
<1>b. PICK p : p = pty[w.at]
  OBVIOUS
<1>1. w.pc # "off" /\ w.pump = "wait"
  BY <1>a DEF PumpTakes
<1>2. /\ w \in ViewerAt /\ InPhase(w) /\ Follows(w, p) /\ p \in PtySession /\ w.at \in Pty
      /\ viewer \in [Viewer -> ViewerAt \cup {NoViewer}] /\ pty \in [Pty -> PtySession]
  BY <1>1, <1>a, <1>b, ViewerKnown DEF TerminalInv, TerminalTypeOK
<1>3. CASE w.pc = "pong"
  <2>1. /\ ptys' = {}
        /\ pty' = [s \in Pty |-> IF pty[s] = NoPty THEN NoPty ELSE EndedPty]
        /\ viewer' = [u \in Viewer |-> NoViewer]
    BY <1>3, <1>a DEF PumpTakes
  <2>2. /\ NoPty \in PtySession /\ NoPty.reader = "none" /\ NoPty.read = 0 /\ NoPty.ringLen = 0
        /\ NoPty.ringPos = 0
    BY NoPtyFields
  <2>3. /\ EndedPty \in PtySession /\ EndedPty.reader = "done" /\ EndedPty.read = 0
        /\ EndedPty.ringLen = 0 /\ EndedPty.ringPos = 0
    BY <2>2 DEF EndedPty, PtySession
  <2>4. RingKeeps(NoPty)
    BY <2>2, TerminalAssumption DEF RingKeeps, StoredBy
  <2>5. RingKeeps(EndedPty)
    BY <2>3, TerminalAssumption DEF RingKeeps, StoredBy
  <2>6. \A s \in Pty : pty'[s] \in {NoPty, EndedPty}
    BY <2>1
  <2>7. pty' \in [Pty -> PtySession] /\ \A s \in Pty : RingKeeps(pty'[s])
    <3>1. \A s \in Pty : pty'[s] \in PtySession
      BY <2>2, <2>3, <2>6
    <3>2. \A s \in Pty : RingKeeps(pty'[s])
      BY <2>4, <2>5, <2>6
    <3> QED
      BY <2>1, <3>1, <3>2
  <2>8. TerminalTypeOK'
    BY <2>1, <2>7 DEF TerminalTypeOK
  <2> QED
    BY <2>1, <2>7, <2>8 DEF TerminalInv
<1>4. CASE w.pc # "pong"
  <2>1. PICK c \in (IF w.live = <<>> THEN {} ELSE {Head(w.live)})
                \cup (IF pty[w.at].reader = "done" \/ w.pc = "gone" THEN {0} ELSE {}) :
          /\ viewer' = [viewer EXCEPT ![v] =
                [w EXCEPT !.pump = "write", !.held = c, !.live = IF c = 0 THEN @ ELSE Tail(@)]]
          /\ UNCHANGED <<ptys, pty>>
    BY <1>4, <1>a DEF PumpTakes
  <2>2. c \in 0 .. MaxChunk /\ (c = 0 \/ (w.live # <<>> /\ c = Head(w.live)))
    <3>1. c = 0 \/ (w.live # <<>> /\ c = Head(w.live))
      BY <2>1
    <3>2. w.live # <<>> => Head(w.live) \in Chunk
      BY <1>2, ViewerFields, HeadTailProperties
    <3> QED
      BY <3>1, <3>2, TerminalAssumption DEF Chunk
  <2>3. PICK z : z = [w EXCEPT !.pump = "write", !.held = c, !.live = IF c = 0 THEN @ ELSE Tail(@)]
    OBVIOUS
  <2>4. z \in ViewerAt /\ z.at = w.at /\ InPhase(z) /\ Follows(z, p)
    <3>a. PICK l : l = IF c = 0 THEN w.live ELSE Tail(w.live)
      OBVIOUS
    <3>1. l \in Seq(Chunk)
      BY <1>2, <2>2, <3>a, ViewerFields, HeadTailProperties
    <3>2. /\ z \in ViewerAt /\ z.pc = w.pc /\ z.at = w.at /\ z.shown = w.shown
          /\ z.replay = w.replay /\ z.held = c /\ z.pump = "write" /\ z.live = l
          /\ z.replayed = w.replayed /\ z.since = w.since /\ z.missed = w.missed
          /\ z.connected = w.connected
      BY <1>2, <2>2, <2>3, <3>1, <3>a DEF ViewerAt
    <3>3. \/ z.held = 0 /\ z.live = w.live
          \/ z.held # 0 /\ w.live # <<>> /\ z.held = Head(w.live) /\ z.live = Tail(w.live)
      BY <2>2, <3>2, <3>a
    <3>4. InPhase(z) /\ Follows(z, p)
      BY <1>1, <1>2, <3>2, <3>3, TakesNext
    <3> QED
      BY <3>2, <3>4
  <2>5. viewer' = [viewer EXCEPT ![v] = z]
    BY <2>1, <2>3
  <2>6. UNCHANGED <<ptys, pty>>
    BY <2>1
  <2>7. Follows(z, pty[z.at])
    BY <1>b, <2>4
  <2> QED
    BY <2>4, <2>5, <2>6, <2>7, ViewerAloneMoves
<1> QED
  BY <1>3, <1>4

\* The chunk, or the end, is written.
LEMMA ChunkWritten ==
  ASSUME NEW p \in PtySession, NEW w \in ViewerAt, InPhase(w), Follows(w, p), w.pump = "write",
         w.pc # "gone",
         NEW z, z = IF w.held = 0 THEN [w EXCEPT !.pump = "off"]
                    ELSE [w EXCEPT !.pump = "wait", !.held = 0, !.shown = Append(@, w.held)]
  PROVE  z \in ViewerAt /\ z.at = w.at /\ InPhase(z) /\ Follows(z, p)
<1>a. PICK n : n = IF w.held = 0 THEN w.shown ELSE Append(w.shown, w.held)
  OBVIOUS
<1>1. w.shown \in Seq(Chunk) /\ w.live \in Seq(Chunk) /\ w.replay = <<>>
  <2>1. w.pc \in {"read", "input", "pong", "leave"}
    BY ViewerFields DEF InPhase
  <2> QED
    BY <2>1, ViewerFields DEF InPhase
<1>2. Len(w.shown) \in Nat
  BY <1>1, LenProperties
<1>3. w.held # 0 => w.held \in Chunk
  BY ViewerFields DEF Chunk
<1>4. n \in Seq(Chunk) /\ Len(w.shown) <= Len(n)
  BY <1>1, <1>2, <1>3, <1>a, AppendProperties
<1>5. /\ z \in ViewerAt /\ z.pc = w.pc /\ z.at = w.at /\ z.shown = n
      /\ z.replay = w.replay /\ z.held = 0 /\ z.live = w.live
      /\ z.replayed = w.replayed /\ z.since = w.since /\ z.missed = w.missed
      /\ z.connected = w.connected
  <2>1. CASE w.held = 0
    BY <1>a, <2>1 DEF ViewerAt
  <2>2. CASE w.held # 0
    <3>1. 0 \in 0 .. MaxChunk
      BY TerminalAssumption
    <3>2. z = [w EXCEPT !.pump = "wait", !.held = 0, !.shown = n]
      BY <1>a, <2>2
    <3> QED
      BY <1>4, <3>1, <3>2 DEF ViewerAt
  <2> QED
    BY <2>1, <2>2
<1>6. Got(z) = Got(w)
  <2>1. w.shown \o w.replay = w.shown /\ z.shown \o z.replay = n
    BY <1>1, <1>4, <1>5, ConcatEmptySeq
  <2>2. Got(z) = n \o w.live
    BY <1>5, <2>1, SeenParts
  <2>3. CASE w.held = 0
    BY <1>a, <2>1, <2>2, <2>3, SeenParts
  <2>4. CASE w.held # 0
    <3>1. Got(w) = (w.shown \o <<w.held>>) \o w.live
      BY <2>1, <2>4, SeenParts
    <3>2. n = w.shown \o <<w.held>>
      BY <1>1, <1>3, <1>a, <2>4, AppendIsConcat
    <3> QED
      BY <2>2, <3>1, <3>2
  <2> QED
    BY <2>3, <2>4
<1>7. InPhase(z) /\ Follows(z, p)
  <2>1. w.pump # "off" /\ Len(w.shown) <= Len(z.shown) /\ (z.pump # "write" => z.held = 0)
    BY <1>4, <1>5
  <2> QED
    BY <1>5, <1>6, <2>1, PumpMoves
<1> QED
  BY <1>5, <1>7

\* A chunk that is left out leaves the others as they were.
LEMMA OneLost ==
  ASSUME NEW p \in PtySession,
         NEW a \in Seq(Chunk), NEW h \in Chunk, NEW l \in Seq(Chunk), NEW n \in Nat, n <= Len(a),
         Ordered((a \o <<h>>) \o l, n), NotEarly((a \o <<h>>) \o l, n, p)
  PROVE  Ordered(a \o l, n) /\ NotEarly(a \o l, n, p)
<1>a. PICK q : q = (a \o <<h>>) \o l
  OBVIOUS
<1>b. PICK r : r = a \o l
  OBVIOUS
<1>1. /\ Ordered(r, n)
      /\ \A i \in 1 .. Len(r) : \E j \in 1 .. Len(q) : r[i] = q[j]
      /\ Len(q) = Len(r) + 1
  BY <1>a, <1>b, OneLess
<1>2. Len(q) # n
  <2>1. Len(a) \in Nat /\ Len(r) = Len(a) + Len(l) /\ Len(l) \in Nat
    BY <1>b, LenProperties, ConcatProperties
  <2> QED
    BY <1>1, <2>1
<1>3. \A j \in 1 .. Len(q) : q[j] <= ToldBy(p)
  BY <1>2, <1>a DEF NotEarly
<1>4. NotEarly(r, n, p)
  BY <1>1, <1>3 DEF NotEarly
<1> QED
  BY <1>1, <1>4, <1>b

\* Or it is lost, on a browser that is gone.
LEMMA ChunkLost ==
  ASSUME NEW p \in PtySession, NEW w \in ViewerAt, InPhase(w), Follows(w, p), w.pump = "write",
         ~w.connected, NEW z, z = [w EXCEPT !.pump = "off", !.held = 0]
  PROVE  z \in ViewerAt /\ z.at = w.at /\ InPhase(z) /\ Follows(z, p)
<1>1. /\ z \in ViewerAt /\ z.pc = w.pc /\ z.at = w.at /\ z.shown = w.shown
      /\ z.replay = w.replay /\ z.held = 0 /\ z.live = w.live /\ z.pump = "off"
      /\ z.replayed = w.replayed /\ z.since = w.since /\ z.missed = w.missed
      /\ z.connected = w.connected
  <2>1. 0 \in 0 .. MaxChunk
    BY TerminalAssumption
  <2> QED
    BY <2>1 DEF ViewerAt
<1>2. InPhase(z)
  BY <1>1 DEF InPhase
<1>3. CASE w.pc \notin {"read", "input", "pong", "leave"}
  <2>1. w.pc = "gone"
    BY <1>3, ViewerFields DEF InPhase
  <2> QED
    BY <1>1, <1>2, <2>1 DEF Follows
<1>4. CASE w.pc \in {"read", "input", "pong", "leave"}
  <2>1. w.replay = <<>> /\ w.replayed <= Len(w.shown)
    BY <1>4 DEF InPhase
  <2>2. w.shown \in Seq(Chunk) /\ w.live \in Seq(Chunk) /\ w.replayed \in Nat
    BY ViewerFields, TerminalAssumption
  <2>3. w.shown \o w.replay = w.shown
    BY <2>1, <2>2, ConcatEmptySeq
  <2>a. PICK r : r = w.shown \o w.live
    OBVIOUS
  <2>4. Got(z) = r
    BY <1>1, <2>3, <2>a, SeenParts
  <2>5. Ordered(Got(w), w.replayed) /\ NotEarly(Got(w), w.replayed, p)
    BY <1>4 DEF Follows
  <2>6. Ordered(r, w.replayed) /\ NotEarly(r, w.replayed, p)
    <3>1. CASE w.held = 0
      <4>1. Got(w) = r
        BY <2>3, <2>a, <3>1, SeenParts
      <4> QED
        BY <2>5, <4>1
    <3>2. CASE w.held # 0
      <4>b. PICK q : q = Got(w)
        OBVIOUS
      <4>1. w.held \in Chunk
        BY <3>2, ViewerFields DEF Chunk
      <4>2. q = (w.shown \o <<w.held>>) \o w.live
        BY <2>3, <3>2, <4>b, SeenParts
      <4>c. PICK a : a = w.shown
        OBVIOUS
      <4>d. PICK l : l = w.live
        OBVIOUS
      <4>e. PICK h : h = w.held
        OBVIOUS
      <4>f. PICK n : n = w.replayed
        OBVIOUS
      <4>3. /\ a \in Seq(Chunk) /\ l \in Seq(Chunk) /\ h \in Chunk /\ n \in Nat /\ n <= Len(a)
        BY <2>1, <2>2, <4>1, <4>c, <4>d, <4>e, <4>f
      <4>4. q = (a \o <<h>>) \o l /\ r = a \o l /\ Ordered(q, n) /\ NotEarly(q, n, p)
        BY <2>5, <2>a, <4>2, <4>b, <4>c, <4>d, <4>e, <4>f
      <4>5. Ordered((a \o <<h>>) \o l, n) /\ NotEarly((a \o <<h>>) \o l, n, p)
        BY <4>4
      <4>6. Ordered(a \o l, n) /\ NotEarly(a \o l, n, p)
        BY <4>3, <4>5, OneLost, Zenon
      <4> QED
        BY <4>4, <4>6, <4>f
    <3> QED
      BY <3>1, <3>2
  <2>7. NoneLost(z, r, p)
    BY <1>1 DEF NoneLost
  <2> QED
    BY <1>1, <1>2, <2>4, <2>6, <2>7 DEF Follows
<1> QED
  BY <1>3, <1>4

\* and writes it, or what was connected is gone.
LEMMA PumpWritesStep ==
  ASSUME TerminalInv, NEW v \in Viewer, PumpWrites(v)
  PROVE  TerminalInv'
<1>a. PICK w : w = viewer[v]
  OBVIOUS
<1>b. PICK p : p = pty[w.at]
  OBVIOUS
<1>1. w.pc # "off" /\ w.pump = "write" /\ UNCHANGED <<ptys, pty>>
  BY <1>a DEF PumpWrites
<1>2. w \in ViewerAt /\ InPhase(w) /\ Follows(w, p) /\ p \in PtySession
  BY <1>1, <1>a, <1>b, ViewerKnown
<1>3. PICK z : /\ viewer' = [viewer EXCEPT ![v] = z]
               /\ \/ /\ w.pc # "gone"
                     /\ z = IF w.held = 0 THEN [w EXCEPT !.pump = "off"]
                            ELSE [w EXCEPT !.pump = "wait", !.held = 0, !.shown = Append(@, w.held)]
                  \/ ~w.connected /\ z = [w EXCEPT !.pump = "off", !.held = 0]
  BY <1>a DEF PumpWrites
<1>4. z \in ViewerAt /\ z.at = w.at /\ InPhase(z) /\ Follows(z, p)
  <2>1. CASE /\ w.pc # "gone"
             /\ z = IF w.held = 0 THEN [w EXCEPT !.pump = "off"]
                    ELSE [w EXCEPT !.pump = "wait", !.held = 0, !.shown = Append(@, w.held)]
    BY <1>1, <1>2, <2>1, ChunkWritten
  <2>2. CASE ~w.connected /\ z = [w EXCEPT !.pump = "off", !.held = 0]
    BY <1>1, <1>2, <2>2, ChunkLost
  <2> QED
    BY <1>3, <2>1, <2>2
<1>5. Follows(z, pty[z.at])
  BY <1>b, <1>4
<1>6. viewer' = [viewer EXCEPT ![v] = z]
  BY <1>3
<1> QED
  BY <1>1, <1>4, <1>5, <1>6, ViewerAloneMoves

\* The first states satisfy it,
LEMMA TerminalInitially ==
  ASSUME TerminalInit
  PROVE  TerminalInv
<1>1. ptys = {} /\ pty = [s \in Pty |-> NoPty] /\ viewer = [v \in Viewer |-> NoViewer]
  BY DEF TerminalInit
<1>2. /\ NoPty \in PtySession /\ NoPty.reader = "none" /\ NoPty.read = 0 /\ NoPty.ringLen = 0
      /\ NoPty.ringPos = 0
  BY NoPtyFields
<1>3. RingKeeps(NoPty)
  BY <1>2, TerminalAssumption DEF RingKeeps, StoredBy
<1>4. TerminalTypeOK
  BY <1>1, <1>2 DEF TerminalTypeOK
<1> QED
  BY <1>1, <1>3, <1>4 DEF TerminalInv

\* and every step keeps it.
LEMMA TerminalInductive ==
  ASSUME TerminalInv, [TerminalNext]_terminalVars
  PROVE  TerminalInv'
<1>1. CASE UNCHANGED terminalVars
  <2>1. ptys' = ptys /\ pty' = pty /\ viewer' = viewer
    BY <1>1 DEF terminalVars
  <2> QED
    BY <2>1 DEF TerminalInv, TerminalTypeOK
<1>2. ASSUME NEW s \in Pty,
             \/ SpawnPTY(s) \/ KillPTY(s) \/ ClosePTY(s) \/ ProcessExits(s) \/ ForgetPTY(s)
             \/ ReadChunk(s) \/ StoreChunk(s) \/ TellChunk(s) \/ ReaderStops(s)
      PROVE  TerminalInv'
  BY <1>2, SpawnPTYStep, EndingStep, ForgetPTYStep, ReadChunkStep, StoreChunkStep, TellChunkStep,
     ReaderStopsStep
<1>3. ASSUME NEW v \in Viewer, NEW s \in Pty, Connect(v, s)
      PROVE  TerminalInv'
  BY <1>3, ConnectStep
<1>4. ASSUME NEW v \in Viewer,
             \/ Subscribe(v) \/ SendReplay(v) \/ TakeInput(v) \/ InputTaken(v)
             \/ Pong(v) \/ PongSent(v) \/ Disconnect(v) \/ FailReplay(v) \/ StopReading(v)
             \/ LeavePTY(v) \/ PumpTakes(v) \/ PumpWrites(v)
      PROVE  TerminalInv'
  BY <1>4, SubscribePTYStep, SendReplayStep, InputStep, HandlerStep, LeavingStep, PumpTakesStep,
     PumpWritesStep
<1> QED
  BY <1>1, <1>2, <1>3, <1>4 DEF TerminalNext

\* --- the end ---

\* Its pump writes no more, and its browser is there.
Ending(w) == w.connected /\ w.pc # "gone" /\ Over(w)

\* A pump writes no more to a browser that is there only when the reader is done.
EndKnown ==
    \A v \in Viewer : viewer[v] # NoViewer /\ Ending(viewer[v]) => pty[viewer[v].at].reader = "done"

\* What a session's viewers have heard of stays so,
LEMMA DoneStays ==
  ASSUME TerminalInv, [TerminalNext]_terminalVars, NEW s \in Pty, pty[s].reader = "done"
  PROVE  pty'[s].reader = "done"
<1>1. pty \in [Pty -> PtySession] /\ pty[s] # NoPty
  BY DEF TerminalInv, TerminalTypeOK, NoPty
<1>2. CASE UNCHANGED terminalVars
  BY <1>2 DEF terminalVars
<1>3. ASSUME NEW t \in Pty,
             \/ SpawnPTY(t) \/ KillPTY(t) \/ ClosePTY(t) \/ ProcessExits(t) \/ ForgetPTY(t)
             \/ ReadChunk(t) \/ StoreChunk(t) \/ TellChunk(t) \/ ReaderStops(t)
      PROVE  pty'[s].reader = "done"
  BY <1>1, <1>3 DEF SpawnPTY, KillPTY, ClosePTY, ProcessExits, ForgetPTY, ReadChunk, StoreChunk,
     TellChunk, ReaderStops, PtySession
<1>4. ASSUME NEW v \in Viewer, NEW t \in Pty, Connect(v, t)
      PROVE  pty'[s].reader = "done"
  BY <1>4 DEF Connect
<1>5. ASSUME NEW v \in Viewer, TakeInput(v) \/ InputTaken(v)
      PROVE  pty'[s].reader = "done"
  BY <1>1, <1>5 DEF TakeInput, InputTaken, PtySession
<1>6. ASSUME NEW v \in Viewer, PumpTakes(v)
      PROVE  pty'[s].reader = "done"
  <2>1. EndedPty.reader = "done"
    BY DEF EndedPty, NoPty
  <2>2. pty' = pty \/ pty' = [t \in Pty |-> IF pty[t] = NoPty THEN NoPty ELSE EndedPty]
    BY <1>6 DEF PumpTakes
  <2> QED
    BY <1>1, <2>1, <2>2
<1>7. ASSUME NEW v \in Viewer,
             \/ Subscribe(v) \/ SendReplay(v) \/ Pong(v) \/ PongSent(v) \/ Disconnect(v)
             \/ FailReplay(v) \/ StopReading(v) \/ LeavePTY(v) \/ PumpWrites(v)
      PROVE  pty'[s].reader = "done"
  BY <1>7 DEF Subscribe, SendReplay, Pong, PongSent, Disconnect, FailReplay, StopReading, LeavePTY, PumpWrites
<1> QED
  BY <1>2, <1>3, <1>4, <1>5, <1>6, <1>7 DEF TerminalNext

\* and whoever hears of an end, hears it of a reader that is done.
LEMMA EndHeard ==
  ASSUME TerminalInv, TerminalNext, NEW v \in Viewer,
         viewer'[v] # NoViewer, Ending(viewer'[v])
  PROVE  /\ viewer[v] # NoViewer /\ viewer'[v].at = viewer[v].at
         /\ Ending(viewer[v]) \/ pty[viewer[v].at].reader = "done"
<1>1. /\ viewer \in [Viewer -> ViewerAt \cup {NoViewer}]
      /\ viewer[v] # NoViewer => viewer[v] \in ViewerAt /\ InPhase(viewer[v])
  BY DEF TerminalInv, TerminalTypeOK
<1>2. CASE viewer'[v] = viewer[v]
  BY <1>2
<1>3. ASSUME NEW s \in Pty, TellChunk(s)
      PROVE  /\ viewer[v] # NoViewer /\ viewer'[v].at = viewer[v].at
             /\ Ending(viewer[v])
  <2>1. viewer'[v] = Offer(viewer[v], pty[s].read) \/ viewer'[v] = viewer[v]
    BY <1>3 DEF TellChunk
  <2>2. CASE viewer'[v] # viewer[v]
    <3>1. Subscribed(v)
      BY <1>3, <2>2 DEF TellChunk, Subscribers
    <3>2. viewer[v] # NoViewer
      BY <3>1, NoViewerOff DEF Subscribed
    <3>3. viewer[v] \in ViewerAt
      BY <1>1, <3>2
    <3>4. /\ viewer'[v].at = viewer[v].at /\ viewer'[v].pc = viewer[v].pc
          /\ viewer'[v].pump = viewer[v].pump /\ viewer'[v].held = viewer[v].held
          /\ viewer'[v].connected = viewer[v].connected
      BY <2>1, <2>2, <3>3 DEF Offer, ViewerAt
    <3> QED
      BY <3>2, <3>4 DEF Ending, Over
  <2> QED
    BY <1>2, <2>2
<1>4. ASSUME NEW s \in Pty,
             \/ SpawnPTY(s) \/ KillPTY(s) \/ ClosePTY(s) \/ ProcessExits(s) \/ ForgetPTY(s)
             \/ ReadChunk(s) \/ StoreChunk(s) \/ ReaderStops(s)
      PROVE  viewer'[v] = viewer[v]
  BY <1>4 DEF SpawnPTY, KillPTY, ClosePTY, ProcessExits, ForgetPTY, ReadChunk, StoreChunk, ReaderStops
<1>5. ASSUME NEW u \in Viewer, NEW s \in Pty, Connect(u, s)
      PROVE  viewer'[v] = viewer[v]
  <2>1. ~Ending(Opened(s))
    BY DEF Ending, Over, Opened
  <2> QED
    BY <1>1, <1>5, <2>1 DEF Connect
<1>6. ASSUME NEW u \in Viewer,
             \/ Subscribe(u) \/ SendReplay(u) \/ TakeInput(u) \/ InputTaken(u) \/ Pong(u)
             \/ PongSent(u) \/ Disconnect(u) \/ FailReplay(u) \/ StopReading(u) \/ LeavePTY(u)
             \/ PumpWrites(u)
      PROVE  /\ viewer[v] # NoViewer /\ viewer'[v].at = viewer[v].at
             /\ Ending(viewer[v])
  <2>1. CASE u # v
    <3>1. viewer'[v] = viewer[v]
      BY <1>1, <1>6, <2>1 DEF Subscribe, SendReplay, TakeInput, InputTaken, Pong, PongSent,
         Disconnect, FailReplay, StopReading, LeavePTY, PumpWrites
    <3> QED
      BY <3>1
  <2>2. CASE u = v
    <3>1. viewer[v] \in ViewerAt /\ InPhase(viewer[v])
      <4>1. viewer[v].pc # "off"
        BY <1>6, <2>2 DEF Subscribe, SendReplay, TakeInput, InputTaken, Pong, PongSent,
           Disconnect, FailReplay, StopReading, LeavePTY, PumpWrites
      <4> QED
        BY <1>1, <4>1, NoViewerOff
    <3>2. CASE Subscribe(v) \/ SendReplay(v)
      <4>1. ~Ending(viewer'[v])
        BY <1>1, <3>1, <3>2 DEF Subscribe, SendReplay, Ending, Over, InPhase, ViewerAt
      <4> QED
        BY <4>1
    <3>3. CASE TakeInput(v) \/ InputTaken(v) \/ PongSent(v) \/ StopReading(v)
      <4>1. /\ viewer[v].pc \in {"read", "input", "pong"}
            /\ \E to \in {"read", "input", "leave"} : viewer'[v] = [viewer[v] EXCEPT !.pc = to]
        BY <1>1, <3>1, <3>3 DEF TakeInput, InputTaken, PongSent, StopReading
      <4>2. /\ viewer'[v].at = viewer[v].at /\ viewer'[v].pump = viewer[v].pump
            /\ viewer'[v].held = viewer[v].held /\ viewer'[v].connected = viewer[v].connected
        BY <3>1, <4>1 DEF ViewerAt
      <4> QED
        BY <3>1, <4>1, <4>2, ViewerFields DEF Ending, Over
    <3>4. CASE Pong(v)
      BY <1>1, <3>1, <3>4, ViewerFields DEF Pong, Ending, Over, ViewerAt
    <3>5. CASE Disconnect(v)
      BY <1>1, <3>1, <3>5 DEF Disconnect, Ending, ViewerAt
    <3>6. CASE FailReplay(v) \/ LeavePTY(v)
      BY <1>1, <3>6 DEF FailReplay, LeavePTY
    <3>7. CASE PumpWrites(v)
      <4>1. viewer[v].pump = "write"
        BY <3>7 DEF PumpWrites
      <4>2. \/ /\ viewer[v].pc # "gone"
               /\ viewer'[v] = IF viewer[v].held = 0 THEN [viewer[v] EXCEPT !.pump = "off"]
                               ELSE [viewer[v] EXCEPT !.pump = "wait", !.held = 0,
                                                      !.shown = Append(@, viewer[v].held)]
            \/ ~viewer[v].connected /\ viewer'[v] = [viewer[v] EXCEPT !.pump = "off", !.held = 0]
        BY <1>1, <3>7 DEF PumpWrites
      <4>3. CASE viewer[v].held = 0 /\ viewer'[v] = [viewer[v] EXCEPT !.pump = "off"]
        BY <3>1, <4>1, <4>3, ViewerFields DEF Ending, Over, ViewerAt
      <4>4. CASE viewer'[v] = [viewer[v] EXCEPT !.pump = "wait", !.held = 0,
                                                !.shown = Append(@, viewer[v].held)]
        <5>1. viewer'[v].pump = "wait"
          BY <3>1, <4>4 DEF ViewerAt
        <5> QED
          BY <5>1 DEF Ending, Over
      <4>5. CASE ~viewer[v].connected /\ viewer'[v] = [viewer[v] EXCEPT !.pump = "off", !.held = 0]
        <5>1. ~viewer'[v].connected
          BY <3>1, <4>5 DEF ViewerAt
        <5> QED
          BY <5>1 DEF Ending
      <4> QED
        BY <4>2, <4>3, <4>4, <4>5
    <3> QED
      BY <1>6, <2>2, <3>2, <3>3, <3>4, <3>5, <3>6, <3>7
  <2> QED
    BY <2>1, <2>2
<1>7. ASSUME NEW u \in Viewer, PumpTakes(u)
      PROVE  /\ viewer[v] # NoViewer /\ viewer'[v].at = viewer[v].at
             /\ Ending(viewer[v]) \/ pty[viewer[v].at].reader = "done"
  <2>1. viewer[u].pc # "pong"
    BY <1>7 DEF PumpTakes
  <2>2. CASE u # v
    BY <1>1, <1>7, <2>1, <2>2 DEF PumpTakes
  <2>3. CASE u = v
    <3>1. viewer[v] \in ViewerAt
      BY <1>1, <1>7, <2>3, NoViewerOff DEF PumpTakes
    <3>2. PICK c \in (IF viewer[v].live = <<>> THEN {} ELSE {Head(viewer[v].live)})
               \cup (IF pty[viewer[v].at].reader = "done" \/ viewer[v].pc = "gone" THEN {0} ELSE {}) :
            viewer'[v] = [viewer[v] EXCEPT !.pump = "write", !.held = c,
                                           !.live = IF c = 0 THEN @ ELSE Tail(@)]
      BY <1>1, <1>7, <2>1, <2>3 DEF PumpTakes
    <3>3. /\ viewer'[v].pump = "write" /\ viewer'[v].held = c /\ viewer'[v].pc = viewer[v].pc
          /\ viewer'[v].at = viewer[v].at
      BY <3>1, <3>2 DEF ViewerAt
    <3>4. c = 0 /\ viewer[v].pc # "gone"
      BY <3>3 DEF Ending, Over
    <3>5. viewer[v].live # <<>> => Head(viewer[v].live) # 0
      <4>1. viewer[v].live # <<>> => Head(viewer[v].live) \in Chunk
        BY <3>1, ViewerFields, HeadTailProperties
      <4> QED
        BY <4>1 DEF Chunk
    <3> QED
      BY <3>1, <3>2, <3>3, <3>4, <3>5, ViewerFields
  <2> QED
    BY <2>2, <2>3
<1> QED
  BY <1>2, <1>3, <1>4, <1>5, <1>6, <1>7 DEF TerminalNext

\* So it stays true.
LEMMA EndKept ==
  ASSUME TerminalInv, EndKnown, [TerminalNext]_terminalVars
  PROVE  EndKnown'
<1> SUFFICES ASSUME NEW v \in Viewer, viewer'[v] # NoViewer, Ending(viewer'[v])
             PROVE  pty'[viewer'[v].at].reader = "done"
  BY DEF EndKnown, Ending, Over
<1>1. CASE UNCHANGED terminalVars
  BY <1>1 DEF terminalVars, EndKnown
<1>2. CASE TerminalNext
  <2>1. /\ viewer[v] # NoViewer /\ viewer'[v].at = viewer[v].at
        /\ Ending(viewer[v]) \/ pty[viewer[v].at].reader = "done"
    BY <1>2, EndHeard
  <2>2. pty[viewer[v].at].reader = "done" /\ viewer[v].at \in Pty
    BY <2>1, ViewerFields DEF EndKnown, TerminalInv, TerminalTypeOK
  <2> QED
    BY <2>1, <2>2, DoneStays
<1> QED
  BY <1>1, <1>2

\* What waits in order is shown in order.
LEMMA TerminalImplied ==
  ASSUME TerminalInv, EndKnown
  PROVE  TerminalTypeOK /\ OutputInOrder
<1>1. ASSUME NEW v \in Viewer, Subscribed(v)
      PROVE  LET told == ShownTo(v) \o NeverShown(v) IN
             /\ \A i, j \in 1 .. Len(told) :
                    i < j => \/ told[i] < told[j]
                             \/ told[i] = told[j] /\ i = viewer[v].replayed /\ j = i + 1
             /\ viewer[v].connected =>
                    /\ \A c \in viewer[v].since .. Told(viewer[v].at) :
                          c \in viewer[v].missed \cup {told[i] : i \in 1 .. Len(told)}
                    /\ NeverShown(v) # <<>> => pty[viewer[v].at].reader = "done"
  <2>a. PICK w : w = viewer[v]
    OBVIOUS
  <2>1. w.pc \in {"replay", "read", "input", "pong", "leave"}
    BY <1>1, <2>a DEF Subscribed
  <2>2. w \in ViewerAt /\ w # NoViewer /\ Follows(w, pty[w.at])
    BY <2>1, <2>a, ViewerKnown, NoViewerOff
  <2>b. PICK q : q = Got(w)
    OBVIOUS
  <2>3. Ordered(q, w.replayed) /\ NoneLost(w, q, pty[w.at])
    BY <2>1, <2>2, <2>b DEF Follows
  <2>4. q = ShownTo(v) \o NeverShown(v) /\ Told(w.at) = ToldBy(pty[w.at])
    <3>1. q = ShownTo(v) \o NeverShown(v)
      BY <2>2, <2>a, <2>b, ShownIsSeen
    <3>2. Told(w.at) = ToldBy(pty[w.at])
      BY DEF Told, ToldBy
    <3> QED
      BY <3>1, <3>2
  <2>5. \A i, j \in 1 .. Len(q) :
            i < j => (q[i] < q[j] \/ (q[i] = q[j] /\ i = w.replayed /\ j = i + 1))
    BY <2>3 DEF Ordered
  <2>6. w.connected => \A c \in w.since .. Told(w.at) : c \in w.missed \cup {q[i] : i \in 1 .. Len(q)}
    BY <2>3, <2>4 DEF NoneLost
  <2>7. w.connected /\ NeverShown(v) # <<>> => pty[w.at].reader = "done"
    BY <2>1, <2>2, <2>a DEF NeverShown, Ending, EndKnown
  <2> QED
    BY <2>4, <2>5, <2>6, <2>7, <2>a
<1>2. OutputInOrder
  BY <1>1 DEF OutputInOrder
<1> QED
  BY <1>2 DEF TerminalInv

------------------------------------------------------------------------------
(* Activity. *)

\* Events of hooks, states and activities of sessions.
Events == {"agent_exit", "agent_spawn", "stop", "tool_end", "tool_start"}

States == {"active", "thinking", "waiting", "idle"}

Activities == {"thinking", "waiting", "idle", "work"}

\* What the detector holds of a session.
Entry ==
    [state : States, activity : Activities, until : Nat, pending : BOOLEAN, last : Nat,
     type : Events, idleSent : BOOLEAN, waitSent : BOOLEAN]

\* What a browser may be sent of the sessions.
Snap == [Session -> {NoEntry} \cup [state : States, activity : Activities]]

\* A browser that streams.
Subscription ==
    [at : {"subscribed", "streaming"}, channel : Seq(Snap), missed : BOOLEAN, sent : Snap]

\* A file that a hook wrote.
HookWritten == [at : {"written"}, session : Session, type : Events, ts : Nat]

\* The shape of files, entries and streams.
ActivityTypes ==
    /\ hookFile \in [Hook -> {NoFile, Removed} \cup HookWritten]
    /\ watch \in [at : {"stopped", "catching up", "watching"}, unread : Seq(Hook)]
    /\ entry \in [Session -> {NoEntry} \cup Entry]
    /\ stream \in [Stream -> {NoStream} \cup Subscription]
    /\ seconds \in 0 .. MaxSeconds

\* The files that are still to be read are there, each once.
FilesThere ==
    /\ IsFiniteSet(Written)
    /\ \A i \in 1 .. Len(watch.unread) : watch.unread[i] \in Written
    /\ \A i, j \in 1 .. Len(watch.unread) : i < j => watch.unread[i] # watch.unread[j]

\* The last that a browser was sent, or is to be sent, is how the sessions are.
UpToDate(b) ==
    stream[b] # NoStream /\ ~stream[b].missed =>
        /\ stream[b].channel # <<>> => stream[b].channel[Len(stream[b].channel)] = Sessions
        /\ stream[b].channel = <<>> /\ stream[b].at = "streaming" => stream[b].sent = Sessions

\* An entry fits the last event, and only the end of a tool waits to be shown.
Fits(e) ==
    /\ e.type = "stop" => e.state \in {"waiting", "idle"}
    /\ e.type = "tool_start" => e.state \in {"active", "idle"}
    /\ e.pending => e.type = "tool_end"

\* What is inductive: a browser with an empty channel that was not passed over is up to
\* date, and each entry fits the last event.
ActivityInv ==
    /\ ActivityTypeOK
    /\ ActivityTypes
    /\ FilesThere
    /\ \A b \in Stream : UpToDate(b)
    /\ \A s \in Session : entry[s] # NoEntry => Fits(entry[s])

\* --- entries ---

\* A session without an entry has no state.
LEMMA NoEntryState == NoEntry.state = "none"
  BY DEF NoEntry

\* What an entry holds,
LEMMA EntryFields ==
  ASSUME NEW e \in Entry
  PROVE  /\ e.state \in States /\ e.activity \in Activities /\ e.until \in Nat
         /\ e.pending \in BOOLEAN /\ e.last \in Nat /\ e.type \in Events
         /\ e.idleSent \in BOOLEAN /\ e.waitSent \in BOOLEAN
         /\ e # NoEntry
<1>1. /\ e.state \in States /\ e.activity \in Activities /\ e.until \in Nat
      /\ e.pending \in BOOLEAN /\ e.last \in Nat /\ e.type \in Events
      /\ e.idleSent \in BOOLEAN /\ e.waitSent \in BOOLEAN
  BY DEF Entry
<1>2. "none" \notin States
  BY DEF States
<1> QED
  BY <1>1, <1>2, NoEntryState

\* and shows.
LEMMA Snaps ==
  ASSUME NEW e \in {NoEntry} \cup Entry
  PROVE  Shown(e) \in {NoEntry} \cup [state : States, activity : Activities]
<1>1. CASE e = NoEntry
  BY <1>1 DEF Shown
<1>2. CASE e \in Entry
  <2>1. Shown(e) = [state |-> e.state, activity |-> e.activity]
    BY <1>2, EntryFields DEF Shown
  <2> QED
    BY <1>2, <2>1, EntryFields
<1> QED
  BY <1>1, <1>2

\* An event makes an entry that fits it,
LEMMA RecordedFits ==
  ASSUME seconds \in Nat, NEW e \in {NoEntry} \cup Entry, NEW kind \in Events, NEW ts \in Nat
  PROVE  Recorded(e, kind, ts) \in Entry /\ Fits(Recorded(e, kind, ts))
<1> DEFINE heard == [(IF e = NoEntry THEN Fresh ELSE e) EXCEPT
                     !.last = ts, !.type = kind, !.idleSent = FALSE, !.waitSent = FALSE]
<1>1. PICK old : old = (IF e = NoEntry THEN Fresh ELSE e)
  OBVIOUS
<1>2. old \in Entry
  <2>1. Fresh \in Entry
    BY DEF Fresh, Entry, States, Activities, Events
  <2> QED
    BY <1>1, <2>1
<1>3. PICK h : h = [old EXCEPT !.last = ts, !.type = kind, !.idleSent = FALSE, !.waitSent = FALSE]
  OBVIOUS
<1>4. h \in Entry /\ h.type = kind
  BY <1>2, <1>3 DEF Entry
<1>5. Recorded(e, kind, ts) =
        CASE kind = "stop" ->
              [h EXCEPT !.state = "waiting", !.activity = "waiting", !.until = 0, !.pending = FALSE]
         [] kind = "tool_end" /\ seconds < h.until ->
              [h EXCEPT !.pending = TRUE]
         [] kind = "tool_end" /\ seconds >= h.until ->
              [h EXCEPT !.state = "thinking", !.activity = "thinking"]
         [] OTHER ->
              [h EXCEPT !.state = "active", !.activity = MapToolToActivity(kind),
                            !.until = seconds + DisplayTime, !.pending = FALSE]
  BY <1>1, <1>3 DEF Recorded
<1>6. CASE kind = "stop"
  <2> PICK r : r = [h EXCEPT !.state = "waiting", !.activity = "waiting", !.until = 0, !.pending = FALSE]
    OBVIOUS
  <2>1. r \in Entry /\ r.type = "stop" /\ r.state = "waiting" /\ ~r.pending
    BY <1>4, <1>6 DEF Entry, States, Activities
  <2>2. Recorded(e, kind, ts) = r
    BY <1>5, <1>6
  <2> QED
    BY <2>1, <2>2 DEF Fits
<1>7. CASE kind = "tool_end" /\ seconds < h.until
  <2> PICK r : r = [h EXCEPT !.pending = TRUE]
    OBVIOUS
  <2>1. r \in Entry /\ r.type = "tool_end"
    BY <1>4, <1>7 DEF Entry
  <2>2. ~(seconds >= h.until)
    BY <1>4, <1>7, EntryFields
  <2>3. Recorded(e, kind, ts) = r
    BY <1>5, <1>7, <2>2
  <2> QED
    BY <2>1, <2>3 DEF Fits
<1>8. CASE kind = "tool_end" /\ ~(seconds < h.until)
  <2> PICK r : r = [h EXCEPT !.state = "thinking", !.activity = "thinking"]
    OBVIOUS
  <2>1. r \in Entry /\ r.type = "tool_end"
    BY <1>4, <1>8 DEF Entry, States, Activities
  <2>2. seconds >= h.until
    BY <1>4, <1>8, EntryFields
  <2>3. Recorded(e, kind, ts) = r
    BY <1>5, <1>8, <2>2
  <2> QED
    BY <2>1, <2>3 DEF Fits
<1>9. CASE kind # "stop" /\ kind # "tool_end"
  <2> PICK r : r = [h EXCEPT !.state = "active", !.activity = MapToolToActivity(kind),
                            !.until = seconds + DisplayTime, !.pending = FALSE]
    OBVIOUS
  <2>1. MapToolToActivity(kind) \in Activities
    BY DEF MapToolToActivity, Activities
  <2>2. seconds + DisplayTime \in Nat
    BY ActivityAssumption
  <2>3. "active" \in States
    BY DEF States
  <2>4. r \in Entry /\ r.type = kind /\ r.state = "active" /\ ~r.pending
    BY <1>4, <2>1, <2>2, <2>3 DEF Entry
  <2>5. Recorded(e, kind, ts) = r
    BY <1>5, <1>9
  <2> QED
    BY <1>9, <2>4, <2>5 DEF Fits
<1> QED
  BY <1>6, <1>7, <1>8, <1>9

\* and age keeps it fitting.
LEMMA AgedFits ==
  ASSUME seconds \in Nat, NEW e \in Entry, Fits(e)
  PROVE  Aged(e) = NoEntry \/ (Aged(e) \in Entry /\ Fits(Aged(e)))
<1>1. PICK f : f = IF e.pending /\ seconds > e.until
                   THEN [e EXCEPT !.state = "thinking", !.activity = "thinking", !.pending = FALSE]
                   ELSE e
  OBVIOUS
<1>2. f \in Entry /\ Fits(f)
  <2>1. CASE e.pending /\ seconds > e.until
    <3>1. e.type = "tool_end"
      BY <2>1 DEF Fits
    <3>2. f \in Entry /\ f.type = "tool_end"
      BY <1>1, <2>1, <3>1 DEF Entry, States, Activities
    <3> QED
      BY <3>2 DEF Fits
  <2>2. CASE ~(e.pending /\ seconds > e.until)
    BY <1>1, <2>2
  <2> QED
    BY <2>1, <2>2
<1>3. PICK idle : idle = [f EXCEPT !.state = "idle", !.activity = "idle", !.idleSent = TRUE]
  OBVIOUS
<1>4. PICK waiting : waiting = [f EXCEPT !.state = "waiting", !.activity = "waiting", !.waitSent = TRUE]
  OBVIOUS
<1>5. idle \in Entry /\ idle.state = "idle" /\ idle.type = f.type /\ idle.pending = f.pending
  BY <1>2, <1>3 DEF Entry, States, Activities
<1>6. waiting \in Entry /\ waiting.type = f.type
  BY <1>2, <1>4 DEF Entry, States, Activities
<1>7. \/ Aged(e) = NoEntry
      \/ Aged(e) = idle
      \/ Aged(e) = waiting /\ f.type = "tool_end"
      \/ Aged(e) = f
  <2> DEFINE elapsed == seconds - e.last
             gone == elapsed > ExitAge
             silent == elapsed \in (IdleAge + 1)..ExitAge /\ ~f.idleSent
             paused == elapsed \in (WaitingAge + 1)..ExitAge /\ (elapsed > IdleAge => f.idleSent)
                         /\ f.type = "tool_end" /\ ~f.waitSent
  <2>1. Aged(e) = CASE gone -> NoEntry
                    [] silent -> idle
                    [] paused -> waiting
                    [] OTHER -> f
    BY <1>1, <1>3, <1>4 DEF Aged
  <2>2. paused => f.type = "tool_end"
    OBVIOUS
  <2> HIDE DEF gone, silent, paused
  <2> QED
    BY <2>1, <2>2
<1> QED
  BY <1>2, <1>5, <1>6, <1>7 DEF Fits

\* --- snapshots ---

\* A snapshot shows every session.
LEMMA SnapshotTypes ==
  ASSUME NEW entries \in [Session -> {NoEntry} \cup Entry]
  PROVE  [s \in Session |-> Shown(entries[s])] \in Snap
<1>1. ASSUME NEW s \in Session
      PROVE  Shown(entries[s]) \in {NoEntry} \cup [state : States, activity : Activities]
  <2>1. entries[s] \in {NoEntry} \cup Entry
    OBVIOUS
  <2> QED
    BY <2>1, Snaps
<1> QED
  BY <1>1 DEF Snap

\* States that are shown.
LEMMA ShownStates ==
  ASSUME NEW e \in {NoEntry} \cup Entry
  PROVE  Shown(e).state \in {"none", "active", "thinking", "waiting", "idle"}
<1>1. CASE Shown(e) = NoEntry
  BY <1>1, NoEntryState
<1>2. CASE Shown(e) \in [state : States, activity : Activities]
  BY <1>2 DEF States
<1> QED
  BY <1>1, <1>2, Snaps

\* Where a browser is.
LEMMA StreamStates ==
  ASSUME ActivityTypes, NEW b \in Stream
  PROVE  \/ stream[b] = NoStream /\ stream[b].at = "none"
         \/ stream[b] \in Subscription /\ stream[b].at \in {"subscribed", "streaming"}
<1>1. stream[b] \in {NoStream} \cup Subscription
  BY DEF ActivityTypes
<1>2. NoStream.at = "none"
  BY DEF NoStream
<1>3. ASSUME stream[b] \in Subscription
      PROVE  stream[b].at \in {"subscribed", "streaming"}
  BY <1>3 DEF Subscription
<1> QED
  BY <1>1, <1>2, <1>3

LEMMA Broadcasts ==
  ASSUME ActivityTypes, \A b \in Stream : stream[b] = NoStream \/ Len(stream[b].channel) <= StreamSize,
         entry' \in [Session -> {NoEntry} \cup Entry],
         Broadcast(entry')
  PROVE  /\ stream' \in [Stream -> {NoStream} \cup Subscription]
         /\ \A b \in Stream : stream'[b] = NoStream \/ Len(stream'[b].channel) <= StreamSize
         /\ \A b \in Stream : UpToDate(b)'
<1> PICK snap : snap = Sessions'
  OBVIOUS
<1>1. snap \in Snap
  BY SnapshotTypes DEF Sessions
<1>2. stream' = [b \in Stream |->
          IF stream[b].at = "none" THEN NoStream
          ELSE IF Len(stream[b].channel) < StreamSize
               THEN [stream[b] EXCEPT !.channel = Append(@, snap), !.missed = FALSE]
               ELSE [stream[b] EXCEPT !.missed = TRUE]]
  BY DEF Broadcast, Sessions
<1>3. ASSUME NEW b \in Stream
      PROVE  /\ stream'[b] \in {NoStream} \cup Subscription
             /\ stream'[b] = NoStream \/ Len(stream'[b].channel) <= StreamSize
             /\ UpToDate(b)'
  <2>1. CASE stream[b] = NoStream
    <3>0. stream[b].at = "none"
      BY <2>1 DEF NoStream
    <3>1. stream'[b] = NoStream
      BY <1>2, <3>0
    <3> QED
      BY <3>1 DEF UpToDate
  <2>2. CASE stream[b] \in Subscription /\ Len(stream[b].channel) < StreamSize
    <3> PICK r : r = [stream[b] EXCEPT !.channel = Append(@, snap), !.missed = FALSE]
      OBVIOUS
    <3> PICK c : c = stream[b].channel
      OBVIOUS
    <3>1. c \in Seq(Snap)
      BY <2>2 DEF Subscription
    <3>2. r \in Subscription /\ r.channel = Append(c, snap)
      <4>1. Append(c, snap) \in Seq(Snap)
        BY <1>1, <3>1, AppendProperties
      <4> QED
        BY <2>2, <4>1 DEF Subscription
    <3>3. stream'[b] = r
      <4>1. stream[b].at # "none"
        BY <2>2 DEF Subscription
      <4> QED
        BY <1>2, <2>2, <4>1
    <3>4. /\ Len(r.channel) <= StreamSize
          /\ r.channel # <<>>
          /\ r.channel[Len(r.channel)] = snap
      <4>1. Len(r.channel) = Len(c) + 1 /\ r.channel[Len(c) + 1] = snap
        BY <1>1, <3>1, <3>2, AppendProperties
      <4>2. Len(c) \in Nat /\ Len(c) < StreamSize
        BY <2>2, <3>1, LenProperties
      <4>3. r.channel # <<>>
        BY <3>1, <3>2, <1>1, AppendProperties
      <4> QED
        BY <4>1, <4>2, <4>3, ActivityAssumption
    <3> QED
      BY <3>2, <3>3, <3>4 DEF UpToDate
  <2>3. CASE stream[b] \in Subscription /\ ~(Len(stream[b].channel) < StreamSize)
    <3> PICK r : r = [stream[b] EXCEPT !.missed = TRUE]
      OBVIOUS
    <3>1. r \in Subscription /\ r.missed = TRUE /\ r.channel = stream[b].channel
      BY <2>3 DEF Subscription
    <3>2. stream'[b] = r
      <4>1. stream[b].at # "none"
        BY <2>3 DEF Subscription
      <4> QED
        BY <1>2, <2>3, <4>1
    <3>3. stream[b] # NoStream
      BY <2>3, StreamStates DEF NoStream, Subscription
    <3> QED
      BY <3>1, <3>2, <3>3 DEF UpToDate
  <2> QED
    BY <2>1, <2>2, <2>3, StreamStates
<1>4. stream' \in [Stream -> {NoStream} \cup Subscription]
  BY <1>2, <1>3
<1> QED
  BY <1>3, <1>4

\* --- the steps ---

\* What an event or a tick makes of the entries is told to every browser.
LEMMA ToldOf ==
  ASSUME ActivityInv, Broadcast(entry'), seconds' = seconds,
         entry' \in [Session -> {NoEntry} \cup Entry],
         \A s \in Session : entry'[s] # NoEntry => Fits(entry'[s]),
         watch' \in [at : {"stopped", "catching up", "watching"}, unread : Seq(Hook)],
         hookFile' \in [Hook -> {NoFile, Removed} \cup HookWritten],
         \A h \in Hook : hookFile'[h] \in {NoFile, Removed} \/ hookFile'[h].type = Tells[h],
         FilesThere'
  PROVE  ActivityInv'
<1>1. /\ stream' \in [Stream -> {NoStream} \cup Subscription]
      /\ \A b \in Stream : stream'[b] = NoStream \/ Len(stream'[b].channel) <= StreamSize
      /\ \A b \in Stream : UpToDate(b)'
  BY Broadcasts DEF ActivityInv, ActivityTypeOK
<1>2. ActivityTypes'
  BY <1>1 DEF ActivityInv, ActivityTypes
<1>3. \A s \in Session : Shown(entry'[s]).state \in {"none", "active", "thinking", "waiting", "idle"}
  BY ShownStates
<1>4. seconds' \in 0 .. MaxSeconds
  BY DEF ActivityInv, ActivityTypes
<1>5. watch'.at \in {"stopped", "catching up", "watching"} /\ watch'.unread \in Seq(Hook)
  OBVIOUS
<1>6. ActivityTypeOK'
  BY <1>1, <1>3, <1>4, <1>5 DEF ActivityTypeOK
<1> QED
  BY <1>1, <1>2, <1>6 DEF ActivityInv

\* The clock is a number.
LEMMA SecondsType ==
  ASSUME ActivityInv
  PROVE  seconds \in Nat
<1>1. seconds \in 0 .. MaxSeconds
  BY DEF ActivityInv, ActivityTypes
<1> QED
  BY <1>1

\* The ticker ages entries,
LEMMA TickStep ==
  ASSUME ActivityInv, Tick
  PROVE  ActivityInv'
<1>1. /\ entry' = [s \in Session |-> IF entry[s] = NoEntry THEN NoEntry ELSE Aged(entry[s])]
      /\ Broadcast(entry')
      /\ UNCHANGED <<hookFile, watch, seconds>>
  BY DEF Tick
<1>2. ASSUME NEW s \in Session
      PROVE  entry'[s] = NoEntry \/ (entry'[s] \in Entry /\ Fits(entry'[s]))
  <2>1. CASE entry[s] = NoEntry
    BY <1>1, <2>1
  <2>2. CASE entry[s] # NoEntry
    <3>1. entry[s] \in Entry /\ Fits(entry[s])
      BY <2>2 DEF ActivityInv, ActivityTypes
    <3>2. entry'[s] = Aged(entry[s])
      BY <1>1, <2>2
    <3> QED
      BY <3>1, <3>2, AgedFits, SecondsType
  <2> QED
    BY <2>1, <2>2
<1>3. entry' \in [Session -> {NoEntry} \cup Entry]
  <2>1. \A s \in Session : entry'[s] \in {NoEntry} \cup Entry
    BY <1>2
  <2> QED
    BY <1>1, <2>1
<1>4. \A s \in Session : entry'[s] # NoEntry => Fits(entry'[s])
  BY <1>2
<1>5. /\ watch' \in [at : {"stopped", "catching up", "watching"}, unread : Seq(Hook)]
      /\ hookFile' \in [Hook -> {NoFile, Removed} \cup HookWritten]
      /\ \A h \in Hook : hookFile'[h] \in {NoFile, Removed} \/ hookFile'[h].type = Tells[h]
      /\ FilesThere'
  BY <1>1 DEF ActivityInv, ActivityTypes, ActivityTypeOK, FilesThere, Written
<1> QED
  BY <1>1, <1>3, <1>4, <1>5, ToldOf

\* A file that is to be read is one a hook wrote.
LEMMA WrittenFields ==
  ASSUME ActivityTypes, NEW h \in Written
  PROVE  /\ h \in Hook /\ hookFile[h] \in HookWritten
         /\ hookFile[h].session \in Session /\ hookFile[h].type \in Events /\ hookFile[h].ts \in Nat
<1>1. h \in Hook /\ hookFile[h].at = "written"
  BY DEF Written
<1>2. hookFile[h] # NoFile /\ hookFile[h] # Removed
  BY <1>1 DEF NoFile, Removed
<1>3. hookFile[h] \in HookWritten
  BY <1>1, <1>2 DEF ActivityTypes
<1> QED
  BY <1>1, <1>3 DEF HookWritten

\* The rest of the files, after the first is removed.
LEMMA RestThere ==
  ASSUME ActivityInv, watch.unread # <<>>,
         watch' = [watch EXCEPT !.unread = Tail(@)],
         hookFile' = [hookFile EXCEPT ![Head(watch.unread)] = Removed]
  PROVE  /\ Head(watch.unread) \in Written
         /\ watch' \in [at : {"stopped", "catching up", "watching"}, unread : Seq(Hook)]
         /\ hookFile' \in [Hook -> {NoFile, Removed} \cup HookWritten]
         /\ \A h \in Hook : hookFile'[h] \in {NoFile, Removed} \/ hookFile'[h].type = Tells[h]
         /\ FilesThere'
<1> PICK u : u = watch.unread
  OBVIOUS
<1> PICK h : h = Head(u)
  OBVIOUS
<1>1. u \in Seq(Hook) /\ u # <<>>
  BY DEF ActivityInv, ActivityTypes
<1>2. Len(u) \in Nat /\ 1 <= Len(u) /\ h = u[1]
  BY <1>1, EmptySeq, LenProperties, HeadTailProperties
<1>3. h \in Written /\ h \in Hook
  BY <1>2 DEF ActivityInv, FilesThere, Written
<1>4. /\ Tail(u) \in Seq(Hook) /\ Len(Tail(u)) = Len(u) - 1
      /\ \A i \in 1 .. Len(Tail(u)) : Tail(u)[i] = u[i + 1]
  BY <1>1, HeadTailProperties
<1>5. watch' \in [at : {"stopped", "catching up", "watching"}, unread : Seq(Hook)] /\ watch'.unread = Tail(u)
  BY <1>4 DEF ActivityInv, ActivityTypes
<1>6. /\ hookFile' \in [Hook -> {NoFile, Removed} \cup HookWritten]
      /\ hookFile'[h] = Removed
      /\ \A g \in Hook \ {h} : hookFile'[g] = hookFile[g]
  BY <1>3 DEF ActivityInv, ActivityTypes
<1>7. \A g \in Hook : hookFile'[g] \in {NoFile, Removed} \/ hookFile'[g].type = Tells[g]
  BY <1>6 DEF ActivityInv, ActivityTypeOK
<1>8. Written' = Written \ {h}
  BY <1>3, <1>6 DEF Written, Removed
<1>9. FilesThere'
  <2>1. IsFiniteSet(Written')
    BY <1>8, FS_RemoveElement DEF ActivityInv, FilesThere
  <2>2. ASSUME NEW i \in 1 .. Len(watch'.unread)
        PROVE  watch'.unread[i] \in Written'
    <3>0. i \in 1 .. Len(Tail(u))
      BY <1>5, <2>2
    <3>1. watch'.unread[i] = u[i + 1] /\ i + 1 \in 1 .. Len(u) /\ 1 < i + 1
      <4>1. watch'.unread[i] = u[i + 1]
        BY <1>4, <1>5, <3>0
      <4>2. i + 1 \in 1 .. Len(u) /\ 1 < i + 1
        BY <1>2, <1>4, <3>0
      <4> QED
        BY <4>1, <4>2
    <3>2. u[i + 1] # u[1] /\ u[i + 1] \in Written
      BY <1>2, <3>1 DEF ActivityInv, FilesThere
    <3> QED
      BY <1>2, <1>8, <3>1, <3>2
  <2>3. ASSUME NEW i \in 1 .. Len(watch'.unread), NEW j \in 1 .. Len(watch'.unread), i < j
        PROVE  watch'.unread[i] # watch'.unread[j]
    <3>0. i \in 1 .. Len(Tail(u)) /\ j \in 1 .. Len(Tail(u))
      BY <1>5, <2>3
    <3>1. /\ watch'.unread[i] = u[i + 1] /\ i + 1 \in 1 .. Len(u)
          /\ watch'.unread[j] = u[j + 1] /\ j + 1 \in 1 .. Len(u)
          /\ i + 1 < j + 1
      <4>1. watch'.unread[i] = u[i + 1] /\ watch'.unread[j] = u[j + 1]
        BY <1>4, <1>5, <3>0
      <4>2. i + 1 \in 1 .. Len(u) /\ j + 1 \in 1 .. Len(u) /\ i + 1 < j + 1
        BY <1>2, <1>4, <2>3, <3>0
      <4> QED
        BY <4>1, <4>2
    <3> QED
      BY <3>1 DEF ActivityInv, FilesThere
  <2> QED
    BY <2>1, <2>2, <2>3 DEF FilesThere
<1> QED
  BY <1>3, <1>5, <1>6, <1>7, <1>9

\* a file is read,
LEMMA ProcessFileStep ==
  ASSUME ActivityInv, ProcessFile
  PROVE  ActivityInv'
<1> PICK h : h = Head(watch.unread)
  OBVIOUS
<1>1. /\ watch.unread # <<>>
      /\ watch' = [watch EXCEPT !.unread = Tail(@)]
      /\ RecordEvent(h)
      /\ hookFile' = [hookFile EXCEPT ![h] = Removed]
      /\ seconds' = seconds
  BY DEF ProcessFile
<1>2. /\ h \in Written
      /\ watch' \in [at : {"stopped", "catching up", "watching"}, unread : Seq(Hook)]
      /\ hookFile' \in [Hook -> {NoFile, Removed} \cup HookWritten]
      /\ \A g \in Hook : hookFile'[g] \in {NoFile, Removed} \/ hookFile'[g].type = Tells[g]
      /\ FilesThere'
  BY <1>1, RestThere
<1> PICK s : s = hookFile[h].session
  OBVIOUS
<1> PICK r : r = Recorded(entry[s], hookFile[h].type, hookFile[h].ts)
  OBVIOUS
<1>3. /\ s \in Session /\ hookFile[h].type \in Events /\ hookFile[h].ts \in Nat
  BY <1>2, WrittenFields DEF ActivityInv
<1>4. r \in Entry /\ Fits(r)
  <2>1. entry[s] \in {NoEntry} \cup Entry
    BY <1>3 DEF ActivityInv, ActivityTypes
  <2> QED
    BY <1>3, <2>1, RecordedFits, SecondsType
<1>5. entry' = [entry EXCEPT ![s] = r] /\ Broadcast(entry')
  BY <1>1 DEF RecordEvent
<1>6. entry' \in [Session -> {NoEntry} \cup Entry]
  BY <1>4, <1>5 DEF ActivityInv, ActivityTypes
<1>7. \A q \in Session : entry'[q] # NoEntry => Fits(entry'[q])
  <2>1. \A q \in Session : entry'[q] = IF q = s THEN r ELSE entry[q]
    BY <1>5 DEF ActivityInv, ActivityTypes
  <2> QED
    BY <1>4, <2>1 DEF ActivityInv
<1> QED
  BY <1>1, <1>2, <1>5, <1>6, <1>7, ToldOf

\* Where only the files and their watcher move.
LEMMA FilesMove ==
  ASSUME ActivityInv, UNCHANGED <<entry, stream, seconds>>,
         watch' \in [at : {"stopped", "catching up", "watching"}, unread : Seq(Hook)],
         hookFile' \in [Hook -> {NoFile, Removed} \cup HookWritten],
         \A h \in Hook : hookFile'[h] \in {NoFile, Removed} \/ hookFile'[h].type = Tells[h],
         FilesThere'
  PROVE  ActivityInv'
<1>1. \A b \in Stream : UpToDate(b)'
  BY DEF ActivityInv, UpToDate, Sessions
<1>2. ActivityTypes'
  BY DEF ActivityInv, ActivityTypes
<1>3. ActivityTypeOK'
  BY DEF ActivityInv, ActivityTypeOK
<1> QED
  BY <1>1, <1>2, <1>3 DEF ActivityInv

\* written,
LEMMA WriteHookStep ==
  ASSUME ActivityInv, NEW h \in Hook, NEW s \in Session, WriteHook(h, s)
  PROVE  ActivityInv'
<1> PICK u : u = watch.unread
  OBVIOUS
<1> PICK f : f = [at |-> "written", session |-> s, type |-> Tells[h], ts |-> seconds]
  OBVIOUS
<1>1. /\ hookFile[h] = NoFile
      /\ hookFile' = [hookFile EXCEPT ![h] = f]
      /\ UNCHANGED <<entry, stream, seconds>>
  BY DEF WriteHook
<1>2. f \in HookWritten /\ f.at = "written" /\ f.type = Tells[h]
  <2>1. Tells[h] \in Events
    BY ActivityAssumption DEF Events
  <2> QED
    BY <2>1, SecondsType DEF HookWritten
<1>3. /\ hookFile' \in [Hook -> {NoFile, Removed} \cup HookWritten]
      /\ hookFile'[h] = f
      /\ \A g \in Hook \ {h} : hookFile'[g] = hookFile[g]
  BY <1>1, <1>2 DEF ActivityInv, ActivityTypes
<1>4. \A g \in Hook : hookFile'[g] \in {NoFile, Removed} \/ hookFile'[g].type = Tells[g]
  BY <1>2, <1>3 DEF ActivityInv, ActivityTypeOK
<1>5. h \notin Written /\ Written' = Written \cup {h}
  <2>1. h \notin Written
    BY <1>1 DEF Written, NoFile
  <2>2. Written' = Written \cup {h}
    BY <1>2, <1>3 DEF Written
  <2> QED
    BY <2>1, <2>2
<1>6. u \in Seq(Hook) /\ Len(u) \in Nat
  BY LenProperties DEF ActivityInv, ActivityTypes
<1>7. IsFiniteSet(Written')
  BY <1>5, FS_AddElement DEF ActivityInv, FilesThere
<1>8. CASE watch.at # "watching"
  <2>1. watch' = watch
    BY <1>8 DEF WriteHook
  <2>2. FilesThere'
    BY <1>5, <1>7, <2>1 DEF ActivityInv, FilesThere
  <2>3. watch' \in [at : {"stopped", "catching up", "watching"}, unread : Seq(Hook)]
    BY <2>1 DEF ActivityInv, ActivityTypes
  <2> QED
    BY <1>1, <1>3, <1>4, <2>2, <2>3, FilesMove
<1>9. CASE watch.at = "watching"
  <2> PICK all : all = Append(u, h)
    OBVIOUS
  <2>1. all \in Seq(Hook) /\ Len(all) = Len(u) + 1 /\ all[Len(u) + 1] = h
        /\ \A i \in 1 .. Len(u) : all[i] = u[i]
    BY <1>6, AppendProperties
  <2>2. /\ watch' \in [at : {"stopped", "catching up", "watching"}, unread : Seq(Hook)]
        /\ watch'.unread = all
    BY <1>9, <2>1 DEF WriteHook, ActivityInv, ActivityTypes
  <2>3. ASSUME NEW i \in 1 .. Len(all)
        PROVE  all[i] \in Written' /\ (i # Len(all) => i \in 1 .. Len(u) /\ all[i] = u[i] /\ u[i] \in Written)
    <3>1. CASE i = Len(u) + 1
      BY <1>5, <2>1, <3>1
    <3>2. CASE i \in 1 .. Len(u)
      BY <1>5, <2>1, <3>2 DEF ActivityInv, FilesThere
    <3> QED
      BY <1>6, <2>1, <3>1, <3>2
  <2>4. ASSUME NEW i \in 1 .. Len(all), NEW j \in 1 .. Len(all), i < j
        PROVE  all[i] # all[j]
    <3>1. i # Len(all)
      BY <1>6, <2>1, <2>4
    <3>2. CASE j = Len(all)
      BY <1>5, <2>1, <2>3, <3>1, <3>2
    <3>3. CASE j # Len(all)
      BY <2>3, <2>4, <3>1, <3>3 DEF ActivityInv, FilesThere
    <3> QED
      BY <3>2, <3>3
  <2>5. FilesThere'
    BY <1>7, <2>2, <2>3, <2>4 DEF FilesThere
  <2> QED
    BY <1>1, <1>3, <1>4, <2>2, <2>5, FilesMove
<1> QED
  BY <1>8, <1>9

\* found by a relay that starts,
LEMMA ListFilesStep ==
  ASSUME ActivityInv, ListFiles
  PROVE  ActivityInv'
<1>1. PICK names \in [1 .. Cardinality(Written) -> Written] :
        /\ \A i, j \in DOMAIN names : i < j => names[i] # names[j] /\ Rank(names[i]) <= Rank(names[j])
        /\ watch' = [at |-> "catching up", unread |-> names]
        /\ UNCHANGED <<hookFile, entry, stream, seconds>>
  BY DEF ListFiles
<1> PICK n : n = Cardinality(Written)
  OBVIOUS
<1>2. n \in Nat
  BY FS_CardinalityType DEF ActivityInv, FilesThere
<1>3. names \in Seq(Written) /\ Len(names) = n
  BY <1>2, SeqDef, LenProperties
<1>4. names \in Seq(Hook)
  <2>1. names \in [1 .. n -> Hook]
    BY DEF Written
  <2> QED
    BY <1>2, <2>1, SeqDef
<1>5. watch'.unread = names /\ watch' \in [at : {"stopped", "catching up", "watching"}, unread : Seq(Hook)]
  BY <1>1, <1>4
<1>6. Written' = Written
  BY <1>1 DEF Written
<1>7. FilesThere'
  <2>1. \A i \in 1 .. n : names[i] \in Written
    OBVIOUS
  <2>2. \A i, j \in 1 .. n : i < j => names[i] # names[j]
    BY <1>1
  <2> QED
    BY <1>3, <1>5, <1>6, <2>1, <2>2 DEF ActivityInv, FilesThere
<1> QED
  BY <1>1, <1>5, <1>7, FilesMove DEF ActivityInv, ActivityTypes, ActivityTypeOK

\* which then watches,
LEMMA StartWatchingStep ==
  ASSUME ActivityInv, StartWatching
  PROVE  ActivityInv'
<1>1. /\ watch' = [watch EXCEPT !.at = "watching"]
      /\ UNCHANGED <<hookFile, entry, stream, seconds>>
  BY DEF StartWatching
<1>2. /\ watch' \in [at : {"stopped", "catching up", "watching"}, unread : Seq(Hook)]
      /\ watch'.unread = watch.unread
  BY <1>1 DEF ActivityInv, ActivityTypes
<1>3. FilesThere'
  BY <1>1, <1>2 DEF ActivityInv, FilesThere, Written
<1> QED
  BY <1>1, <1>2, <1>3, FilesMove DEF ActivityInv, ActivityTypes, ActivityTypeOK

\* and stops.
LEMMA StopIngestStep ==
  ASSUME ActivityInv, StopIngest
  PROVE  ActivityInv'
<1>1. /\ watch' = [at |-> "stopped", unread |-> <<>>]
      /\ entry' = [s \in Session |-> NoEntry]
      /\ stream' = [b \in Stream |-> NoStream]
      /\ UNCHANGED <<hookFile, seconds>>
  BY DEF StopIngest
<1>2. /\ watch' \in [at : {"stopped", "catching up", "watching"}, unread : Seq(Hook)]
      /\ watch'.unread = <<>>
  BY <1>1
<1>3. FilesThere'
  BY <1>1, <1>2 DEF ActivityInv, FilesThere, Written
<1>4. ActivityTypes'
  BY <1>1, <1>2 DEF ActivityInv, ActivityTypes
<1>5. ActivityTypeOK'
  <2>1. \A s \in Session : Shown(entry'[s]).state \in {"none", "active", "thinking", "waiting", "idle"}
    BY <1>1, ShownStates
  <2>2. \A b \in Stream : stream'[b] = NoStream
    BY <1>1
  <2>3. watch'.at \in {"stopped", "catching up", "watching"} /\ watch'.unread \in Seq(Hook)
    BY <1>2
  <2> QED
    BY <1>1, <2>1, <2>2, <2>3 DEF ActivityInv, ActivityTypeOK
<1>6. \A b \in Stream : UpToDate(b)'
  BY <1>1 DEF UpToDate
<1>7. \A s \in Session : entry'[s] # NoEntry => Fits(entry'[s])
  BY <1>1
<1> QED
  BY <1>3, <1>4, <1>5, <1>6, <1>7 DEF ActivityInv

\* Where only the subscription of one browser moves.
LEMMA StreamMoves ==
  ASSUME ActivityInv, NEW b \in Stream, NEW r \in {NoStream} \cup Subscription,
         stream' = [stream EXCEPT ![b] = r], UNCHANGED <<hookFile, watch, entry, seconds>>,
         r = NoStream \/ Len(r.channel) <= StreamSize, UpToDate(b)'
  PROVE  ActivityInv'
<1>1. \A c \in Stream : stream'[c] = IF c = b THEN r ELSE stream[c]
  BY DEF ActivityInv, ActivityTypes
<1>2. ActivityTypes'
  BY DEF ActivityInv, ActivityTypes
<1>3. ActivityTypeOK'
  BY <1>1 DEF ActivityInv, ActivityTypeOK
<1>4. \A c \in Stream : UpToDate(c)'
  BY <1>1 DEF ActivityInv, UpToDate, Sessions
<1>5. FilesThere'
  BY DEF ActivityInv, FilesThere, Written
<1> QED
  BY <1>2, <1>3, <1>4, <1>5 DEF ActivityInv

\* A browser subscribes,
LEMMA SubscribeStep ==
  ASSUME ActivityInv, NEW b \in Stream, SubscribeActivity(b)
  PROVE  ActivityInv'
<1> PICK blank : blank = [s \in Session |-> NoEntry]
  OBVIOUS
<1> PICK r : r = [at |-> "subscribed", channel |-> <<>>, missed |-> FALSE, sent |-> blank]
  OBVIOUS
<1>1. stream' = [stream EXCEPT ![b] = r] /\ UNCHANGED <<hookFile, watch, entry, seconds>>
  BY DEF SubscribeActivity
<1>2. blank \in Snap
  BY DEF Snap
<1>3. r \in Subscription /\ r.channel = <<>> /\ r.at = "subscribed"
  BY <1>2 DEF Subscription
<1>4. Len(r.channel) <= StreamSize
  BY <1>3, ActivityAssumption
<1>5. stream'[b] = r
  BY <1>1 DEF ActivityInv, ActivityTypes
<1>6. UpToDate(b)'
  BY <1>3, <1>5 DEF UpToDate
<1> QED
  BY <1>1, <1>3, <1>4, <1>6, StreamMoves

\* What there is to show.
LEMMA SessionsType ==
  ASSUME ActivityInv
  PROVE  Sessions \in Snap
BY SnapshotTypes DEF Sessions, ActivityInv, ActivityTypes

\* is sent what there is,
LEMMA SendInitialStep ==
  ASSUME ActivityInv, NEW b \in Stream, SendInitial(b)
  PROVE  ActivityInv'
<1> PICK old : old = stream[b]
  OBVIOUS
<1> PICK r : r = [old EXCEPT !.at = "streaming", !.sent = Sessions]
  OBVIOUS
<1>1. /\ old.at = "subscribed" /\ stream' = [stream EXCEPT ![b] = r]
      /\ UNCHANGED <<hookFile, watch, entry, seconds>>
  BY DEF SendInitial
<1>2. old \in Subscription /\ old # NoStream
  <2>1. NoStream.at = "none"
    BY DEF NoStream
  <2> QED
    BY <1>1, <2>1, StreamStates DEF ActivityInv
<1>3. /\ r \in Subscription /\ r.channel = old.channel /\ r.missed = old.missed
      /\ r.sent = Sessions
  BY <1>2, SessionsType DEF Subscription
<1>4. Len(r.channel) <= StreamSize
  BY <1>2, <1>3 DEF ActivityInv, ActivityTypeOK
<1>5. stream'[b] = r /\ Sessions' = Sessions
  BY <1>1 DEF ActivityInv, ActivityTypes, Sessions
<1>6. UpToDate(b)'
  BY <1>2, <1>3, <1>5 DEF ActivityInv, UpToDate
<1> QED
  BY <1>1, <1>3, <1>4, <1>6, StreamMoves

\* then each change,
LEMMA SendSnapshotStep ==
  ASSUME ActivityInv, NEW b \in Stream, SendSnapshot(b)
  PROVE  ActivityInv'
<1> PICK old : old = stream[b]
  OBVIOUS
<1> PICK c : c = old.channel
  OBVIOUS
<1> PICK r : r = [old EXCEPT !.sent = Head(c), !.channel = Tail(c)]
  OBVIOUS
<1>1. /\ old.at = "streaming" /\ c # <<>>
      /\ UNCHANGED <<hookFile, watch, entry, seconds>>
  BY DEF SendSnapshot
<1>2. old \in Subscription /\ old # NoStream
  <2>1. NoStream.at = "none"
    BY DEF NoStream
  <2> QED
    BY <1>1, <2>1, StreamStates DEF ActivityInv
<1>3. c \in Seq(Snap) /\ Len(c) \in Nat /\ Len(c) >= 1
  <2>1. c \in Seq(Snap)
    BY <1>2 DEF Subscription
  <2> QED
    BY <1>1, <2>1, EmptySeq, LenProperties
<1>4. /\ Head(c) \in Snap /\ Tail(c) \in Seq(Snap) /\ Head(c) = c[1]
      /\ Len(Tail(c)) = Len(c) - 1 /\ \A i \in 1 .. Len(Tail(c)) : Tail(c)[i] = c[i + 1]
  BY <1>1, <1>3, HeadTailProperties
<1>5. stream' = [stream EXCEPT ![b] = r]
  BY <1>2 DEF SendSnapshot, Subscription
<1>6. r \in Subscription /\ r.channel = Tail(c) /\ r.sent = Head(c) /\ r.missed = old.missed
  BY <1>2, <1>4 DEF Subscription
<1>7. Len(r.channel) <= StreamSize
  <2>1. Len(c) <= StreamSize
    BY <1>2 DEF ActivityInv, ActivityTypeOK
  <2> QED
    BY <1>3, <1>4, <1>6, <2>1, ActivityAssumption
<1>8. stream'[b] = r /\ Sessions' = Sessions
  BY <1>1, <1>5 DEF ActivityInv, ActivityTypes, Sessions
<1>9. ASSUME ~old.missed
      PROVE  c[Len(c)] = Sessions
  BY <1>1, <1>2, <1>9 DEF ActivityInv, UpToDate
<1>10. UpToDate(b)'
  <2>1. ASSUME ~old.missed, Tail(c) # <<>>
        PROVE  Tail(c)[Len(Tail(c))] = Sessions
    <3>1. Len(Tail(c)) \in 1 .. Len(Tail(c))
      BY <1>4, <2>1, EmptySeq, LenProperties
    <3>2. Tail(c)[Len(Tail(c))] = c[Len(c)]
      BY <1>3, <1>4, <3>1
    <3> QED
      BY <1>9, <2>1, <3>2
  <2>2. ASSUME ~old.missed, Tail(c) = <<>>
        PROVE  Head(c) = Sessions
    <3>0. Len(Tail(c)) = 0
      BY <2>2
    <3>1. Len(c) = 1
      BY <1>3, <1>4, <3>0
    <3> QED
      BY <1>4, <1>9, <2>2, <3>1
  <2> QED
    BY <1>6, <1>8, <2>1, <2>2 DEF UpToDate
<1> QED
  BY <1>1, <1>5, <1>6, <1>7, <1>10, StreamMoves

\* and leaves.
LEMMA UnsubscribeStep ==
  ASSUME ActivityInv, NEW b \in Stream, UnsubscribeActivity(b)
  PROVE  ActivityInv'
<1>1. stream' = [stream EXCEPT ![b] = NoStream] /\ UNCHANGED <<hookFile, watch, entry, seconds>>
  BY DEF UnsubscribeActivity
<1>2. stream'[b] = NoStream
  BY <1>1 DEF ActivityInv, ActivityTypes
<1>3. UpToDate(b)'
  BY <1>2 DEF UpToDate
<1> QED
  BY <1>1, <1>3, StreamMoves

\* Time passes.
LEMMA SecondPassesStep ==
  ASSUME ActivityInv, SecondPasses
  PROVE  ActivityInv'
<1>1. seconds' \in 0 .. MaxSeconds
  <2>1. seconds \in 0 .. MaxSeconds
    BY DEF ActivityInv, ActivityTypes
  <2> QED
    BY <2>1, ActivityAssumption DEF SecondPasses
<1>2. UNCHANGED <<hookFile, watch, entry, stream>>
  BY DEF SecondPasses
<1>3. ActivityTypes' /\ ActivityTypeOK'
  BY <1>1, <1>2 DEF ActivityInv, ActivityTypes, ActivityTypeOK
<1>4. FilesThere'
  BY <1>2 DEF ActivityInv, FilesThere, Written
<1>5. \A b \in Stream : UpToDate(b)'
  BY <1>2 DEF ActivityInv, UpToDate, Sessions
<1> QED
  BY <1>2, <1>3, <1>4, <1>5 DEF ActivityInv

\* The first states satisfy it,
LEMMA ActivityInitially ==
  ASSUME ActivityInit
  PROVE  ActivityInv
<1>1. /\ hookFile = [h \in Hook |-> NoFile]
      /\ watch = [at |-> "stopped", unread |-> <<>>]
      /\ entry = [s \in Session |-> NoEntry]
      /\ stream = [b \in Stream |-> NoStream]
      /\ seconds = 0
  BY DEF ActivityInit
<1>2. watch \in [at : {"stopped", "catching up", "watching"}, unread : Seq(Hook)] /\ watch.unread = <<>>
  BY <1>1
<1>3. ActivityTypes
  BY <1>1, <1>2, ActivityAssumption DEF ActivityTypes
<1>4. ActivityTypeOK
  <2>1. \A s \in Session : Shown(entry[s]).state \in {"none", "active", "thinking", "waiting", "idle"}
    BY <1>1, ShownStates
  <2>2. watch.at \in {"stopped", "catching up", "watching"} /\ watch.unread \in Seq(Hook)
    BY <1>2
  <2>3. seconds \in 0 .. MaxSeconds
    BY <1>3 DEF ActivityTypes
  <2> QED
    BY <1>1, <2>1, <2>2, <2>3 DEF ActivityTypeOK
<1>5. FilesThere
  <2>1. Written = {}
    BY <1>1 DEF Written, NoFile
  <2>2. IsFiniteSet(Written)
    BY <2>1, FS_EmptySet
  <2>3. Len(watch.unread) = 0
    <3>1. watch.unread = <<>>
      BY <1>2
    <3> QED
      BY <3>1
  <2> QED
    BY <2>2, <2>3 DEF FilesThere
<1>6. \A b \in Stream : UpToDate(b)
  BY <1>1 DEF UpToDate
<1> QED
  BY <1>1, <1>3, <1>4, <1>5, <1>6 DEF ActivityInv

\* and every step keeps it.
LEMMA ActivityInductive ==
  ASSUME ActivityInv, [ActivityNext]_activityVars
  PROVE  ActivityInv'
<1>1. CASE UNCHANGED activityVars
  <2>1. UNCHANGED <<entry, stream, seconds, watch, hookFile>>
    BY <1>1 DEF activityVars
  <2>2. FilesThere'
    BY <2>1 DEF ActivityInv, FilesThere, Written
  <2> QED
    BY <2>1, <2>2, FilesMove DEF ActivityInv, ActivityTypes, ActivityTypeOK
<1>2. CASE Tick
  BY <1>2, TickStep
<1>3. CASE \E h \in Hook, s \in Session : WriteHook(h, s)
  BY <1>3, WriteHookStep
<1>4. CASE ListFiles \/ ProcessFile \/ StartWatching \/ StopIngest
  BY <1>4, ListFilesStep, ProcessFileStep, StartWatchingStep, StopIngestStep
<1>5. CASE \E b \in Stream : SubscribeActivity(b) \/ SendInitial(b) \/ SendSnapshot(b) \/ UnsubscribeActivity(b)
  BY <1>5, SubscribeStep, SendInitialStep, SendSnapshotStep, UnsubscribeStep
<1>6. CASE SecondPasses
  BY <1>6, SecondPassesStep
<1> QED
  BY <1>1, <1>2, <1>3, <1>4, <1>5, <1>6 DEF ActivityNext

\* The shape, and what browsers show.
LEMMA ActivityImplied ==
  ASSUME ActivityInv
  PROVE  ActivityTypeOK /\ ActivityFollows
<1>1. ASSUME NEW b \in Stream, stream[b].at = "streaming", stream[b].channel = <<>>, ~stream[b].missed
      PROVE  stream[b].sent = Sessions
  <2>1. stream[b] # NoStream
    BY <1>1 DEF NoStream
  <2> QED
    BY <1>1, <2>1 DEF ActivityInv, UpToDate
<1>2. \A s \in Session : entry[s] # NoEntry =>
          /\ entry[s].type = "stop" => entry[s].state \in {"waiting", "idle"}
          /\ entry[s].type = "tool_start" => entry[s].state \in {"active", "idle"}
  BY DEF ActivityInv, Fits
<1>3. ActivityFollows
  BY <1>1, <1>2 DEF ActivityFollows
<1> QED
  BY <1>3 DEF ActivityInv

------------------------------------------------------------------------------
(* All five side by side. *)

BackgroundInv ==
    AutomationInv /\ UpkeepInv /\ VaultInv /\ TerminalInv /\ EndKnown /\ ActivityInv

\* A step of one component is no step of another.
LEMMA OneMoves ==
  ASSUME [Next]_vars
  PROVE  /\ [AutomationNext]_automationVars
         /\ [UpkeepNext]_upkeepVars
         /\ [VaultNext]_vaultVars
         /\ [TerminalNext]_terminalVars
         /\ [ActivityNext]_activityVars
<1>1. CASE UNCHANGED vars
  BY <1>1 DEF vars
<1>2. CASE Next
  BY <1>2 DEF Next
<1> QED
  BY <1>1, <1>2

LEMMA BackgroundInitially == Init => BackgroundInv
<1>1. TerminalInit => EndKnown
  BY DEF TerminalInit, EndKnown
<1> QED
  BY <1>1, AutomationInitially, UpkeepInitially, VaultInitially, TerminalInitially, ActivityInitially
  DEF Init, BackgroundInv

LEMMA BackgroundInductive ==
  ASSUME BackgroundInv, [Next]_vars
  PROVE  BackgroundInv'
<1>1. AutomationInv' /\ UpkeepInv' /\ VaultInv'
  BY OneMoves, AutomationInductive, UpkeepInductive, VaultInductive DEF BackgroundInv
<1>2. TerminalInv' /\ EndKnown' /\ ActivityInv'
  BY OneMoves, TerminalInductive, EndKept, ActivityInductive DEF BackgroundInv
<1> QED
  BY <1>1, <1>2 DEF BackgroundInv

\* Triggers, polls, workflows, late tasks, usage records, locks, documents, terminals
\* and their viewers, sessions and their streams keep their shape, whatever their
\* numbers and limits.
THEOREM BackgroundTypeCorrect == Spec => []BackgroundTypeOK
<1>1. BackgroundInv => AutomationTypeOK /\ UpkeepTypeOK /\ VaultTypeOK
  BY AutomationTyped DEF BackgroundInv, UpkeepInv, VaultInv
<1>2. BackgroundInv => TerminalTypeOK /\ ActivityTypeOK
  BY TerminalImplied, ActivityImplied DEF BackgroundInv
<1> QED
  BY <1>1, <1>2, BackgroundInitially, BackgroundInductive, PTL DEF Spec, BackgroundTypeOK

\* A viewer of a terminal sees its output in order, once but for the last chunk of the
\* replay, and without a gap but for what found its channel full (pty.go:139) and, once
\* the session is over, the last chunks (ws_terminal.go:116); a browser
\* that has taken all it was told, and was not passed over, shows the sessions as the
\* detector has them, and what a session shows fits its last event (detector.go:67).
THEOREM WatchersAreShown == Spec => []WatchersFollow
<1>1. BackgroundInv => WatchersFollow
  BY TerminalImplied, ActivityImplied DEF BackgroundInv, WatchersFollow
<1> QED
  BY <1>1, BackgroundInitially, BackgroundInductive, PTL DEF Spec
==============================================================================
