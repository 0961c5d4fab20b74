---------------------------- MODULE SocietyProofs ----------------------------
(*****************************************************************************)
(* Proofs about Quotas, Memories, Directory, Conversations and Chat, each for *)
(* any values of its constants, and about the specification that runs them   *)
(* side by side.                                                             *)
(*****************************************************************************)
EXTENDS MCSociety, SequenceTheorems, FiniteSetTheorems, WellFoundedInduction,
        TLAPS

------------------------------------------------------------------------------
(* Quotas. *)

\* What is counted against is never above the largest limit of the hour, so a call
\* that passes finds room below it.
Caps ==
    \A k \in Kind : cap[k] # 0 =>
        /\ 0 < limit[k] /\ limit[k] <= cap[k]
        /\ \A c \in Call : op[c].pc = "count" /\ op[c].kind = k => op[c].limit <= cap[k]

\* What is inductive: the overshoot alone is not, a call may have counted before.
QuotaInv == QuotaTypeOK /\ Caps /\ QuotaOvershoot

\* A call at rest is at none of the steps of a call.
LEMMA LimitedCalls ==
  ASSUME QuotaTypeOK, NEW c \in Call
  PROVE  /\ op[c] = NoCall \/ op[c] \in Limited
         /\ op[c] = NoCall => op[c].pc = "idle"
         /\ op[c] \in Limited => op[c].pc \in {"count", "act", "waved"} /\ op[c].kind \in Kind
         /\ op[c].pc = "count" => op[c].limit \in 1 .. MaxLimit
  BY DEF QuotaTypeOK, NoCall, Limited

\* No more calls have passed than are open.
LEMMA PassedBound ==
  ASSUME NEW k \in Kind
  PROVE  /\ IsFiniteSet(Passed(k))
         /\ Cardinality(Passed(k)) \in Nat
         /\ Cardinality(Call) \in Nat
         /\ Cardinality(Passed(k)) <= Cardinality(Call)
<1>1. Passed(k) \subseteq Call
  BY DEF Passed
<1> QED
  BY <1>1, QuotaAssumption, FS_Subset, FS_CardinalityType

\* The larger of two limits, of which 0 is none.
LEMMA LargerType ==
  ASSUME NEW m \in 0 .. MaxLimit, NEW n \in 0 .. MaxLimit
  PROVE  /\ Larger(m, n) \in 0 .. MaxLimit
         /\ Larger(m, n) # 0 => m # 0 /\ n # 0 /\ m <= Larger(m, n) /\ n <= Larger(m, n)
  BY QuotaAssumption DEF Larger

\* The history never leaves the limits.
LEMMA CapType ==
  ASSUME QuotaTypeOK, limit' \in [Kind -> 0 .. MaxLimit],
         cap' = [k \in Kind |-> IF Quiet(k)' THEN limit'[k] ELSE Larger(cap[k], limit'[k])]
  PROVE  cap' \in [Kind -> 0 .. MaxLimit]
<1>1. ASSUME NEW k \in Kind
      PROVE  cap'[k] \in 0 .. MaxLimit
  <2>1. cap[k] \in 0 .. MaxLimit /\ limit'[k] \in 0 .. MaxLimit
    BY DEF QuotaTypeOK
  <2> QED
    BY <2>1, LargerType
<1> QED
  BY <1>1

\* Each step keeps the shape of limits, counts and calls.
LEMMA QuotaStepType ==
  ASSUME QuotaTypeOK, QuotaStep
  PROVE  /\ limit' \in [Kind -> 0 .. MaxLimit]
         /\ checked' \in [Kind -> 0 .. MaxRows]
         /\ others' \in [Kind -> 0 .. MaxRows]
         /\ op' \in [Call -> {NoCall} \cup Limited]
<1> USE QuotaAssumption DEF QuotaTypeOK
<1>1. ASSUME NEW limits \in [Kind -> 0 .. MaxLimit], SetAgentQuota(limits)
      PROVE  /\ limit' \in [Kind -> 0 .. MaxLimit]
             /\ UNCHANGED <<checked, others, op>>
  BY <1>1 DEF SetAgentQuota
<1>2. CASE DeleteQuota
  BY <1>1, <1>2 DEF DeleteQuota, SetAgentQuota
<1>3. ASSUME NEW c \in Call, NEW k \in Kind, ReadLimit(c, k)
      PROVE  /\ op' \in [Call -> {NoCall} \cup Limited]
             /\ UNCHANGED <<limit, checked, others>>
  <2>1. limit[k] = 0 \/ limit[k] \in 1 .. MaxLimit
    OBVIOUS
  <2>2. /\ [pc |-> "act", kind |-> k] \in Limited
        /\ limit[k] # 0 => [pc |-> "count", kind |-> k, limit |-> limit[k]] \in Limited
    BY <2>1 DEF Limited
  <2> QED
    BY <1>3, <2>2 DEF ReadLimit, Becomes
<1>4. ASSUME NEW c \in Call, CountUsed(c) \/ CountFails(c)
      PROVE  /\ op' \in [Call -> {NoCall} \cup Limited]
             /\ UNCHANGED <<limit, checked, others>>
  <2>1. op[c].kind \in Kind
    BY <1>4, LimitedCalls DEF CountUsed, CountFails
  <2>2. /\ [pc |-> "act", kind |-> op[c].kind] \in Limited
        /\ [pc |-> "waved", kind |-> op[c].kind] \in Limited
    BY <2>1 DEF Limited
  <2> QED
    BY <1>4, <2>2 DEF CountUsed, CountFails, Becomes
<1>5. ASSUME NEW c \in Call, InsertCounted(c)
      PROVE  /\ checked' \in [Kind -> 0 .. MaxRows]
             /\ others' \in [Kind -> 0 .. MaxRows]
             /\ op' \in [Call -> {NoCall} \cup Limited]
             /\ UNCHANGED limit
  <2>1. op[c].kind \in Kind
    BY <1>5, LimitedCalls DEF InsertCounted
  <2>2. /\ checked[op[c].kind] + 1 \in 0 .. MaxRows
        /\ others[op[c].kind] + 1 \in 0 .. MaxRows
    BY <1>5, <2>1 DEF InsertCounted, Used
  <2> QED
    BY <1>5, <2>2 DEF InsertCounted, Becomes
<1>6. ASSUME NEW c \in Call, InsertsNothing(c)
      PROVE  /\ op' \in [Call -> {NoCall} \cup Limited]
             /\ UNCHANGED <<limit, checked, others>>
  BY <1>6 DEF InsertsNothing, Becomes
<1>7. ASSUME NEW k \in Kind, InsertUnchecked(k)
      PROVE  /\ others' \in [Kind -> 0 .. MaxRows]
             /\ UNCHANGED <<limit, checked, op>>
  <2>1. others[k] + 1 \in 0 .. MaxRows
    BY <1>7 DEF InsertUnchecked, Used
  <2> QED
    BY <1>7, <2>1 DEF InsertUnchecked
<1>8. ASSUME NEW k \in Kind, HourPasses(k)
      PROVE  /\ checked' \in [Kind -> 0 .. MaxRows]
             /\ others' \in [Kind -> 0 .. MaxRows]
             /\ UNCHANGED <<limit, op>>
  <2>1. /\ checked[k] > 0 => checked[k] - 1 \in 0 .. MaxRows
        /\ others[k] > 0 => others[k] - 1 \in 0 .. MaxRows
    OBVIOUS
  <2> QED
    BY <1>8, <2>1 DEF HourPasses
<1>9. CASE QuotasStop
  BY <1>9 DEF QuotasStop
<1>10. ASSUME NEW c \in Call, NEW k \in Kind, ReadLimitFails(c, k)
       PROVE  /\ op' \in [Call -> {NoCall} \cup Limited]
              /\ UNCHANGED <<limit, checked, others>>
  <2>1. [pc |-> "waved", kind |-> k] \in Limited
    BY DEF Limited
  <2> QED
    BY <1>10, <2>1 DEF ReadLimitFails, Becomes
<1> QED
  BY <1>1, <1>2, <1>3, <1>4, <1>5, <1>6, <1>7, <1>8, <1>9, <1>10 DEF QuotaStep

\* A call that counts does so against the limit it read, in this step or before.
LEMMA CountingStep ==
  ASSUME QuotaTypeOK, QuotaStep, NEW d \in Call, op'[d].pc = "count"
  PROVE  op'[d] = op[d] \/ op'[d].limit = limit[op'[d].kind]
<1> USE DEF QuotaTypeOK
<1>1. ASSUME op'[d] = NoCall
      PROVE  FALSE
  BY <1>1 DEF NoCall
<1>2. CASE UNCHANGED op
  BY <1>2
<1>3. ASSUME NEW c \in Call, NEW k \in Kind, ReadLimit(c, k)
      PROVE  op'[d] = op[d] \/ op'[d].limit = limit[op'[d].kind]
  BY <1>3 DEF ReadLimit, Becomes
<1>4. ASSUME NEW c \in Call,
             CountUsed(c) \/ CountFails(c) \/ InsertCounted(c) \/ InsertsNothing(c)
      PROVE  op'[d] = op[d]
  BY <1>1, <1>4 DEF CountUsed, CountFails, InsertCounted, InsertsNothing, Becomes
<1>5. CASE QuotasStop
  BY <1>1, <1>5 DEF QuotasStop
<1>6. ASSUME NEW c \in Call, NEW k \in Kind, ReadLimitFails(c, k)
      PROVE  op'[d] = op[d]
  BY <1>6 DEF ReadLimitFails, Becomes
<1> QED
  BY <1>2, <1>3, <1>4, <1>5, <1>6
  DEF QuotaStep, SetAgentQuota, DeleteQuota, InsertUnchecked, HourPasses

\* How the history moves: it begins anew when the hour has emptied, or it is no less
\* than it was and than the limit.
LEMMA CapStep ==
  ASSUME QuotaTypeOK, QuotaNext, NEW k \in Kind, cap'[k] # 0
  PROVE  \/ Quiet(k)' /\ cap'[k] = limit'[k]
         \/ cap[k] # 0 /\ limit'[k] # 0 /\ cap[k] <= cap'[k] /\ limit'[k] <= cap'[k]
<1>1. cap[k] \in 0 .. MaxLimit /\ limit'[k] \in 0 .. MaxLimit
  BY QuotaStepType DEF QuotaTypeOK, QuotaNext
<1>2. cap'[k] = IF Quiet(k)' THEN limit'[k] ELSE Larger(cap[k], limit'[k])
  BY DEF QuotaNext
<1> QED
  BY <1>1, <1>2, LargerType

\* Caps hold on.
LEMMA CapsStep ==
  ASSUME QuotaInv, QuotaNext
  PROVE  Caps'
<1> USE DEF QuotaInv
<1>1. /\ limit \in [Kind -> 0 .. MaxLimit] /\ limit' \in [Kind -> 0 .. MaxLimit]
      /\ cap \in [Kind -> 0 .. MaxLimit] /\ cap' \in [Kind -> 0 .. MaxLimit]
      /\ MaxLimit \in Nat
  BY QuotaStepType, CapType, QuotaAssumption DEF QuotaTypeOK, QuotaNext
<1> SUFFICES ASSUME NEW k \in Kind, cap'[k] # 0
             PROVE  /\ 0 < limit'[k] /\ limit'[k] <= cap'[k]
                    /\ \A c \in Call : op'[c].pc = "count" /\ op'[c].kind = k
                                          => op'[c].limit <= cap'[k]
  BY DEF Caps
<1>2. CASE Quiet(k)' /\ cap'[k] = limit'[k]
  <2>1. ASSUME NEW c \in Call, op'[c].pc = "count"
        PROVE  op'[c].kind # k
    BY <1>2, <2>1 DEF Quiet, NoCall
  <2> QED
    BY <1>1, <1>2, <2>1
<1>3. CASE cap[k] # 0 /\ limit'[k] # 0 /\ cap[k] <= cap'[k] /\ limit'[k] <= cap'[k]
  <2>1. limit[k] <= cap[k]
    BY <1>3 DEF Caps
  <2>2. ASSUME NEW c \in Call, op'[c].pc = "count", op'[c].kind = k
        PROVE  op'[c].limit <= cap'[k]
    <3>1. CASE op'[c] = op[c]
      <4>1. op[c].limit \in 1 .. MaxLimit
        BY <2>2, <3>1, LimitedCalls
      <4>2. op[c].limit <= cap[k]
        BY <1>3, <2>2, <3>1 DEF Caps
      <4> QED
        BY <1>1, <1>3, <3>1, <4>1, <4>2
    <3>2. CASE op'[c].limit = limit[k]
      BY <1>1, <1>3, <2>1, <3>2
    <3> QED
      BY <2>2, <3>1, <3>2, CountingStep DEF QuotaNext
  <2> QED
    BY <1>1, <1>3, <2>2
<1> QED
  BY <1>2, <1>3, CapStep

\* A call is let through only when fewer rows than the cap were there; otherwise no
\* more are through than before, inserting moves one from the calls to the rows.
LEMMA OvershootStep ==
  ASSUME QuotaInv, QuotaNext, NEW k \in Kind, cap[k] # 0
  PROVE  checked'[k] + Cardinality(Passed(k)') <= cap[k] - 1 + Cardinality(Call)
<1> DEFINE Bounded == checked'[k] + Cardinality(Passed(k)') <= cap[k] - 1 + Cardinality(Call)
<1>1. /\ QuotaTypeOK /\ QuotaStep
      /\ checked[k] + Cardinality(Passed(k)) <= cap[k] - 1 + Cardinality(Call)
  BY DEF QuotaInv, QuotaOvershoot, QuotaNext
<1>2. /\ checked[k] \in Nat /\ others[k] \in Nat /\ checked'[k] \in Nat
      /\ cap[k] \in 0 .. MaxLimit /\ MaxLimit \in Nat
      /\ Cardinality(Passed(k)) \in Nat /\ IsFiniteSet(Passed(k))
      /\ Cardinality(Call) \in Nat
  BY <1>1, QuotaStepType, PassedBound, QuotaAssumption DEF QuotaTypeOK
<1>3. Cardinality(Passed(k)') \in Nat /\ Cardinality(Passed(k)') <= Cardinality(Call)
  <2>1. Passed(k)' \subseteq Call
    BY DEF Passed
  <2> QED
    BY <2>1, QuotaAssumption, FS_Subset, FS_CardinalityType
<1>4. ASSUME Passed(k)' \subseteq Passed(k), checked'[k] <= checked[k]
      PROVE  Bounded
  <2>1. Cardinality(Passed(k)') <= Cardinality(Passed(k))
    BY <1>2, <1>4, FS_Subset
  <2> QED
    BY <1>1, <1>2, <1>3, <1>4, <2>1
<1>5. ASSUME NEW c \in Call, NEW j \in Kind, ReadLimit(c, j)
      PROVE  Bounded
  <2>1. j = k => limit[j] # 0
    BY DEF QuotaInv, Caps
  <2>2. op'[c].pc = "act" => op'[c].kind # k
    BY <1>1, <1>5, <2>1 DEF ReadLimit, Becomes, QuotaTypeOK
  <2>3. \A d \in Call \ {c} : op'[d] = op[d]
    BY <1>1, <1>5 DEF ReadLimit, Becomes, QuotaTypeOK
  <2>4. Passed(k)' \subseteq Passed(k) /\ checked' = checked
    BY <1>5, <2>2, <2>3 DEF Passed, ReadLimit
  <2> QED
    BY <1>2, <1>4, <2>4
<1>6. ASSUME NEW c \in Call, CountUsed(c)
      PROVE  Bounded
  <2>1. checked' = checked /\ op[c].pc = "count"
    BY <1>6 DEF CountUsed
  <2>2. CASE op[c].kind = k /\ Used(k) < op[c].limit
    <3>1. op[c].limit \in 1 .. MaxLimit /\ op[c].limit <= cap[k]
      BY <1>1, <2>1, <2>2, LimitedCalls DEF QuotaInv, Caps
    <3> QED
      BY <1>2, <1>3, <2>1, <2>2, <3>1 DEF Used
  <2>3. CASE op[c].kind # k \/ ~(Used(k) < op[c].limit)
    <3>1. ~(op'[c].pc = "act" /\ op'[c].kind = k)
      BY <1>1, <1>6, <2>3 DEF CountUsed, Becomes, QuotaTypeOK, NoCall
    <3>2. \A d \in Call \ {c} : op'[d] = op[d]
      BY <1>1, <1>6 DEF CountUsed, Becomes, QuotaTypeOK
    <3>3. Passed(k)' \subseteq Passed(k)
      BY <3>1, <3>2 DEF Passed
    <3> QED
      BY <1>2, <1>4, <2>1, <3>3
  <2> QED
    BY <2>2, <2>3
<1>7. ASSUME NEW c \in Call, InsertCounted(c) \/ InsertsNothing(c)
      PROVE  Passed(k)' = Passed(k) \ {c}
  BY <1>1, <1>7 DEF InsertCounted, InsertsNothing, Becomes, Passed, QuotaTypeOK, NoCall
<1>8. ASSUME NEW c \in Call, InsertCounted(c)
      PROVE  Bounded
  <2>1. Passed(k)' = Passed(k) \ {c}
    BY <1>7, <1>8
  <2>2. CASE op[c].kind = k /\ op[c].pc = "act"
    <3>1. c \in Passed(k) /\ checked'[k] = checked[k] + 1
      BY <1>1, <1>8, <2>2 DEF InsertCounted, Passed, QuotaTypeOK
    <3>2. Cardinality(Passed(k)') = Cardinality(Passed(k)) - 1
      BY <1>2, <2>1, <3>1, FS_RemoveElement
    <3> QED
      BY <1>1, <1>2, <3>1, <3>2
  <2>3. CASE op[c].kind # k \/ op[c].pc # "act"
    <3>1. checked'[k] = checked[k]
      BY <1>1, <1>8, <2>3 DEF InsertCounted, QuotaTypeOK
    <3> QED
      BY <1>2, <1>4, <2>1, <3>1
  <2> QED
    BY <2>2, <2>3
<1>9. ASSUME NEW c \in Call, InsertsNothing(c)
      PROVE  Bounded
  <2>1. checked' = checked
    BY <1>9 DEF InsertsNothing
  <2> QED
    BY <1>2, <1>4, <1>7, <1>9, <2>1
<1>10. ASSUME NEW j \in Kind, HourPasses(j)
       PROVE  Bounded
  <2>1. op' = op /\ checked'[k] <= checked[k]
    BY <1>1, <1>2, <1>10 DEF HourPasses, QuotaTypeOK
  <2>2. Passed(k)' = Passed(k)
    BY <2>1 DEF Passed
  <2> QED
    BY <1>4, <2>1, <2>2
<1>11. ASSUME UNCHANGED <<checked, op>>
       PROVE  Bounded
  BY <1>1, <1>11 DEF Passed
<1>12. CASE QuotasStop
  <2>1. Passed(k)' = {} /\ checked' = checked
    BY <1>12 DEF QuotasStop, Passed, NoCall
  <2> QED
    BY <1>2, <1>4, <2>1
<1>13. ASSUME NEW c \in Call, CountFails(c) \/ \E j \in Kind : ReadLimitFails(c, j)
       PROVE  Bounded
  <2>1. checked' = checked /\ op'[c].pc = "waved" /\ \A d \in Call \ {c} : op'[d] = op[d]
    BY <1>1, <1>13 DEF CountFails, ReadLimitFails, Becomes, QuotaTypeOK
  <2>2. Passed(k)' \subseteq Passed(k)
    BY <2>1 DEF Passed
  <2> QED
    BY <1>2, <1>4, <2>1, <2>2
<1> QED
  BY <1>1, <1>5, <1>6, <1>8, <1>9, <1>10, <1>11, <1>12, <1>13
  DEF QuotaStep, SetAgentQuota, DeleteQuota, InsertUnchecked

\* The first states satisfy it,
LEMMA QuotaInitially ==
  ASSUME QuotaInit
  PROVE  QuotaInv
<1>1. QuotaTypeOK
  BY QuotaAssumption DEF QuotaInit, QuotaTypeOK
<1> QED
  BY <1>1 DEF QuotaInit, QuotaInv, Caps, QuotaOvershoot

\* and every step keeps it.
LEMMA QuotaInductive ==
  ASSUME QuotaInv, [QuotaNext]_quotaVars
  PROVE  QuotaInv'
<1>1. CASE UNCHANGED quotaVars
  BY <1>1 DEF quotaVars, QuotaInv, QuotaTypeOK, Caps, QuotaOvershoot, Passed
<1>2. CASE QuotaNext
  <2>1. QuotaTypeOK'
    BY <1>2, QuotaStepType, CapType DEF QuotaInv, QuotaNext, QuotaTypeOK
  <2>2. Caps'
    BY <1>2, CapsStep
  <2>3. ASSUME NEW k \in Kind, cap'[k] # 0
        PROVE  checked'[k] + Cardinality(Passed(k)') <= cap'[k] - 1 + Cardinality(Call)
    <3>1. /\ checked'[k] \in Nat /\ cap'[k] \in 1 .. MaxLimit /\ MaxLimit \in Nat
          /\ cap[k] \in 0 .. MaxLimit
          /\ Cardinality(Call) \in Nat
      BY <2>1, <2>3, QuotaAssumption, FS_CardinalityType DEF QuotaTypeOK, QuotaInv
    <3>2. CASE Quiet(k)'
      <4>1. checked'[k] = 0 /\ Passed(k)' = {}
        BY <3>2 DEF Quiet, Passed, NoCall
      <4>2. Cardinality({}) = 0
        BY FS_EmptySet
      <4> QED
        BY <3>1, <4>1, <4>2
    <3>3. CASE cap[k] # 0 /\ cap[k] <= cap'[k]
      <4>1. Cardinality(Passed(k)') \in Nat
        <5>1. Passed(k)' \subseteq Call
          BY DEF Passed
        <5> QED
          BY <5>1, QuotaAssumption, FS_Subset, FS_CardinalityType
      <4> QED
        BY <1>2, <3>1, <3>3, <4>1, OvershootStep
    <3> QED
      BY <1>2, <2>3, <3>2, <3>3, CapStep DEF QuotaInv
  <2> QED
    BY <2>1, <2>2, <2>3 DEF QuotaInv, QuotaOvershoot
<1> QED
  BY <1>1, <1>2

\* Limits, counts and calls keep their shape.
THEOREM QuotaTypeCorrect == QuotaSpec => []QuotaTypeOK
<1>1. QuotaInv => QuotaTypeOK
  BY DEF QuotaInv
<1> QED
  BY <1>1, QuotaInitially, QuotaInductive, PTL DEF QuotaSpec

\* However many calls an agent has open at once, and however limits change, what the
\* checks let through in an hour exceeds the limit by less than the number of calls
\* (CheckQuota, quotas.go:72, and the inserts after it).
THEOREM OvershootBounded == QuotaSpec => []QuotaOvershoot
<1>1. QuotaInv => QuotaOvershoot
  BY DEF QuotaInv
<1> QED
  BY <1>1, QuotaInitially, QuotaInductive, PTL DEF QuotaSpec

------------------------------------------------------------------------------
(* Memories. *)

\* Versions never run ahead of the rows, so there is always a number left.
Numbered == \A i \in Rows : mem[i].version <= i

\* A call works on rows of the place it was asked about.
AimedAt(a) ==
    /\ call[a].pc \in {"archive", "insert"} => call[a].on \in 0 .. Len(mem)
    /\ call[a].pc = "archive" => /\ call[a].on \in Rows
                                 /\ PlaceOf(call[a].on) = Place(call[a].scope, a)
    /\ call[a].pc = "resolve" =>
         /\ call[a].top \in Rows
         /\ \A i \in call[a].found : i \in Rows /\ PlaceOf(i) = Place(call[a].scope, a)

\* The first half of KeyKept: no place is left empty but for a reason.
PlaceKept(p) ==
    (\E i \in Rows : PlaceOf(i) = p) /\ ActiveAt(p) = {}
        => p \in gone \/ \E a \in Caller : call[a].pc = "insert" /\ Place(call[a].scope, a) = p

\* What is inductive: that a key is found says nothing of the call between archiving the
\* old version and inserting the new one, nor of which rows a resolution found.
MemoryInv ==
    /\ MemoryTypeOK
    /\ Numbered
    /\ \A a \in Caller : AimedAt(a)
    /\ \A p \in Places : PlaceKept(p)

\* What a call at rest, setting or resolving remembers.
LEMMA MemoryCalls ==
  ASSUME MemoryTypeOK, NEW a \in Caller
  PROVE  /\ call[a] = Idle \/ call[a] \in Setting \/ call[a] \in Resolving
         /\ call[a].pc \in {"archive", "insert"} => call[a] \in Setting
         /\ call[a].pc = "resolve" => call[a] \in Resolving
         /\ call[a] = Idle => call[a].pc = "idle"
         /\ call[a].pc # "idle" => call[a].scope \in Scope /\ Place(call[a].scope, a) \in Places
  BY DEF MemoryTypeOK, Idle, Setting, Resolving, Places

\* Rows of memories, and the places they are looked up at.
LEMMA MemoryRows ==
  ASSUME MemoryTypeOK
  PROVE  /\ Len(mem) \in Nat /\ Rows = 1 .. Len(mem) /\ Rows \subseteq 1 .. MaxVersions
         /\ \A i \in Rows : mem[i] \in Row /\ PlaceOf(i) \in Places
         /\ DOMAIN mem = Rows /\ mem \in [Rows -> Row]
<1>1. mem \in Seq(Row) /\ Len(mem) <= MaxVersions
  BY DEF MemoryTypeOK
<1>2. Len(mem) \in Nat /\ Rows = 1 .. Len(mem) /\ DOMAIN mem = Rows /\ mem \in [Rows -> Row]
  BY <1>1, LenProperties DEF Rows
<1>3. Rows \subseteq 1 .. MaxVersions
  BY <1>1, <1>2, MemoryAssumption
<1>4. \A i \in Rows : mem[i] \in Row
  BY <1>2
<1>5. \A i \in Rows : mem[i].scope \in Scope /\ mem[i].agent \in Caller
  BY <1>4 DEF Row
<1>6. \A i \in Rows : PlaceOf(i) \in Places
  BY <1>5 DEF PlaceOf, Places
<1> QED
  BY <1>2, <1>3, <1>4, <1>6

\* Rows that are only edited are as many as before.
LEMMA RowsSequence ==
  ASSUME MemoryTypeOK, NEW f \in [Rows -> Row]
  PROVE  f \in Seq(Row) /\ Len(f) = Len(mem)
<1>1. f \in [1 .. Len(mem) -> Row] /\ Len(mem) \in Nat
  BY MemoryRows
<1>2. f \in Seq(Row)
  BY <1>1, SeqDef
<1> QED
  BY <1>1, <1>2, LenProperties

\* A row marked archived, or cleared of its flag, is otherwise what it was.
LEMMA Marked ==
  ASSUME NEW r \in Row
  PROVE  /\ [r EXCEPT !.archived = TRUE] \in Row
         /\ [r EXCEPT !.archived = TRUE].archived
         /\ [r EXCEPT !.conflict = FALSE] \in Row
         /\ [r EXCEPT !.conflict = FALSE].archived = r.archived
         /\ \A q \in {[r EXCEPT !.archived = TRUE], [r EXCEPT !.conflict = FALSE]} :
              /\ q.scope = r.scope /\ q.agent = r.agent
              /\ q.value = r.value /\ q.version = r.version
  BY DEF Row

\* Row q continues row r: no content changed, and archived for good.
Prolongs(q, r) ==
    /\ q \in Row
    /\ q.scope = r.scope /\ q.agent = r.agent /\ q.value = r.value /\ q.version = r.version
    /\ r.archived => q.archived

\* Archiving only archives.
LEMMA ArchiveType ==
  ASSUME MemoryTypeOK, NEW S
  PROVE  /\ Archive(S) \in Seq(Row)
         /\ Len(Archive(S)) = Len(mem)
         /\ Archive(S) \in [Rows -> Row]
         /\ \A i \in Rows : /\ Prolongs(Archive(S)[i], mem[i])
                            /\ Archive(S)[i].archived <=> i \in S \/ mem[i].archived
<1>1. \A i \in Rows : Archive(S)[i] = IF i \in S THEN [mem[i] EXCEPT !.archived = TRUE] ELSE mem[i]
  BY DEF Archive
<1>2. \A i \in Rows : /\ Prolongs(Archive(S)[i], mem[i])
                      /\ Archive(S)[i].archived <=> i \in S \/ mem[i].archived
  <2> SUFFICES ASSUME NEW i \in Rows
               PROVE  /\ Prolongs(Archive(S)[i], mem[i])
                      /\ Archive(S)[i].archived <=> i \in S \/ mem[i].archived
    OBVIOUS
  <2>1. mem[i] \in Row
    BY MemoryRows
  <2>2. CASE i \in S
    <3> DEFINE q == [mem[i] EXCEPT !.archived = TRUE]
    <3>1. Archive(S)[i] = q
      BY <1>1, <2>2
    <3>2. q \in Row /\ q.archived /\ Prolongs(q, mem[i])
      BY <2>1, Marked DEF Prolongs
    <3> HIDE DEF q
    <3> QED
      BY <2>2, <3>1, <3>2
  <2>3. CASE i \notin S
    <3>1. Archive(S)[i] = mem[i]
      BY <1>1, <2>3
    <3> QED
      BY <2>1, <2>3, <3>1 DEF Prolongs
  <2> QED
    BY <2>2, <2>3
<1>3. Archive(S) \in [Rows -> Row]
  BY <1>2 DEF Archive, Prolongs
<1> QED
  BY <1>2, <1>3, RowsSequence

\* The rows there were are continued.
RowsKept ==
    /\ mem' \in Seq(Row)
    /\ Len(mem') \in Nat /\ Len(mem) <= Len(mem')
    /\ \A i \in Rows : Prolongs(mem'[i], mem[i])

\* A row stays at its place.
LEMMA KeptPlaces ==
  ASSUME MemoryTypeOK, RowsKept
  PROVE  /\ Rows' = 1 .. Len(mem') /\ Rows \subseteq Rows'
         /\ \A i \in Rows : PlaceOf(i)' = PlaceOf(i)
<1>1. \A i \in Rows : PlaceOf(i)' = PlaceOf(i)
  BY DEF RowsKept, PlaceOf, Prolongs
<1> QED
  BY <1>1, MemoryRows DEF RowsKept, Rows

\* Archiving takes rows from what a place finds, and nothing else.
LEMMA ArchiveKeeps ==
  ASSUME MemoryTypeOK, NEW S, mem' = Archive(S)
  PROVE  /\ RowsKept /\ Len(mem') = Len(mem)
         /\ \A p \in Places : ActiveAt(p)' = ActiveAt(p) \ S
<1>1. RowsKept /\ Len(mem') = Len(mem) /\ Rows' = Rows
  BY MemoryRows, ArchiveType DEF RowsKept, Rows
<1>2. \A i \in Rows : PlaceOf(i)' = PlaceOf(i)
  BY <1>1, KeptPlaces
<1>3. \A i \in Rows : ~mem'[i].archived <=> ~mem[i].archived /\ i \notin S
  BY ArchiveType
<1> QED
  BY <1>1, <1>2, <1>3 DEF ActiveAt, Active

\* A row that is added is current at its place, and touches no other.
LEMMA AppendKeeps ==
  ASSUME MemoryTypeOK, NEW S, NEW r \in Row, ~r.archived,
         mem' = Append(Archive(S), r), NEW n, n = Len(mem) + 1
  PROVE  /\ RowsKept /\ Len(mem') = n
         /\ mem'[n] = r
         /\ PlaceOf(n)' = Place(r.scope, r.agent)
         /\ \A p \in Places : ActiveAt(p)' = (ActiveAt(p) \ S)
              \cup IF p = Place(r.scope, r.agent) THEN {n} ELSE {}
<1>1. /\ mem' \in Seq(Row) /\ Len(mem') = n /\ mem'[n] = r
      /\ \A i \in Rows : mem'[i] = Archive(S)[i]
  BY AppendProperties, MemoryRows, ArchiveType DEF Rows
<1>2. RowsKept
  BY <1>1, MemoryRows, ArchiveType DEF RowsKept
<1>3. \A i \in Rows : PlaceOf(i)' = PlaceOf(i)
  BY <1>2, KeptPlaces
<1>4. PlaceOf(n)' = Place(r.scope, r.agent)
  BY <1>1 DEF PlaceOf
<1>5. Rows' = Rows \cup {n} /\ n \notin Rows
  BY <1>1, MemoryRows DEF Rows
<1>6. \A i \in Rows : ~mem'[i].archived <=> ~mem[i].archived /\ i \notin S
  BY <1>1, ArchiveType
<1>7. n \in Active'
  BY <1>1, <1>5 DEF Active
<1>8. ASSUME NEW p \in Places
      PROVE  ActiveAt(p)' = (ActiveAt(p) \ S) \cup IF p = Place(r.scope, r.agent) THEN {n} ELSE {}
  <2>1. \A i \in Rows : i \in ActiveAt(p)' <=> i \in ActiveAt(p) \ S
    BY <1>3, <1>5, <1>6 DEF ActiveAt, Active
  <2>2. n \in ActiveAt(p)' <=> p = Place(r.scope, r.agent)
    BY <1>4, <1>7 DEF ActiveAt
  <2>3. ActiveAt(p)' \subseteq Rows' /\ ActiveAt(p) \subseteq Rows
    BY DEF ActiveAt, Active
  <2> QED
    BY <1>5, <2>1, <2>2, <2>3
<1> QED
  BY <1>1, <1>2, <1>4, <1>8

\* One caller moves on, the others stay where they are.
LEMMA CallGoes ==
  ASSUME MemoryTypeOK, NEW a \in Caller, NEW c \in {Idle} \cup Setting \cup Resolving, Goto(a, c)
  PROVE  /\ call' \in [Caller -> {Idle} \cup Setting \cup Resolving]
         /\ call'[a] = c
         /\ \A b \in Caller \ {a} : call'[b] = call[b]
  BY DEF MemoryTypeOK, Goto

\* What a call aims at is there while other calls move.
LEMMA AimStays ==
  ASSUME MemoryTypeOK, RowsKept, NEW a \in Caller, AimedAt(a), call'[a] = call[a]
  PROVE  AimedAt(a)'
<1>1. \A i \in Rows : i \in Rows' /\ PlaceOf(i)' = PlaceOf(i)
  BY KeptPlaces
<1>2. Len(mem) \in Nat /\ Len(mem') \in Nat /\ Len(mem) <= Len(mem')
  BY MemoryRows DEF RowsKept
<1>3. call[a].pc = "archive" => PlaceOf(call[a].on)' = Place(call'[a].scope, a)
  BY <1>1 DEF AimedAt, PlaceOf
<1> QED
  BY <1>1, <1>2, <1>3 DEF AimedAt

\* What is left to show of a step once its effects are known.
LEMMA MemoryInvFrom ==
  ASSUME MemoryInv, RowsKept, Len(mem') <= MaxVersions,
         call' \in [Caller -> {Idle} \cup Setting \cup Resolving],
         gone' \subseteq Places,
         \A i \in Rows' \ Rows : mem'[i].version <= i,
         \A a \in Caller : call'[a] = call[a] \/ call'[a] = Idle \/ AimedAt(a)',
         \A p \in Places : PlaceKept(p)'
  PROVE  MemoryInv'
<1>1. MemoryTypeOK /\ MemoryTypeOK'
  BY DEF MemoryInv, MemoryTypeOK, RowsKept
<1>2. Numbered'
  BY DEF MemoryInv, Numbered, RowsKept, Prolongs
<1>3. ASSUME NEW a \in Caller
      PROVE  AimedAt(a)'
  <2>1. CASE call'[a] = Idle
    BY <2>1 DEF AimedAt, Idle
  <2>2. CASE call'[a] = call[a]
    BY <1>1, <2>2, AimStays DEF MemoryInv
  <2> QED
    BY <2>1, <2>2
<1> QED
  BY <1>1, <1>2, <1>3 DEF MemoryInv

\* While no row is written, a place stays kept if its inserter stays or it is gone.
LEMMA NothingWritten ==
  ASSUME MemoryInv, mem' = mem
  PROVE  /\ RowsKept /\ Rows' = Rows /\ Len(mem') <= MaxVersions
         /\ \A p \in Places : /\ ActiveAt(p)' = ActiveAt(p)
                              /\ \A i \in Rows : PlaceOf(i)' = PlaceOf(i)
<1>1. MemoryTypeOK
  BY DEF MemoryInv
<1> QED
  BY <1>1, MemoryRows DEF RowsKept, Rows, ActiveAt, Active, PlaceOf, Prolongs, MemoryTypeOK

\* set_memory up to its first statement,
LEMMA SetMemoryStep ==
  ASSUME MemoryInv, NEW a \in Caller, NEW s \in Scope, NEW v \in Value, NEW l \in Layer,
         NEW upsert \in BOOLEAN, SetMemory(a, s, v, l, upsert)
  PROVE  MemoryInv'
<1> DEFINE found == Newest(ActiveAt(Place(s, a)))
           Set(pc, i, flag) == [pc |-> pc, scope |-> s, value |-> v, layer |-> l,
                                on |-> i, conflict |-> flag]
<1>1. MemoryTypeOK /\ mem' = mem /\ gone' = gone /\ call[a].pc = "idle"
  BY DEF MemoryInv, SetMemory, Idle
<1>2. \/ found = {} /\ Goto(a, Set("insert", 0, FALSE))
      \/ \E i \in found : Goto(a, Set(IF upsert THEN "archive" ELSE "insert", i, ~upsert))
  BY DEF SetMemory
<1> HIDE DEF found, Set
<1>3. PICK pc \in {"archive", "insert"}, i \in 0 .. Len(mem), flag \in BOOLEAN :
         /\ Goto(a, Set(pc, i, flag))
         /\ pc = "archive" => i \in ActiveAt(Place(s, a))
  <2>1. CASE found = {} /\ Goto(a, Set("insert", 0, FALSE))
    <3>1. 0 \in 0 .. Len(mem)
      BY <1>1, MemoryRows
    <3> QED
      BY <2>1, <3>1
  <2>2. ASSUME NEW i \in found, Goto(a, Set(IF upsert THEN "archive" ELSE "insert", i, ~upsert))
        PROVE  \E pc \in {"archive", "insert"}, j \in 0 .. Len(mem), flag \in BOOLEAN :
                  /\ Goto(a, Set(pc, j, flag))
                  /\ pc = "archive" => j \in ActiveAt(Place(s, a))
    <3>1. i \in ActiveAt(Place(s, a)) /\ i \in 0 .. Len(mem)
      BY <1>1, MemoryRows DEF found, Newest, ActiveAt, Active
    <3> QED
      BY <2>2, <3>1
  <2> QED
    BY <1>2, <2>1, <2>2
<1>4. Set(pc, i, flag) \in Setting
  BY <1>1, MemoryRows, MemoryAssumption DEF Set, Setting, MemoryTypeOK
<1>5. /\ call' \in [Caller -> {Idle} \cup Setting \cup Resolving]
      /\ call'[a] = Set(pc, i, flag)
      /\ \A b \in Caller \ {a} : call'[b] = call[b]
  BY <1>1, <1>3, <1>4, CallGoes
<1>6. /\ call'[a].pc = pc /\ call'[a].scope = s /\ call'[a].on = i
  BY <1>5 DEF Set
<1>7. AimedAt(a)'
  <2>1. pc = "archive" => i \in Rows' /\ PlaceOf(i)' = Place(s, a)
    BY <1>1, <1>3, NothingWritten DEF ActiveAt, Active, Places
  <2>2. i \in 0 .. Len(mem')
    BY <1>1
  <2>3. PlaceOf(call[a].on)' = Place(mem'[i].scope, mem'[i].agent)
    BY <1>6 DEF PlaceOf
  <2> QED
    BY <1>3, <1>6, <2>1, <2>2, <2>3 DEF AimedAt, PlaceOf
<1>8. ASSUME NEW p \in Places
      PROVE  PlaceKept(p)'
  BY <1>1, <1>5, NothingWritten DEF PlaceKept, MemoryInv
<1> QED
  BY <1>1, <1>5, <1>7, <1>8, NothingWritten, MemoryInvFrom DEF MemoryInv, MemoryTypeOK

\* its archiving of the version before,
LEMMA ArchiveOldStep ==
  ASSUME MemoryInv, NEW a \in Caller, ArchiveOld(a)
  PROVE  MemoryInv'
<1> DEFINE q == Place(call[a].scope, a)
           c == [call[a] EXCEPT !.pc = "insert"]
<1>1. /\ MemoryTypeOK /\ call[a].pc = "archive" /\ mem' = Archive({call[a].on})
      /\ Goto(a, c) /\ gone' = gone
  BY DEF MemoryInv, ArchiveOld
<1>2. /\ call[a] \in Setting /\ call[a].on \in Rows /\ PlaceOf(call[a].on) = q
      /\ call[a].on \in 0 .. Len(mem)
  BY <1>1, MemoryCalls DEF MemoryInv, AimedAt
<1>3. c \in Setting /\ c.pc = "insert" /\ c.scope = call[a].scope /\ c.on = call[a].on
  BY <1>2 DEF Setting
<1> HIDE DEF c
<1>4. /\ call' \in [Caller -> {Idle} \cup Setting \cup Resolving]
      /\ call'[a] = c
      /\ \A b \in Caller \ {a} : call'[b] = call[b]
  BY <1>1, <1>3, CallGoes
<1>5. /\ RowsKept /\ Len(mem') = Len(mem)
      /\ \A p \in Places : ActiveAt(p)' = ActiveAt(p) \ {call[a].on}
  BY <1>1, ArchiveKeeps
<1>6. Rows' = Rows /\ \A i \in Rows : PlaceOf(i)' = PlaceOf(i)
  BY <1>1, <1>5, KeptPlaces DEF Rows
<1>7. AimedAt(a)'
  BY <1>2, <1>3, <1>4, <1>5 DEF AimedAt
<1>8. ASSUME NEW p \in Places
      PROVE  PlaceKept(p)'
  <2>1. CASE p = q
    BY <1>3, <1>4, <2>1 DEF PlaceKept
  <2>2. CASE p # q
    <3>1. ActiveAt(p)' = ActiveAt(p)
      BY <1>2, <1>5, <2>2 DEF ActiveAt
    <3> QED
      BY <1>1, <1>4, <1>6, <3>1 DEF PlaceKept, MemoryInv
  <2> QED
    BY <2>1, <2>2
<1> QED
  BY <1>1, <1>4, <1>5, <1>6, <1>7, <1>8, MemoryInvFrom DEF MemoryInv, MemoryTypeOK

\* There is a number for the version after one that is there.
LEMMA NextVersion ==
  ASSUME MemoryInv, Len(mem) < MaxVersions,
         NEW version, version = 1 \/ \E i \in Rows : version = mem[i].version + 1
  PROVE  version \in 1 .. MaxVersions /\ version <= Len(mem) + 1
<1>1. MemoryTypeOK
  BY DEF MemoryInv
<1>2. \A i \in Rows : mem[i].version \in 1 .. MaxVersions /\ mem[i].version <= i
  BY <1>1, MemoryRows DEF MemoryInv, Numbered, Row
<1> QED
  BY <1>1, <1>2, MemoryRows, MemoryAssumption

\* Archiving no row changes none.
LEMMA ArchiveNothing ==
  ASSUME MemoryTypeOK
  PROVE  Archive({}) = mem
<1>1. mem \in [Rows -> Row]
  BY MemoryRows
<1> QED
  BY <1>1 DEF Archive

\* A row added for the place the call was asked about.
LEMMA RowAdded ==
  ASSUME MemoryInv, NEW a \in Caller, NEW r \in Row, ~r.archived, r.agent = a,
         r.version <= Len(mem) + 1, Len(mem) < MaxVersions,
         NEW S, \A i \in S : i \in Rows /\ PlaceOf(i) = Place(r.scope, a),
         mem' = Append(Archive(S), r), Done(a),
         gone' \subseteq Places, gone \ {Place(r.scope, a)} \subseteq gone',
         call[a].pc = "insert" => r.scope = call[a].scope
  PROVE  MemoryInv'
<1> DEFINE q == Place(r.scope, a)
<1>1. MemoryTypeOK
  BY DEF MemoryInv
<1>2. PICK n : n = Len(mem) + 1
  OBVIOUS
<1>3. /\ call' \in [Caller -> {Idle} \cup Setting \cup Resolving]
      /\ call'[a] = Idle
      /\ \A b \in Caller \ {a} : call'[b] = call[b]
  BY <1>1, CallGoes DEF Done
<1>4. /\ RowsKept /\ Len(mem') = n
      /\ mem'[n] = r
      /\ PlaceOf(n)' = q
      /\ \A p \in Places : ActiveAt(p)' = (ActiveAt(p) \ S) \cup IF p = q THEN {n} ELSE {}
  BY <1>1, <1>2, AppendKeeps
<1>5. \A i \in Rows : PlaceOf(i)' = PlaceOf(i)
  BY <1>1, <1>4, KeptPlaces
<1>6. Rows' = Rows \cup {n} /\ n \in Nat
  BY <1>1, <1>2, <1>4, KeptPlaces, MemoryRows
<1>7. ASSUME NEW p \in Places
      PROVE  PlaceKept(p)'
  <2>1. CASE p = q
    BY <1>4, <2>1 DEF PlaceKept
  <2>2. CASE p # q
    <3>1. ActiveAt(p)' = ActiveAt(p)
      BY <1>4, <2>2 DEF ActiveAt
    <3>2. (\E i \in Rows' : PlaceOf(i)' = p) => \E i \in Rows : PlaceOf(i) = p
      BY <1>4, <1>5, <1>6, <2>2
    <3>3. PlaceKept(p)
      BY DEF MemoryInv
    <3>4. p \in gone => p \in gone'
      BY <2>2
    <3>5. ASSUME NEW b \in Caller, call[b].pc = "insert", Place(call[b].scope, b) = p
          PROVE  call'[b] = call[b]
      BY <1>3, <2>2, <3>5
    <3> QED
      BY <3>1, <3>2, <3>3, <3>4, <3>5 DEF PlaceKept
  <2> QED
    BY <2>1, <2>2
<1>8. n <= MaxVersions /\ r.version <= n
  BY <1>1, <1>2, MemoryRows, MemoryAssumption
<1> QED
  BY <1>3, <1>4, <1>6, <1>7, <1>8, MemoryInvFrom

\* its insert.
LEMMA InsertMemoryStep ==
  ASSUME MemoryInv, NEW a \in Caller, InsertMemory(a)
  PROVE  MemoryInv'
<1> DEFINE c == call[a]
           version == IF c.on = 0 THEN 1 ELSE mem[c.on].version + 1
           r == [scope |-> c.scope, agent |-> a, value |-> c.value, layer |-> c.layer,
                 version |-> version, conflict |-> c.conflict, archived |-> FALSE]
<1>1. /\ MemoryTypeOK /\ c.pc = "insert" /\ Len(mem) < MaxVersions
      /\ mem' = Append(mem, r) /\ gone' = gone \ {Place(c.scope, a)} /\ Done(a)
  BY DEF MemoryInv, InsertMemory
<1>2. c \in Setting /\ c.on \in 0 .. Len(mem)
  BY <1>1, MemoryCalls DEF MemoryInv, AimedAt
<1>3. /\ c.scope \in Scope /\ c.value \in Value /\ c.layer \in Layer /\ c.conflict \in BOOLEAN
  BY <1>2 DEF Setting
<1>4. version = 1 \/ \E i \in Rows : version = mem[i].version + 1
  BY <1>1, <1>2, MemoryRows
<1> HIDE DEF c, version
<1>5. version \in 1 .. MaxVersions /\ version <= Len(mem) + 1
  BY <1>1, <1>4, NextVersion
<1>6. /\ r \in Row /\ ~r.archived /\ r.scope = c.scope /\ r.agent = a
      /\ r.version <= Len(mem) + 1
  BY <1>3, <1>5 DEF Row
<1> HIDE DEF r
<1>7. mem' = Append(Archive({}), r)
  BY <1>1, ArchiveNothing
<1>8. gone' \subseteq Places /\ gone \ {Place(c.scope, a)} \subseteq gone'
  BY <1>1 DEF MemoryTypeOK
<1> QED
  BY <1>1, <1>6, <1>7, <1>8, RowAdded DEF c

\* What the transaction of a resolution does: the losers out, and a match kept or a row
\* for the chosen value.
CommitEffect(a, r) ==
    LET c == call[a]
        winners == {i \in c.found : mem[i].value = c.value}
        p == Place(c.scope, a)
    IN
    /\ \/ /\ winners # {}
          /\ RowsKept /\ Len(mem') = Len(mem)
          /\ \A q \in Places : ActiveAt(q)' = ActiveAt(q) \ (c.found \ winners)
       \/ /\ winners = {} /\ Len(mem) < MaxVersions
          /\ r \in Row /\ ~r.archived /\ r.agent = a /\ r.scope = c.scope /\ r.value = c.value
          /\ r.version <= Len(mem) + 1
          /\ mem' = Append(Archive(c.found), r)
    /\ gone' = IF winners # {} /\ ActiveAt(p) # c.found THEN gone \cup {p} ELSE gone
    /\ Done(a)

\* What a commit of a resolution does to the rows that it found, and what it adds.
LEMMA CommitDoes ==
  ASSUME MemoryInv, NEW a \in Caller, CommitResolution(a)
  PROVE  /\ call[a].pc = "resolve" /\ call[a] \in Resolving
         /\ Place(call[a].scope, a) \in Places
         /\ \A i \in call[a].found : i \in Rows /\ PlaceOf(i) = Place(call[a].scope, a)
         /\ \E r : CommitEffect(a, r)
<1> DEFINE c == call[a]
           winners == {i \in c.found : mem[i].value = c.value}
           losers == c.found \ winners
           archived == Archive(losers)
           p == Place(c.scope, a)
           added == [scope |-> c.scope, agent |-> a, value |-> c.value,
                     layer |-> mem[c.top].layer, version |-> mem[c.top].version + 1,
                     conflict |-> FALSE, archived |-> FALSE]
<1>1. /\ MemoryTypeOK /\ c.pc = "resolve" /\ Done(a)
      /\ gone' = IF winners # {} /\ ActiveAt(p) # c.found THEN gone \cup {p} ELSE gone
      /\ \/ /\ winners # {}
            /\ \E w \in Oldest(winners) : mem' = [archived EXCEPT ![w].conflict = FALSE]
         \/ /\ winners = {}
            /\ Len(mem) < MaxVersions
            /\ mem' = Append(archived, added)
  BY DEF MemoryInv, CommitResolution
<1>2. /\ c \in Resolving /\ p \in Places /\ c.top \in Rows
      /\ \A i \in c.found : i \in Rows /\ PlaceOf(i) = p
  BY <1>1, MemoryCalls DEF MemoryInv, AimedAt
<1>3. c.scope \in Scope /\ c.value \in Value
  BY <1>2 DEF Resolving
<1>4. ASSUME NEW w \in Oldest(winners), mem' = [archived EXCEPT ![w].conflict = FALSE]
      PROVE  /\ RowsKept /\ Len(mem') = Len(mem)
             /\ \A q \in Places : ActiveAt(q)' = ActiveAt(q) \ losers
  <2>1. /\ archived \in [Rows -> Row] /\ w \in Rows
        /\ \A i \in Rows : /\ Prolongs(archived[i], mem[i])
                           /\ archived[i].archived <=> i \in losers \/ mem[i].archived
    BY <1>1, <1>2, ArchiveType DEF Oldest
  <2> HIDE DEF archived, losers
  <2>2. ASSUME NEW i \in Rows
        PROVE  /\ Prolongs(mem'[i], mem[i])
               /\ mem'[i].archived <=> i \in losers \/ mem[i].archived
    <3> DEFINE q == [archived[w] EXCEPT !.conflict = FALSE]
    <3>1. CASE i = w
      <4>1. mem'[i] = q
        BY <1>4, <2>1, <3>1
      <4>2. /\ q \in Row /\ q.archived = archived[w].archived
            /\ q.scope = archived[w].scope /\ q.agent = archived[w].agent
            /\ q.value = archived[w].value /\ q.version = archived[w].version
        BY <2>1, Marked
      <4> HIDE DEF q
      <4> QED
        BY <2>1, <3>1, <4>1, <4>2 DEF Prolongs
    <3>2. CASE i # w
      BY <1>4, <2>1, <3>2
    <3> QED
      BY <3>1, <3>2
  <2>3. mem' \in [Rows -> Row]
    BY <1>4, <2>1, <2>2 DEF Prolongs
  <2>4. mem' \in Seq(Row) /\ Len(mem') = Len(mem)
    BY <1>1, <2>3, RowsSequence
  <2>5. RowsKept
    BY <1>1, <2>2, <2>4, MemoryRows DEF RowsKept
  <2>6. Rows' = Rows /\ \A i \in Rows : PlaceOf(i)' = PlaceOf(i)
    BY <1>1, <2>4, <2>5, KeptPlaces DEF Rows
  <2> QED
    BY <2>2, <2>4, <2>5, <2>6 DEF ActiveAt, Active
<1>5. CASE winners = {}
  <2>1. Len(mem) < MaxVersions /\ mem' = Append(Archive(c.found), added)
    BY <1>1, <1>5
  <2>2. /\ mem[c.top].version + 1 \in 1 .. MaxVersions
        /\ mem[c.top].version + 1 <= Len(mem) + 1
    BY <1>2, <2>1, NextVersion
  <2>3. mem[c.top].layer \in Layer
    BY <1>1, <1>2, MemoryRows DEF Row
  <2>4. /\ added \in Row /\ ~added.archived /\ added.agent = a /\ added.scope = c.scope
        /\ added.value = c.value /\ added.version <= Len(mem) + 1
    BY <1>3, <2>2, <2>3 DEF Row
  <2> HIDE DEF added
  <2> QED
    BY <1>1, <1>2, <1>5, <2>1, <2>4 DEF CommitEffect
<1>6. CASE winners # {}
  BY <1>1, <1>2, <1>4, <1>6 DEF CommitEffect
<1> QED
  BY <1>5, <1>6

\* A commit leaves each place something to find.
LEMMA CommitResolutionStep ==
  ASSUME MemoryInv, NEW a \in Caller, CommitResolution(a)
  PROVE  MemoryInv'
<1> DEFINE c == call[a]
           winners == {i \in c.found : mem[i].value = c.value}
           p == Place(c.scope, a)
<1>1. PICK r : CommitEffect(a, r)
  BY CommitDoes
<1>2. /\ MemoryTypeOK /\ c.pc = "resolve" /\ p \in Places
      /\ \A i \in c.found : i \in Rows /\ PlaceOf(i) = p
      /\ Done(a) /\ gone \subseteq gone' /\ gone' \subseteq Places
  BY <1>1, CommitDoes DEF MemoryInv, CommitEffect, MemoryTypeOK
<1>3. CASE winners = {}
  BY <1>1, <1>2, <1>3, RowAdded DEF CommitEffect
<1>4. CASE winners # {}
  <2>1. /\ RowsKept /\ Len(mem') = Len(mem)
        /\ \A q \in Places : ActiveAt(q)' = ActiveAt(q) \ (c.found \ winners)
        /\ ActiveAt(p) # c.found => p \in gone'
    BY <1>1, <1>4 DEF CommitEffect
  <2>2. /\ call' \in [Caller -> {Idle} \cup Setting \cup Resolving]
        /\ call'[a] = Idle
        /\ \A b \in Caller \ {a} : call'[b] = call[b]
    BY <1>2, CallGoes DEF Done
  <2>3. Rows' = Rows /\ \A i \in Rows : PlaceOf(i)' = PlaceOf(i)
    BY <1>2, <2>1, KeptPlaces DEF Rows
  <2>4. ASSUME NEW q \in Places
        PROVE  PlaceKept(q)'
    <3>1. CASE q = p /\ ActiveAt(p) = c.found
      BY <1>4, <2>1, <3>1 DEF PlaceKept
    <3>2. CASE q = p /\ ActiveAt(p) # c.found
      BY <2>1, <3>2 DEF PlaceKept
    <3>3. CASE q # p
      <4>1. ActiveAt(q)' = ActiveAt(q)
        BY <1>2, <2>1, <3>3 DEF ActiveAt
      <4>2. PlaceKept(q)
        BY DEF MemoryInv
      <4>3. \A b \in Caller : call[b].pc = "insert" => call'[b] = call[b]
        BY <1>2, <2>2
      <4> QED
        BY <1>2, <2>3, <4>1, <4>2, <4>3 DEF PlaceKept
    <3> QED
      BY <3>1, <3>2, <3>3
  <2> QED
    BY <1>2, <2>1, <2>2, <2>3, <2>4, MemoryInvFrom DEF MemoryInv, MemoryTypeOK
<1> QED
  BY <1>3, <1>4

\* Rows are deleted with what found them.
LEMMA DeleteStep ==
  ASSUME MemoryInv, NEW S, S \subseteq Active, Delete(S)
  PROVE  MemoryInv'
<1>1. /\ MemoryTypeOK /\ S \subseteq Rows /\ call' = call
      /\ mem' = Archive(S) /\ gone' = gone \cup {PlaceOf(i) : i \in S}
  BY DEF MemoryInv, Delete, Active
<1>2. /\ RowsKept /\ Len(mem') = Len(mem)
      /\ \A p \in Places : ActiveAt(p)' = ActiveAt(p) \ S
  BY <1>1, ArchiveKeeps
<1>3. Rows' = Rows /\ \A i \in Rows : PlaceOf(i)' = PlaceOf(i)
  BY <1>1, <1>2, KeptPlaces DEF Rows
<1>4. ASSUME NEW p \in Places
      PROVE  PlaceKept(p)'
  <2>1. CASE p \in {PlaceOf(i) : i \in S}
    BY <1>1, <2>1 DEF PlaceKept
  <2>2. CASE p \notin {PlaceOf(i) : i \in S}
    <3>1. ActiveAt(p)' = ActiveAt(p)
      BY <1>2, <2>2 DEF ActiveAt
    <3> QED
      BY <1>1, <1>3, <3>1 DEF PlaceKept, MemoryInv
  <2> QED
    BY <2>1, <2>2
<1>5. gone' \subseteq Places
  BY <1>1, MemoryRows DEF MemoryTypeOK
<1> QED
  BY <1>1, <1>2, <1>3, <1>4, <1>5, MemoryInvFrom DEF MemoryInv, MemoryTypeOK

\* A relay that stops abandons the calls it was in.
LEMMA AbandonStep ==
  ASSUME MemoryInv, NEW A, A \subseteq Caller, Abandon(A)
  PROVE  MemoryInv'
<1> DEFINE left == {Place(call[a].scope, a) : a \in {b \in A : call[b].pc = "insert"}}
<1>1. /\ MemoryTypeOK /\ mem' = mem /\ gone' = gone \cup left
      /\ call' = [a \in Caller |-> IF a \in A THEN Idle ELSE call[a]]
  BY DEF MemoryInv, Abandon
<1>2. call' \in [Caller -> {Idle} \cup Setting \cup Resolving]
  BY <1>1 DEF MemoryTypeOK
<1>3. \A a \in Caller : call'[a] = IF a \in A THEN Idle ELSE call[a]
  BY <1>1
<1>4. ASSUME NEW p \in Places
      PROVE  PlaceKept(p)'
  <2>1. ASSUME NEW b \in Caller, call[b].pc = "insert", Place(call[b].scope, b) = p
        PROVE  b \in A => p \in gone'
    BY <1>1, <2>1
  <2> QED
    BY <1>1, <1>3, <2>1, NothingWritten DEF PlaceKept, MemoryInv
<1>5. gone' \subseteq Places
  BY <1>1, MemoryCalls DEF MemoryTypeOK
<1> QED
  BY <1>1, <1>2, <1>3, <1>4, <1>5, NothingWritten, MemoryInvFrom

\* resolve_conflict up to its transaction.
LEMMA ResolveConflictStep ==
  ASSUME MemoryInv, NEW a \in Caller, NEW s \in Scope, NEW v \in Value, ResolveConflict(a, s, v)
  PROVE  MemoryInv'
<1> DEFINE found == ActiveAt(Place(s, a))
<1>1. /\ MemoryTypeOK /\ mem' = mem /\ gone' = gone /\ call[a].pc = "idle"
  BY DEF MemoryInv, ResolveConflict, Idle
<1>2. PICK top \in found :
         Goto(a, [pc |-> "resolve", scope |-> s, value |-> v, top |-> top, found |-> found])
  BY DEF ResolveConflict, Newest
<1>3. found \subseteq Rows /\ found \subseteq 1 .. MaxVersions
  BY <1>1, MemoryRows DEF ActiveAt, Active
<1> DEFINE c == [pc |-> "resolve", scope |-> s, value |-> v, top |-> top, found |-> found]
<1>4. c \in Resolving /\ c.pc = "resolve" /\ c.scope = s /\ c.top = top /\ c.found = found
  BY <1>2, <1>3 DEF Resolving
<1>5. Goto(a, c)
  BY <1>2
<1> HIDE DEF c
<1>6. /\ call' \in [Caller -> {Idle} \cup Setting \cup Resolving]
      /\ call'[a] = c
      /\ \A b \in Caller \ {a} : call'[b] = call[b]
  BY <1>1, <1>4, <1>5, CallGoes
<1>7. AimedAt(a)'
  <2>1. \A i \in found : i \in Rows' /\ PlaceOf(i)' = Place(s, a)
    BY <1>1, <1>3, NothingWritten DEF ActiveAt, Places
  <2> QED
    BY <1>2, <1>4, <1>6, <2>1 DEF AimedAt
<1>8. ASSUME NEW p \in Places
      PROVE  PlaceKept(p)'
  BY <1>1, <1>6, NothingWritten DEF PlaceKept, MemoryInv
<1> QED
  BY <1>1, <1>6, <1>7, <1>8, NothingWritten, MemoryInvFrom DEF MemoryInv, MemoryTypeOK

\* The first states satisfy it,
LEMMA MemoryInitially ==
  ASSUME MemoryInit
  PROVE  MemoryInv
<1>1. MemoryTypeOK /\ Rows = {}
  BY MemoryAssumption DEF MemoryInit, MemoryTypeOK, Rows
<1> QED
  BY <1>1 DEF MemoryInit, MemoryInv, Numbered, AimedAt, PlaceKept, Idle

\* and every step keeps it.
LEMMA MemoryInductive ==
  ASSUME MemoryInv, [MemoryNext]_memoryVars
  PROVE  MemoryInv'
<1>1. \A a \in Caller : Uses[a] \subseteq Scope
  BY MemoryAssumption
<1>2. ASSUME NEW a \in Writer \cup Dashboard, HandleSetMemory(a) \/ ApiPostMemory(a)
      PROVE  MemoryInv'
  BY <1>1, <1>2, SetMemoryStep DEF HandleSetMemory, ApiPostMemory, Caller
<1>3. ASSUME NEW a \in Caller, MemoryStep(a)
      PROVE  MemoryInv'
  BY <1>3, ArchiveOldStep, InsertMemoryStep, CommitResolutionStep DEF MemoryStep
<1>4. ASSUME NEW a \in Caller, NEW s, DeleteMemory(a, s)
      PROVE  MemoryInv'
  <2>1. ActiveAt(Place(s, a)) \subseteq Active
    BY DEF ActiveAt
  <2> QED
    BY <1>4, <2>1, DeleteStep DEF DeleteMemory
<1>5. ASSUME NEW i \in Rows, DeleteMemoryByID(i)
      PROVE  MemoryInv'
  <2>1. {i} \subseteq Active
    BY <1>5 DEF DeleteMemoryByID
  <2> QED
    BY <1>5, <2>1, DeleteStep DEF DeleteMemoryByID
<1>6. ASSUME NEW a \in Caller, StatementFails(a)
      PROVE  MemoryInv'
  BY <1>6, AbandonStep DEF StatementFails
<1>7. CASE RelayStops
  BY <1>7, AbandonStep DEF RelayStops
<1>8. ASSUME NEW a \in Caller, NEW s \in Uses[a], NEW v \in Value, ResolveConflict(a, s, v)
      PROVE  MemoryInv'
  BY <1>1, <1>8, ResolveConflictStep
<1>9. CASE UNCHANGED memoryVars
  BY <1>9, NothingWritten, MemoryInvFrom DEF memoryVars, MemoryInv, MemoryTypeOK, PlaceKept
<1> QED
  BY <1>2, <1>3, <1>4, <1>5, <1>6, <1>7, <1>8, <1>9 DEF MemoryNext, Caller

\* Whoever may look a version up finds it by every way of asking.
LEMMA KeysFindable ==
  ASSUME MemoryTypeOK, NEW a \in Caller
  PROVE  /\ GetMemory(a) \subseteq SearchEverywhere(a)
         /\ \A s \in Scope :
              /\ GetMemoryAtScope(a, s) \subseteq SearchMemory(a, s)
              /\ a \in Writer => ListMemories(a, s, NotGiven) \subseteq SearchEverywhere(a)
         /\ {i \in SearchEverywhere(a) : Home[mem[i].agent] = Home[a]}
              \subseteq ListMemories(a, NotGiven, NotGiven)
<1>1. ASSUME NEW i \in Rows, NEW s \in Scope, PlaceOf(i) = Place(s, a)
      PROVE  /\ mem[i].scope = s
             /\ s # "global" => Home[mem[i].agent] = Home[a]
             /\ s = "agent" => mem[i].agent = a
  BY <1>1 DEF PlaceOf, Place, Scope
<1>2. ASSUME NEW s \in Scope
      PROVE  /\ GetMemoryAtScope(a, s) \subseteq SearchMemory(a, s)
             /\ GetMemoryAtScope(a, s) \subseteq SearchEverywhere(a)
  BY <1>1 DEF GetMemoryAtScope, SearchMemory, SearchEverywhere, ActiveAt, Active, Global, Scope
<1>3. \E s \in Scope : GetMemory(a) = GetMemoryAtScope(a, s)
  BY DEF GetMemory, Scope
<1>4. ASSUME NEW s \in Scope, a \in Writer
      PROVE  ListMemories(a, s, NotGiven) \subseteq SearchEverywhere(a)
  <2>1. a # NotGiven /\ s # NotGiven
    BY MemoryAssumption DEF NotGiven, Scope
  <2>2. ASSUME NEW i \in ListMemories(a, s, NotGiven)
        PROVE  /\ i \in Active /\ Home[mem[i].agent] = Home[a] /\ mem[i].scope = s
               /\ s = "agent" => mem[i].agent = a
    BY <1>4, <2>1 DEF ListMemories
  <2> QED
    BY <2>2 DEF SearchEverywhere, Global, Scope
<1>5. {i \in SearchEverywhere(a) : Home[mem[i].agent] = Home[a]} \subseteq ListMemories(a, NotGiven, NotGiven)
  BY DEF SearchEverywhere, ListMemories, NotGiven
<1> QED
  BY <1>2, <1>3, <1>4, <1>5

\* Memories and the calls on them keep their shape, whatever the number of callers,
\* values, layers and versions (InsertMemory, memories.go).
THEOREM MemoryTypeCorrect == MemorySpec => []MemoryTypeOK
<1>1. MemoryInv => MemoryTypeOK
  BY DEF MemoryInv
<1> QED
  BY <1>1, MemoryInitially, MemoryInductive, PTL DEF MemorySpec

\* A key that was written has a current version, unless it was deleted, a writer stopped
\* halfway, or a resolution committed over a list that another call had changed; and who
\* may look it up finds it by get and by search, is shown by a list over one scope
\* nothing else, and by the list left open all of the project that a search finds:
\* however the sets, upserts, deletions and resolutions of several callers interleave
\* (memories.go).
THEOREM KeysKept == MemorySpec => []KeyKept
<1>1. MemoryInv => KeyKept
  BY KeysFindable DEF MemoryInv, KeyKept, PlaceKept
<1> QED
  BY <1>1, MemoryInitially, MemoryInductive, PTL DEF MemorySpec

\* A resolution that committed what it found left one value.
LEMMA ResolutionStep ==
  ASSUME MemoryInv, NEW a \in Caller, NEW p \in Places, CommitResolution(a),
         p = Place(call[a].scope, a), ActiveAt(p) = call[a].found
  PROVE  /\ ActiveAt(p)' # {}
         /\ \A i \in ActiveAt(p)' : mem'[i].value = call[a].value
<1> DEFINE c == call[a]
           winners == {i \in c.found : mem[i].value = c.value}
<1>1. PICK r : CommitEffect(a, r)
  BY CommitDoes
<1>2. /\ MemoryTypeOK /\ \A i \in c.found : i \in Rows
  BY CommitDoes DEF MemoryInv
<1>3. CASE winners # {}
  <2>1. ActiveAt(p)' = winners /\ RowsKept
    BY <1>1, <1>3 DEF CommitEffect
  <2> QED
    BY <1>2, <1>3, <2>1 DEF RowsKept, Prolongs
<1>4. CASE winners = {}
  <2>1. PICK n : n = Len(mem) + 1
    OBVIOUS
  <2>2. /\ r \in Row /\ ~r.archived /\ r.scope = c.scope /\ r.agent = a /\ r.value = c.value
        /\ mem' = Append(Archive(c.found), r)
    BY <1>1, <1>4 DEF CommitEffect
  <2>3. ActiveAt(p)' = {n} /\ mem'[n] = r
    BY <1>2, <2>1, <2>2, AppendKeeps
  <2> QED
    BY <2>2, <2>3
<1> QED
  BY <1>3, <1>4

\* A resolution that nobody crossed leaves the chosen value and no other
\* (ResolveConflict, memories.go).
THEOREM ResolutionSettled == MemorySpec => ResolutionSettles
<1>1. ASSUME MemoryInv, [MemoryNext]_memoryVars
      PROVE  [\A a \in Caller, p \in Places :
                /\ call[a].pc = "resolve"
                /\ CommitResolution(a)
                /\ p = Place(call[a].scope, a)
                /\ ActiveAt(p) = call[a].found
                => /\ ActiveAt(p)' # {}
                   /\ \A i \in ActiveAt(p)' : mem'[i].value = call[a].value]_memoryVars
  BY <1>1, ResolutionStep
<1> QED
  BY <1>1, MemoryInitially, MemoryInductive, PTL DEF MemorySpec, ResolutionSettles

------------------------------------------------------------------------------
(* Directory. *)

\* What is true of a call between two of its queries.
RuleKept(a) ==
    /\ desk[a].pc = "teams" => desk[a].at = 1
    /\ desk[a].pc = "rule" =>
         /\ desk[a].to \notin Team
         /\ desk[a].to = Everyone => desk[a].at = 1
         /\ \A r \in held[a] : \E i \in desk[a].at .. Len(Rules) : r = Rules[i]

\* What holds all along holds now, and what holds now has held.
Sandwiched(a) == held[a] \subseteq Findable(a) /\ Findable(a) \subseteq seen[a]

\* What is inductive: beside what is promised, that elevations are a sequence of roles,
\* that no rule held at a query that has already failed, and that what was seen of the
\* recipients lies between what was held throughout and what was held at some time.
DirectoryInv ==
    /\ DirectoryTypeOK
    /\ elevation \in [Agent -> Seq({"admin", "lead"})]
    /\ ExecutivesLead
    /\ \A a \in Agent : RuleKept(a) /\ Sandwiched(a)

\* The rules of CanMessage are five.
LEMMA RulesLength == Len(Rules) = 5
  BY DEF Rules

\* An agent is registering, sending or at rest.
LEMMA DeskStates ==
  ASSUME DirectoryTypeOK, NEW a \in Agent
  PROVE  /\ desk[a] = AtRest => desk[a].pc = "idle"
         /\ desk[a].pc \in {"find", "create", "join"} <=> desk[a] \in Registering
         /\ desk[a].pc \in {"teams", "rule", "insert", "resolve"} <=> desk[a] \in Sending
         /\ desk[a] \in Sending => /\ desk[a].to \in Agent \cup Team \cup {Everyone}
                                   /\ desk[a].at \in 1 .. Len(Rules)
  BY DEF DirectoryTypeOK, AtRest, Registering, Sending

\* One caller moves on, the others stay where they are.
LEMMA SenderMoves ==
  ASSUME DirectoryTypeOK, NEW a \in Agent, NEW d, Goes(a, d), d \in Sending \cup {AtRest}
  PROVE  desk' \in [Agent -> {AtRest} \cup Registering \cup Sending]
  BY DEF DirectoryTypeOK, Goes

\* One caller moves on, the others stay where they are.
LEMMA DeskGoes ==
  ASSUME DirectoryTypeOK, NEW a \in Agent, NEW d, Goes(a, d)
  PROVE  /\ desk'[a] = d
         /\ \A b \in Agent : b # a => desk'[b] = desk[b]
         /\ d \in {AtRest} \cup Registering \cup Sending
              => desk' \in [Agent -> {AtRest} \cup Registering \cup Sending]
  BY DEF DirectoryTypeOK, Goes

\* The steps of a send keep its recipient and its place among the rules.
LEMMA SendingParts ==
  ASSUME NEW d \in Sending
  PROVE  /\ \A pc \in {"rule", "insert"} :
              /\ [d EXCEPT !.pc = pc] \in Sending
              /\ [d EXCEPT !.pc = pc].pc = pc
              /\ [d EXCEPT !.pc = pc].to = d.to
              /\ [d EXCEPT !.pc = pc].at = d.at
         /\ \A pc \in {"insert", "resolve"}, b \in BOOLEAN :
              /\ [d EXCEPT !.pc = pc, !.blind = b] \in Sending
              /\ [d EXCEPT !.pc = pc, !.blind = b].pc = pc
              /\ [d EXCEPT !.pc = pc, !.blind = b].blind = b
         /\ \A b \in BOOLEAN :
              /\ d.at < Len(Rules) => [d EXCEPT !.at = @ + 1, !.blind = b] \in Sending
              /\ [d EXCEPT !.at = @ + 1, !.blind = b].at = d.at + 1
              /\ [d EXCEPT !.at = @ + 1, !.blind = b].pc = d.pc
              /\ [d EXCEPT !.at = @ + 1, !.blind = b].to = d.to
              /\ [d EXCEPT !.at = @ + 1, !.blind = b].blind = b
<1> USE DEF Sending
<1>0. d.at \in Nat /\ Len(Rules) = 5
  BY RulesLength
<1>1. ASSUME NEW pc \in {"rule", "insert"}
      PROVE  /\ [d EXCEPT !.pc = pc] \in Sending
             /\ [d EXCEPT !.pc = pc].pc = pc
             /\ [d EXCEPT !.pc = pc].to = d.to
             /\ [d EXCEPT !.pc = pc].at = d.at
  OBVIOUS
<1>2. ASSUME NEW pc \in {"insert", "resolve"}, NEW b \in BOOLEAN
      PROVE  /\ [d EXCEPT !.pc = pc, !.blind = b] \in Sending
             /\ [d EXCEPT !.pc = pc, !.blind = b].pc = pc
             /\ [d EXCEPT !.pc = pc, !.blind = b].blind = b
  OBVIOUS
<1>3. ASSUME NEW b \in BOOLEAN
      PROVE  /\ [d EXCEPT !.at = @ + 1, !.blind = b].at = d.at + 1
             /\ [d EXCEPT !.at = @ + 1, !.blind = b].pc = d.pc
             /\ [d EXCEPT !.at = @ + 1, !.blind = b].to = d.to
             /\ [d EXCEPT !.at = @ + 1, !.blind = b].blind = b
  OBVIOUS
<1>4. ASSUME NEW b \in BOOLEAN, d.at < Len(Rules)
      PROVE  [d EXCEPT !.at = @ + 1, !.blind = b] \in Sending
  <2>1. d.at + 1 \in 1 .. Len(Rules)
    BY <1>0, <1>4
  <2> QED
    BY <2>1
<1> QED
  BY <1>1, <1>2, <1>3, <1>4

\* How the call of a moves on.
LEMMA CheckRuleGoes ==
  ASSUME DirectoryTypeOK, NEW a \in Agent, CheckRule(a)
  PROVE  /\ desk[a] \in Sending /\ desk[a].pc = "rule"
         /\ UNCHANGED <<agent, team, member, channel, elevation, sent, lead>>
         /\ \/ /\ Holds(Rules[desk[a].at], a, desk[a].to)
               /\ Goes(a, [desk[a] EXCEPT !.pc = "insert", !.blind = FALSE])
            \/ /\ ~Holds(Rules[desk[a].at], a, desk[a].to)
               /\ desk[a].to # Everyone /\ desk[a].at < Len(Rules)
               /\ Goes(a, [desk[a] EXCEPT !.at = @ + 1, !.blind = FALSE])
            \/ /\ ~Holds(Rules[desk[a].at], a, desk[a].to)
               /\ desk[a].to = Everyone \/ desk[a].at = Len(Rules)
               /\ Goes(a, AtRest)
<1> DEFINE d == desk[a]
           last == IsLast(d)
           holds == Holds(Rules[d.at], a, d.to)
<1>1. /\ d.pc = "rule" /\ UNCHANGED <<agent, team, member, channel, elevation, sent, lead>>
      /\ Goes(a, CASE holds -> [d EXCEPT !.pc = "insert", !.blind = FALSE]
                   [] ~holds /\ ~last -> [d EXCEPT !.at = @ + 1, !.blind = FALSE]
                   [] OTHER -> AtRest)
  BY DEF CheckRule
<1>2. d \in Sending /\ d.at \in 1 .. Len(Rules)
  BY <1>1, DeskStates
<1>3. ~last => d.to # Everyone /\ d.at < Len(Rules)
  BY <1>2, RulesLength DEF IsLast
<1> HIDE DEF holds, last
<1>4. CASE holds
  BY <1>1, <1>2, <1>4 DEF holds
<1>5. CASE ~holds /\ ~last
  BY <1>1, <1>2, <1>3, <1>5 DEF holds
<1>6. CASE ~holds /\ last
  BY <1>1, <1>2, <1>6 DEF holds, last, IsLast
<1> QED
  BY <1>4, <1>5, <1>6

\* A query that fails is the end, or passes on to the next rule.
LEMMA LookupFailsGoes ==
  ASSUME DirectoryTypeOK, NEW a \in Agent, LookupFails(a)
  PROVE  /\ desk[a] \in Sending /\ desk[a].pc = "rule"
         /\ UNCHANGED <<agent, team, member, channel, elevation, sent, lead>>
         /\ \/ /\ desk[a].to # Everyone /\ desk[a].at < Len(Rules)
               /\ Goes(a, [desk[a] EXCEPT !.at = @ + 1, !.blind = TRUE])
            \/ /\ desk[a].to = Everyone \/ desk[a].at = Len(Rules)
               /\ Goes(a, AtRest)
<1>1. /\ desk[a].pc = "rule" /\ UNCHANGED <<agent, team, member, channel, elevation, sent, lead>>
      /\ IF IsLast(desk[a])
         THEN Goes(a, AtRest)
         ELSE Goes(a, [desk[a] EXCEPT !.at = @ + 1, !.blind = TRUE])
  BY DEF LookupFails
<1>2. desk[a] \in Sending /\ desk[a].at \in 1 .. Len(Rules)
  BY <1>1, DeskStates
<1>3. ~IsLast(desk[a]) => desk[a].to # Everyone /\ desk[a].at < Len(Rules)
  BY <1>2, RulesLength DEF IsLast
<1>4. IsLast(desk[a]) => desk[a].to = Everyone \/ desk[a].at = Len(Rules)
  BY DEF IsLast
<1> QED
  BY <1>1, <1>2, <1>3, <1>4

\* Where the check for teams leads,
LEMMA CheckTeamsGoes ==
  ASSUME DirectoryTypeOK, NEW a \in Agent, CheckTeams(a)
  PROVE  /\ desk[a] \in Sending /\ desk[a].pc = "teams"
         /\ UNCHANGED <<agent, team, member, channel, elevation, sent, lead>>
         /\ \/ desk[a].to \in Team /\ Goes(a, AtRest)
            \/ /\ desk[a].to \in Team \/ ~HasTeams
               /\ Goes(a, [desk[a] EXCEPT !.pc = "insert"])
            \/ /\ desk[a].to \notin Team /\ HasTeams
               /\ Goes(a, [desk[a] EXCEPT !.pc = "rule"])
  BY DeskStates DEF CheckTeams

\* always to a step of a send or to its end;
LEMMA CheckTeamsMoves ==
  ASSUME DirectoryTypeOK, NEW a \in Agent, CheckTeams(a)
  PROVE  \E d \in Sending \cup {AtRest} : Goes(a, d)
<1> DEFINE inserting == [desk[a] EXCEPT !.pc = "insert"]
           ruling == [desk[a] EXCEPT !.pc = "rule"]
<1>1. desk[a] \in Sending
  BY CheckTeamsGoes
<1>2. inserting \in Sending /\ ruling \in Sending
  BY <1>1, SendingParts
<1>3. Goes(a, inserting) \/ Goes(a, ruling) \/ Goes(a, AtRest)
  BY CheckTeamsGoes
<1> HIDE DEF inserting, ruling
<1> QED
  BY <1>2, <1>3

\* so does the check of a rule,
LEMMA CheckRuleMoves ==
  ASSUME DirectoryTypeOK, NEW a \in Agent, CheckRule(a)
  PROVE  \E d \in Sending \cup {AtRest} : Goes(a, d)
<1> DEFINE inserting == [desk[a] EXCEPT !.pc = "insert", !.blind = FALSE]
           onward == [desk[a] EXCEPT !.at = @ + 1, !.blind = FALSE]
<1>1. desk[a] \in Sending
  BY CheckRuleGoes
<1>2. inserting \in Sending /\ (desk[a].at < Len(Rules) => onward \in Sending)
  BY <1>1, SendingParts
<1>3. Goes(a, inserting) \/ (desk[a].at < Len(Rules) /\ Goes(a, onward)) \/ Goes(a, AtRest)
  BY CheckRuleGoes
<1> HIDE DEF inserting, onward
<1> QED
  BY <1>2, <1>3

\* and so do the queries that fail.
LEMMA FailureMoves ==
  ASSUME DirectoryTypeOK, NEW a \in Agent, HasTeamsFails(a) \/ LookupFails(a)
  PROVE  \E d \in Sending \cup {AtRest} : Goes(a, d)
<1> DEFINE inserting == [desk[a] EXCEPT !.pc = "insert", !.blind = TRUE]
           onward == [desk[a] EXCEPT !.at = @ + 1, !.blind = TRUE]
<1>1. desk[a] \in Sending
  BY DeskStates DEF HasTeamsFails, LookupFails
<1>2. inserting \in Sending /\ (desk[a].at < Len(Rules) => onward \in Sending)
  BY <1>1, SendingParts
<1>3. Goes(a, inserting) \/ (desk[a].at < Len(Rules) /\ Goes(a, onward)) \/ Goes(a, AtRest)
  BY LookupFailsGoes DEF HasTeamsFails
<1> HIDE DEF inserting, onward
<1> QED
  BY <1>2, <1>3

\* --- types ---

\* Elevations are sequences of roles, which DirectoryTypeOK says one by one.
DirectoryTypes ==
    DirectoryTypeOK /\ elevation \in [Agent -> Seq({"admin", "lead"})]

\* An elevation that ends leaves the others in their order.
LEMMA ElevationEnds ==
  ASSUME NEW s \in Seq({"admin", "lead"}), NEW i \in 1 .. Len(s)
  PROVE  /\ SubSeq(s, 1, i - 1) \o SubSeq(s, i + 1, Len(s)) \in Seq({"admin", "lead"})
         /\ Len(SubSeq(s, 1, i - 1) \o SubSeq(s, i + 1, Len(s))) = Len(s) - 1
<1> DEFINE R == {"admin", "lead"}
           p == SubSeq(s, 1, i - 1)
           q == SubSeq(s, i + 1, Len(s))
<1>0. Len(s) \in Nat /\ i \in Nat
  BY LenProperties
<1>1. p \in Seq(R) /\ Len(p) = i - 1
  <2>1. \A j \in 1 .. (i - 1) : s[j] \in R
    BY <1>0, ElementOfSeq
  <2> QED
    BY <1>0, <2>1, SubSeqProperties
<1>2. q \in Seq(R) /\ Len(q) = Len(s) - i
  <2>1. \A j \in (i + 1) .. Len(s) : s[j] \in R
    BY <1>0, ElementOfSeq
  <2> QED
    BY <1>0, <2>1, SubSeqProperties
<1> HIDE DEF p, q
<1>3. p \o q \in Seq(R) /\ Len(p \o q) = Len(p) + Len(q)
  BY <1>1, <1>2, ConcatProperties
<1>4. p \o q \in Seq(R) /\ Len(p \o q) = Len(s) - 1
  BY <1>0, <1>1, <1>2, <1>3
<1> QED
  BY <1>4 DEF p, q

\* One elevation more or less keeps the others.
LEMMA LongEnough ==
  ASSUME DirectoryTypes, NEW a \in Agent, NEW s \in Seq({"admin", "lead"}),
         Len(s) <= MaxElevations, elevation' = [elevation EXCEPT ![a] = s]
  PROVE  /\ elevation' \in [Agent -> Seq({"admin", "lead"})]
         /\ \A b \in Agent : /\ elevation'[b] \in Seq({"admin", "lead"})
                             /\ Len(elevation'[b]) <= MaxElevations
<1>1. elevation \in [Agent -> Seq({"admin", "lead"})]
  BY DEF DirectoryTypes
<1>2. \A b \in Agent : Len(elevation[b]) <= MaxElevations
  BY DEF DirectoryTypes, DirectoryTypeOK
<1>3. elevation'[a] = s /\ \A b \in Agent : b # a => elevation'[b] = elevation[b]
  BY <1>1
<1>4. elevation' \in [Agent -> Seq({"admin", "lead"})]
  BY <1>1
<1> QED
  BY <1>1, <1>2, <1>3, <1>4

\* Each step of registering keeps the shape of the tables,
LEMMA RegisterTypes ==
  ASSUME DirectoryTypes, NEW a \in Agent,
         HandleRegisterAgent(a) \/ FindLeadership(a) \/ CreateLeadership(a) \/ JoinLeadership(a)
  PROVE  DirectoryTypes'
<1> USE DirectoryAssumption DEF DirectoryTypes
<1>0. [pc |-> "find"] \in Registering /\ [pc |-> "create"] \in Registering
        /\ [pc |-> "join"] \in Registering
  BY DEF Registering
<1>1. CASE HandleRegisterAgent(a)
  <2> PICK b \in Boss[a] \cup {Nobody}, executive \in BOOLEAN :
          /\ RegisterAgent(a, b)
          /\ Goes(a, IF executive THEN [pc |-> "find"] ELSE AtRest)
          /\ lead' = [lead EXCEPT ![a] = IF executive THEN "owed" ELSE "no"]
    BY <1>1 DEF HandleRegisterAgent
  <2>1. UNCHANGED <<team, member, channel, elevation, sent>>
    BY <1>1 DEF HandleRegisterAgent
  <2>2. desk' \in [Agent -> {AtRest} \cup Registering \cup Sending]
    BY <1>0, DeskGoes
  <2>3. b \in Agent \cup {Nobody}
    OBVIOUS
  <2>4. agent' \in [Agent -> [status : {"none", "active", "sleeping", "inactive", "deleted"},
                              boss : Agent \cup {Nobody}]]
    BY <2>3 DEF RegisterAgent, DirectoryTypeOK
  <2>5. lead' \in [Agent -> {"no", "owed", "excused"}]
    BY DEF DirectoryTypeOK
  <2> QED
    BY <2>1, <2>2, <2>4, <2>5 DEF DirectoryTypeOK
<1>2. CASE FindLeadership(a)
  <2>1. desk' \in [Agent -> {AtRest} \cup Registering \cup Sending]
    BY <1>0, <1>2, DeskGoes DEF FindLeadership
  <2> QED
    BY <1>2, <2>1 DEF FindLeadership, DirectoryTypeOK
<1>3. CASE CreateLeadership(a)
  <2>1. desk' \in [Agent -> {AtRest} \cup Registering \cup Sending]
    BY <1>0, <1>3, DeskGoes DEF CreateLeadership
  <2> QED
    BY <1>3, <2>1 DEF CreateLeadership, DirectoryTypeOK
<1>4. CASE JoinLeadership(a)
  <2>1. desk' \in [Agent -> {AtRest} \cup Registering \cup Sending]
    BY <1>4, DeskGoes DEF JoinLeadership
  <2> QED
    BY <1>4, <2>1 DEF JoinLeadership, DirectoryTypeOK
<1> QED
  BY <1>1, <1>2, <1>3, <1>4

\* each edit of teams, members, channels, elevations and agents does,
LEMMA EditTypes ==
  ASSUME DirectoryTypes, Edit
  PROVE  DirectoryTypes' /\ desk' = desk /\ sent' = sent
<1> USE DirectoryAssumption DEF DirectoryTypes
<1>1. CASE \E a \in Retiring :
        SleepAgent(a) \/ DeactivateAgent(a) \/ MarkStaleAgentsInactive(a) \/ DeleteAgent(a)
  <2> PICK a \in Retiring : \E from, to : SetStatus(a, from, to) /\ to \in {"sleeping", "inactive", "deleted"}
    BY <1>1 DEF SleepAgent, DeactivateAgent, MarkStaleAgentsInactive, DeleteAgent
  <2> PICK from, to : SetStatus(a, from, to) /\ to \in {"sleeping", "inactive", "deleted"}
    OBVIOUS
  <2> DEFINE Rated == [status : {"none", "active", "sleeping", "inactive", "deleted"},
                     boss : Agent \cup {Nobody}]
  <2>1. agent[a] \in Rated
    BY DEF DirectoryTypeOK
  <2>2. [agent[a] EXCEPT !.status = to] \in Rated
    BY <2>1
  <2>3. agent' \in [Agent -> Rated]
    BY <2>2 DEF SetStatus, DirectoryTypeOK
  <2> QED
    BY <2>3 DEF SetStatus, DirectoryTypeOK
<1>2. CASE \E t \in Team, type \in {"regular", "admin"} : CreateTeam(t, type)
  BY <1>2 DEF CreateTeam, DirectoryTypeOK
<1>3. CASE \E t \in Team, a \in Agent : AddTeamMember(t, a) \/ RemoveTeamMember(t, a)
  <2> PICK t \in Team, a \in Agent : AddTeamMember(t, a) \/ RemoveTeamMember(t, a)
    BY <1>3
  <2>1. CASE AddTeamMember(t, a)
    BY <2>1 DEF AddTeamMember, DirectoryTypeOK
  <2>2. CASE RemoveTeamMember(t, a)
    <3>1. member' \in [Team -> [Agent -> {"none", "in", "left"}]]
      BY <2>2 DEF RemoveTeamMember, DirectoryTypeOK
    <3>2. lead' \in [Agent -> {"no", "owed", "excused"}]
      BY <2>2 DEF RemoveTeamMember, DirectoryTypeOK
    <3> QED
      BY <2>2, <3>1, <3>2 DEF RemoveTeamMember, DirectoryTypeOK
  <2> QED
    BY <2>1, <2>2
<1>4. CASE \E a \in Sender, b \in Agent : a # b /\ AddNotifyChannel(a, b)
  BY <1>4 DEF AddNotifyChannel, DirectoryTypeOK
<1>5. CASE \E a \in Sender, role \in {"admin", "lead"} : GrantElevation(a, role)
  <2> PICK a \in Sender, role \in {"admin", "lead"} : GrantElevation(a, role)
    BY <1>5
  <2> DEFINE s == <<role>> \o elevation[a]
  <2>1. a \in Agent /\ elevation[a] \in Seq({"admin", "lead"})
    OBVIOUS
  <2>2. s \in Seq({"admin", "lead"}) /\ Len(s) = 1 + Len(elevation[a])
    <3>1. <<role>> \in Seq({"admin", "lead"}) /\ Len(<<role>>) = 1
      OBVIOUS
    <3> QED
      BY <2>1, <3>1, ConcatProperties
  <2>3. Len(s) <= MaxElevations
    BY <2>1, <2>2, LenProperties DEF GrantElevation
  <2>4. elevation' = [elevation EXCEPT ![a] = s]
    BY DEF GrantElevation
  <2> HIDE DEF s
  <2> QED
    BY <2>1, <2>2, <2>3, <2>4, LongEnough DEF GrantElevation, DirectoryTypeOK
<1>6. CASE \E a \in Sender : \E i \in 1 .. Len(elevation[a]) : EndElevation(a, i)
  <2> PICK a \in Sender : \E i \in 1 .. Len(elevation[a]) : EndElevation(a, i)
    BY <1>6
  <2> PICK i \in 1 .. Len(elevation[a]) : EndElevation(a, i)
    OBVIOUS
  <2> DEFINE s == SubSeq(elevation[a], 1, i - 1)
                    \o SubSeq(elevation[a], i + 1, Len(elevation[a]))
  <2>1. a \in Agent /\ elevation[a] \in Seq({"admin", "lead"})
    OBVIOUS
  <2>2. s \in Seq({"admin", "lead"}) /\ Len(s) = Len(elevation[a]) - 1
    BY <2>1, ElevationEnds
  <2>3. elevation' = [elevation EXCEPT ![a] = s]
    BY DEF EndElevation
  <2> HIDE DEF s
  <2>4. Len(s) <= MaxElevations
    <3>1. Len(elevation[a]) \in Nat /\ Len(elevation[a]) <= MaxElevations
      BY <2>1, LenProperties DEF DirectoryTypeOK
    <3>2. MaxElevations \in Nat
      BY DirectoryAssumption
    <3> HIDE DEF DirectoryTypes
    <3> QED
      BY <3>1, <3>2, <2>2
  <2> QED
    BY <2>1, <2>2, <2>3, <2>4, LongEnough DEF EndElevation, DirectoryTypeOK
<1> QED
  BY <1>1, <1>2, <1>3, <1>4, <1>5, <1>6 DEF Edit

\* the beginning of a send,
LEMMA SendTypes ==
  ASSUME DirectoryTypes, NEW a \in Agent, NEW to \in Agent \cup Team \cup {Everyone},
         HandleSendMessage(a, to)
  PROVE  DirectoryTypes' /\ desk'[a].pc = "teams" /\ desk'[a].at = 1
<1>1. [pc |-> "teams", to |-> to, at |-> 1, blind |-> FALSE] \in Sending
  BY RulesLength DEF Sending
<1>2. /\ desk' \in [Agent -> {AtRest} \cup Registering \cup Sending]
      /\ desk'[a] = [pc |-> "teams", to |-> to, at |-> 1, blind |-> FALSE]
  BY <1>1, DeskGoes DEF HandleSendMessage, DirectoryTypes
<1>3. sent' \in [Agent -> SUBSET Agent]
  BY DEF HandleSendMessage, DirectoryTypeOK, DirectoryTypes
<1> QED
  BY <1>2, <1>3 DEF HandleSendMessage, DirectoryTypeOK, DirectoryTypes

\* its queries,
LEMMA QueryTypes ==
  ASSUME DirectoryTypes, NEW a \in Agent,
         \/ CheckTeams(a) \/ HasTeamsFails(a) \/ CheckRule(a) \/ LookupFails(a)
         \/ InsertChecked(a) \/ ResolveRecipients(a)
  PROVE  DirectoryTypes'
<1> USE DEF DirectoryTypes
<1>1. CASE CheckTeams(a)
  <2>1. desk' \in [Agent -> {AtRest} \cup Registering \cup Sending]
    BY <1>1, CheckTeamsMoves, SenderMoves
  <2> QED
    BY <1>1, <2>1, CheckTeamsGoes DEF DirectoryTypeOK
<1>2. CASE CheckRule(a)
  <2>1. desk' \in [Agent -> {AtRest} \cup Registering \cup Sending]
    BY <1>2, CheckRuleMoves, SenderMoves
  <2> QED
    BY <1>2, <2>1, CheckRuleGoes DEF DirectoryTypeOK
<1>3. CASE InsertChecked(a)
  <2>1. desk[a] \in Sending
    BY <1>3, DeskStates DEF InsertChecked
  <2>2. desk' \in [Agent -> {AtRest} \cup Registering \cup Sending]
    BY <1>3, <2>1, SendingParts, DeskGoes DEF InsertChecked
  <2> QED
    BY <1>3, <2>2 DEF InsertChecked, DirectoryTypeOK
<1>4. CASE ResolveRecipients(a)
  <2>1. desk[a] \in Sending /\ desk[a].to \in Agent \cup Team \cup {Everyone}
    BY <1>4, DeskStates DEF ResolveRecipients
  <2>2. Recipients(a, desk[a].to) \in SUBSET Agent
    BY <2>1 DEF Recipients, Listed, MembersOf
  <2>3. desk' \in [Agent -> {AtRest} \cup Registering \cup Sending]
    BY <1>4, DeskGoes DEF ResolveRecipients
  <2>4. sent' \in [Agent -> SUBSET Agent]
    BY <1>4, <2>2 DEF ResolveRecipients, DirectoryTypeOK
  <2> QED
    BY <1>4, <2>3, <2>4 DEF ResolveRecipients, DirectoryTypeOK
<1>5. CASE HasTeamsFails(a) \/ LookupFails(a)
  <2>1. desk' \in [Agent -> {AtRest} \cup Registering \cup Sending]
    BY <1>5, FailureMoves, SenderMoves
  <2> QED
    BY <1>5, <2>1 DEF HasTeamsFails, LookupFails, DirectoryTypeOK
<1> QED
  BY <1>1, <1>2, <1>3, <1>4, <1>5

\* and a relay that stops.
LEMMA StopTypes ==
  ASSUME DirectoryTypes, NEW A, Stopped(A)
  PROVE  DirectoryTypes'
  BY DEF Stopped, DirectoryTypes, DirectoryTypeOK

\* So every step does.
LEMMA DirectoryStepTypes ==
  ASSUME DirectoryTypes, DirectoryStep
  PROVE  DirectoryTypes'
  BY DirectoryAssumption, RegisterTypes, EditTypes, SendTypes, QueryTypes, StopTypes
     DEF DirectoryStep, CallStep, CallFails, DirectoryStops

\* --- executives ---

\* Who sends does not register.
LEMMA SendingIsNotRegistering ==
  ASSUME DirectoryTypeOK, NEW a \in Agent
  PROVE  /\ desk[a] \in Sending \cup {AtRest} => desk[a] \notin Registering
         /\ [pc |-> "find"] \in Registering
         /\ [pc |-> "join"] \in Registering
  BY DeskStates DEF Registering, Sending, AtRest

\* An executive that registered to the end keeps its seat, unless it is taken away.
LEMMA SeatsKept ==
  ASSUME DirectoryTypes, ExecutivesLead, DirectoryStep
  PROVE  ExecutivesLead'
<1> USE DEF DirectoryTypes
<1>0. ASSUME NEW a \in Agent, NEW d, Goes(a, d), desk[a] \in Sending \cup {AtRest},
             UNCHANGED <<member, lead>>
      PROVE  ExecutivesLead'
  <2>1. lead'[a] = "owed" => a \in MembersOf(Leadership)'
    BY <1>0, SendingIsNotRegistering DEF ExecutivesLead, MembersOf
  <2>2. \A b \in Agent : b # a => desk'[b] = desk[b]
    BY <1>0, DeskGoes
  <2> QED
    BY <1>0, <2>1, <2>2 DEF ExecutivesLead, MembersOf
<1>1. ASSUME NEW a \in Agent, HandleRegisterAgent(a) PROVE ExecutivesLead'
  <2> PICK b \in Boss[a] \cup {Nobody}, executive \in BOOLEAN :
          /\ Goes(a, IF executive THEN [pc |-> "find"] ELSE AtRest)
          /\ lead' = [lead EXCEPT ![a] = IF executive THEN "owed" ELSE "no"]
    BY <1>1 DEF HandleRegisterAgent
  <2>1. /\ desk'[a] = IF executive THEN [pc |-> "find"] ELSE AtRest
        /\ \A c \in Agent : c # a => desk'[c] = desk[c] /\ lead'[c] = lead[c]
        /\ lead'[a] = IF executive THEN "owed" ELSE "no"
    BY DeskGoes DEF DirectoryTypeOK
  <2>2. lead'[a] = "owed" => desk'[a] \in Registering
    BY <2>1, SendingIsNotRegistering
  <2> QED
    BY <1>1, <2>1, <2>2 DEF ExecutivesLead, MembersOf, HandleRegisterAgent
<1>2. ASSUME NEW a \in Agent, FindLeadership(a) PROVE ExecutivesLead'
  <2>1. desk'[a] \in Registering /\ \A c \in Agent : c # a => desk'[c] = desk[c]
    BY <1>2, DeskGoes DEF FindLeadership, Registering
  <2> QED
    BY <1>2, <2>1 DEF ExecutivesLead, MembersOf, FindLeadership
<1>3. ASSUME NEW a \in Agent, CreateLeadership(a) PROVE ExecutivesLead'
  <2>1. /\ desk'[a] \in Registering \/ lead'[a] = "excused"
        /\ \A c \in Agent : c # a => desk'[c] = desk[c] /\ lead'[c] = lead[c]
    BY <1>3, DeskGoes, SendingIsNotRegistering DEF CreateLeadership, DirectoryTypeOK
  <2> QED
    BY <1>3, <2>1 DEF ExecutivesLead, MembersOf, CreateLeadership
<1>4. ASSUME NEW a \in Agent, JoinLeadership(a) PROVE ExecutivesLead'
  <2>1. \A c \in Agent : c # a => desk'[c] = desk[c]
    BY <1>4, DeskGoes DEF JoinLeadership
  <2>2. /\ member'[Leadership][a] = "in"
        /\ \A c \in Agent : c # a => member'[Leadership][c] = member[Leadership][c]
    BY <1>4, DirectoryAssumption DEF JoinLeadership, DirectoryTypeOK
  <2> QED
    BY <1>4, <2>1, <2>2 DEF ExecutivesLead, MembersOf, JoinLeadership
<1>5. ASSUME NEW a \in Agent,
             \/ CheckTeams(a) \/ HasTeamsFails(a) \/ CheckRule(a) \/ LookupFails(a)
             \/ InsertChecked(a) \/ ResolveRecipients(a)
      PROVE  ExecutivesLead'
  <2>1. desk[a].pc \in {"teams", "rule", "insert", "resolve"} /\ UNCHANGED <<member, lead>>
    BY <1>5 DEF CheckTeams, HasTeamsFails, CheckRule, LookupFails, InsertChecked, ResolveRecipients
  <2>2. desk[a] \in Sending
    BY <2>1, DeskStates
  <2>3. PICK d : Goes(a, d)
    <3>1. CASE CheckTeams(a)
      BY <3>1, CheckTeamsMoves
    <3>2. CASE CheckRule(a)
      BY <3>2, CheckRuleMoves
    <3>3. CASE InsertChecked(a)
      BY <3>3 DEF InsertChecked
    <3>4. CASE ResolveRecipients(a)
      BY <3>4 DEF ResolveRecipients
    <3>5. CASE HasTeamsFails(a) \/ LookupFails(a)
      BY <3>5, FailureMoves
    <3> QED
      BY <1>5, <3>1, <3>2, <3>3, <3>4, <3>5
  <2> QED
    BY <1>0, <2>1, <2>2, <2>3
<1>6. ASSUME NEW a \in Sender, NEW to \in Agent \cup Team \cup {Everyone},
             HandleSendMessage(a, to)
      PROVE  ExecutivesLead'
  BY <1>0, <1>6, DirectoryAssumption DEF HandleSendMessage
<1>7. ASSUME NEW A, Stopped(A) PROVE ExecutivesLead'
  BY <1>7, SendingIsNotRegistering DEF Stopped, ExecutivesLead, MembersOf
<1>8. CASE Edit
  <2>1. desk' = desk
    BY <1>8, EditTypes
  <2>2. \/ UNCHANGED <<member, lead>>
        \/ \E t \in Team, a \in Agent : AddTeamMember(t, a) \/ RemoveTeamMember(t, a)
    BY <1>8 DEF Edit, SleepAgent, DeactivateAgent, MarkStaleAgentsInactive, DeleteAgent,
                SetStatus, CreateTeam, AddNotifyChannel, GrantElevation, EndElevation
  <2>3. ASSUME NEW t \in Team, NEW a \in Agent, AddTeamMember(t, a) PROVE ExecutivesLead'
    BY <2>1, <2>3, DirectoryAssumption
       DEF AddTeamMember, DirectoryTypeOK, ExecutivesLead, MembersOf
  <2>4. ASSUME NEW t \in Team, NEW a \in Agent, RemoveTeamMember(t, a) PROVE ExecutivesLead'
    <3>1. \A c \in Agent : /\ c # a => lead'[c] = lead[c]
                           /\ t # Leadership \/ c # a =>
                                member'[Leadership][c] = member[Leadership][c]
      BY <2>4, DirectoryAssumption DEF RemoveTeamMember, DirectoryTypeOK
    <3>2. lead'[a] = IF t = Leadership /\ lead[a] = "owed" THEN "excused" ELSE lead[a]
      BY <2>4 DEF RemoveTeamMember, DirectoryTypeOK
    <3> QED
      BY <2>1, <3>1, <3>2 DEF ExecutivesLead, MembersOf
  <2> QED
    BY <2>1, <2>2, <2>3, <2>4 DEF ExecutivesLead, MembersOf
<1> QED
  BY <1>1, <1>2, <1>3, <1>4, <1>5, <1>6, <1>7, <1>8
     DEF DirectoryStep, CallStep, CallFails, DirectoryStops

\* --- the permission check ---

\* What is watched is caught between what held all along and what ever held.
LEMMA WatchSandwiches ==
  ASSUME DirectoryNext, NEW a \in Agent
  PROVE  Sandwiched(a)'
<1>1. /\ held'[a] = Watch(a, held[a] \cap Readable(a)')
      /\ seen'[a] = Watch(a, seen[a] \cup Findable(a)')
  BY DEF DirectoryNext
<1>2. desk'[a].pc \notin {"teams", "rule", "resolve"} => Findable(a)' = {}
  BY DEF Findable
<1>3. Readable(a)' \subseteq Findable(a)'
  BY DEF Readable
<1> QED
  BY <1>1, <1>2, <1>3 DEF Watch, Sandwiched

\* How the call of one sender may be elsewhere after a step.
LEMMA SenderSteps ==
  ASSUME DirectoryTypes, DirectoryStep, NEW a \in Agent
  PROVE  \/ desk'[a] = desk[a]
         \/ CheckTeams(a) \/ HasTeamsFails(a)
         \/ CheckRule(a) \/ LookupFails(a)
         \/ desk'[a].pc = "teams" /\ desk'[a].at = 1
         \/ desk'[a].pc \notin {"teams", "rule", "insert"}
<1> USE DEF DirectoryTypes
<1>0. AtRest.pc = "idle"
  BY DEF AtRest
<1>1. ASSUME NEW b \in Agent, HandleRegisterAgent(b) \/ FindLeadership(b) \/ CreateLeadership(b)
                                \/ JoinLeadership(b)
      PROVE  desk'[a] = desk[a] \/ desk'[a].pc \in {"idle", "find", "create", "join"}
  <2>1. \E pc \in {"idle", "find", "create", "join"} : Goes(b, [pc |-> pc])
    BY <1>1 DEF HandleRegisterAgent, FindLeadership, CreateLeadership, JoinLeadership, AtRest
  <2> QED
    BY <2>1, DeskGoes
<1>2. ASSUME NEW b \in Agent, CheckTeams(b)
      PROVE  desk'[a] = desk[a] \/ CheckTeams(a)
  BY <1>2, CheckTeamsMoves, DeskGoes
<1>3. ASSUME NEW b \in Agent, CheckRule(b)
      PROVE  desk'[a] = desk[a] \/ CheckRule(a)
  BY <1>3, CheckRuleMoves, DeskGoes
<1>4. ASSUME NEW b \in Agent, InsertChecked(b)
      PROVE  desk'[a] = desk[a] \/ desk'[a].pc = "resolve"
  <2>1. desk[b] \in Sending
    BY <1>4, DeskStates DEF InsertChecked
  <2>2. [desk[b] EXCEPT !.pc = "resolve", !.blind = FALSE].pc = "resolve"
    BY <2>1, SendingParts
  <2> QED
    BY <1>4, <2>2, DeskGoes DEF InsertChecked
<1>5. ASSUME NEW b \in Agent, ResolveRecipients(b)
      PROVE  desk'[a] = desk[a] \/ desk'[a].pc = "idle"
  BY <1>0, <1>5, DeskGoes DEF ResolveRecipients
<1>6. ASSUME NEW b \in Sender, NEW to \in Agent \cup Team \cup {Everyone},
             HandleSendMessage(b, to)
      PROVE  desk'[a] = desk[a] \/ (desk'[a].pc = "teams" /\ desk'[a].at = 1)
  BY <1>6, SendTypes, DeskGoes, DirectoryAssumption DEF HandleSendMessage
<1>7. ASSUME NEW A, Stopped(A) PROVE desk'[a] = desk[a] \/ desk'[a].pc = "idle"
  BY <1>0, <1>7 DEF Stopped
<1>8. CASE Edit
  BY <1>8, EditTypes
<1>9. ASSUME NEW b \in Agent, HasTeamsFails(b)
      PROVE  desk'[a] = desk[a] \/ HasTeamsFails(a)
  BY <1>9, DeskGoes DEF HasTeamsFails
<1>10. ASSUME NEW b \in Agent, LookupFails(b)
       PROVE  desk'[a] = desk[a] \/ LookupFails(a)
  BY <1>10, FailureMoves, DeskGoes
<1> QED
  BY <1>1, <1>2, <1>3, <1>4, <1>5, <1>6, <1>7, <1>8, <1>9, <1>10
     DEF DirectoryStep, CallStep, CallFails, DirectoryStops

\* What the next step of a send tells of the teams that there are,
LEMMA CheckTeamsParts ==
  ASSUME DirectoryTypeOK, NEW a \in Agent, CheckTeams(a)
  PROVE  \/ desk'[a].pc = "idle"
         \/ desk'[a].pc = "insert" /\ (desk[a].to \in Team \/ ~HasTeams)
         \/ /\ desk'[a].pc = "rule" /\ desk'[a].to = desk[a].to /\ desk'[a].at = desk[a].at
            /\ desk[a].to \notin Team /\ HasTeams
<1> DEFINE inserting == [desk[a] EXCEPT !.pc = "insert"]
           ruling == [desk[a] EXCEPT !.pc = "rule"]
<1>0. AtRest.pc = "idle"
  BY DEF AtRest
<1>1. desk[a] \in Sending
  BY CheckTeamsGoes
<1>2. /\ inserting.pc = "insert"
      /\ ruling.pc = "rule" /\ ruling.to = desk[a].to /\ ruling.at = desk[a].at
  BY <1>1, SendingParts
<1>3. \/ Goes(a, AtRest)
      \/ Goes(a, inserting) /\ (desk[a].to \in Team \/ ~HasTeams)
      \/ Goes(a, ruling) /\ desk[a].to \notin Team /\ HasTeams
  BY CheckTeamsGoes
<1> HIDE DEF inserting, ruling
<1> QED
  BY <1>0, <1>2, <1>3, DeskGoes

\* of the rule that was checked,
LEMMA CheckRuleParts ==
  ASSUME DirectoryTypeOK, NEW a \in Agent, CheckRule(a)
  PROVE  \/ desk'[a].pc = "insert" /\ Holds(Rules[desk[a].at], a, desk[a].to)
         \/ /\ desk'[a].pc = "rule" /\ desk'[a].to = desk[a].to
            /\ desk'[a].at = desk[a].at + 1
            /\ desk[a].to # Everyone /\ ~Holds(Rules[desk[a].at], a, desk[a].to)
         \/ /\ desk'[a].pc = "idle"
            /\ desk[a].to = Everyone \/ desk[a].at = Len(Rules)
            /\ ~Holds(Rules[desk[a].at], a, desk[a].to)
<1> DEFINE inserting == [desk[a] EXCEPT !.pc = "insert", !.blind = FALSE]
           onward == [desk[a] EXCEPT !.at = @ + 1, !.blind = FALSE]
           holds == Holds(Rules[desk[a].at], a, desk[a].to)
<1>0. AtRest.pc = "idle"
  BY DEF AtRest
<1>1. desk[a] \in Sending /\ desk[a].pc = "rule"
  BY CheckRuleGoes
<1>2. /\ inserting.pc = "insert"
      /\ desk[a].at < Len(Rules) =>
           onward.pc = "rule" /\ onward.to = desk[a].to /\ onward.at = desk[a].at + 1
  BY <1>1, SendingParts
<1>3. \/ Goes(a, inserting) /\ holds
      \/ /\ Goes(a, onward) /\ desk[a].at < Len(Rules)
         /\ desk[a].to # Everyone /\ ~holds
      \/ /\ Goes(a, AtRest) /\ (desk[a].to = Everyone \/ desk[a].at = Len(Rules))
         /\ ~holds
  BY CheckRuleGoes
<1> HIDE DEF inserting, onward, holds
<1>4. CASE Goes(a, inserting) /\ holds
  BY <1>2, <1>4, DeskGoes DEF holds
<1>5. CASE Goes(a, onward) /\ desk[a].at < Len(Rules) /\ desk[a].to # Everyone /\ ~holds
  BY <1>2, <1>5, DeskGoes DEF holds
<1>6. CASE Goes(a, AtRest) /\ (desk[a].to = Everyone \/ desk[a].at = Len(Rules)) /\ ~holds
  BY <1>0, <1>6, DeskGoes DEF holds
<1> QED
  BY <1>3, <1>4, <1>5, <1>6

\* and of the query that failed.
LEMMA FailureParts ==
  ASSUME DirectoryTypeOK, NEW a \in Agent
  PROVE  /\ HasTeamsFails(a) => desk'[a].pc = "insert" /\ desk'[a].blind
         /\ LookupFails(a) =>
              \/ /\ desk'[a].pc = "rule" /\ desk'[a].to = desk[a].to
                 /\ desk'[a].at = desk[a].at + 1 /\ desk'[a].blind
                 /\ desk[a].to # Everyone
              \/ /\ desk'[a].pc = "idle"
                 /\ desk[a].to = Everyone \/ desk[a].at = Len(Rules)
<1>1. ASSUME HasTeamsFails(a) PROVE desk'[a].pc = "insert" /\ desk'[a].blind
  <2> DEFINE inserting == [desk[a] EXCEPT !.pc = "insert", !.blind = TRUE]
  <2>1. desk[a] \in Sending
    BY <1>1, DeskStates DEF HasTeamsFails
  <2>2. inserting.pc = "insert" /\ inserting.blind = TRUE
    BY <2>1, SendingParts
  <2>3. desk'[a] = inserting
    BY <1>1, DeskGoes DEF HasTeamsFails
  <2> HIDE DEF inserting
  <2> QED
    BY <2>2, <2>3
<1>2. ASSUME LookupFails(a)
      PROVE  \/ /\ desk'[a].pc = "rule" /\ desk'[a].to = desk[a].to
                /\ desk'[a].at = desk[a].at + 1 /\ desk'[a].blind
                /\ desk[a].to # Everyone
             \/ /\ desk'[a].pc = "idle"
                /\ desk[a].to = Everyone \/ desk[a].at = Len(Rules)
  <2> DEFINE onward == [desk[a] EXCEPT !.at = @ + 1, !.blind = TRUE]
  <2>1. desk[a] \in Sending /\ desk[a].pc = "rule"
    BY <1>2, LookupFailsGoes
  <2>2. /\ onward.pc = "rule" /\ onward.to = desk[a].to /\ onward.at = desk[a].at + 1
        /\ onward.blind = TRUE
    BY <2>1, SendingParts
  <2>3. \/ desk'[a] = onward /\ desk[a].to # Everyone
        \/ desk'[a] = AtRest /\ (desk[a].to = Everyone \/ desk[a].at = Len(Rules))
    BY <1>2, LookupFailsGoes, DeskGoes
  <2>4. AtRest.pc = "idle"
    BY DEF AtRest
  <2> HIDE DEF onward
  <2> QED
    BY <2>2, <2>3, <2>4
<1> QED
  BY <1>1, <1>2

\* The rules that can be found are rules, and each of them holds.
LEMMA RuleNames ==
  \A i \in 1 .. Len(Rules) : Rules[i] # "no teams" /\ (Rules[i] = "admin" <=> i = 1)
<1>1. /\ Rules[1] = "admin" /\ Rules[2] = "team" /\ Rules[3] = "reports"
      /\ Rules[4] = "notify" /\ Rules[5] = "elevated"
  BY DEF Rules
<1>2. \A i \in 1 .. Len(Rules) : i = 1 \/ i = 2 \/ i = 3 \/ i = 4 \/ i = 5
  BY RulesLength
<1> QED
  BY <1>1, <1>2

\* The rules that can be found are rules, and each of them holds.
LEMMA FoundRules ==
  ASSUME NEW a \in Agent, desk[a].pc \in {"teams", "rule"}, desk[a].to \notin Team
  PROVE  /\ \A r \in Findable(a) : \/ r = "no teams" /\ ~HasTeams
                                   \/ r \in RulesFor(desk[a].to) /\ Holds(r, a, desk[a].to)
         /\ \A r \in RulesFor(desk[a].to) :
              /\ Holds(r, a, desk[a].to) => r \in Findable(a)
              /\ \E i \in 1 .. Len(Rules) : r = Rules[i] /\ (desk[a].to = Everyone => i = 1)
         /\ ~HasTeams => "no teams" \in Findable(a)
         /\ \A i \in 1 .. Len(Rules) :
              /\ Rules[i] # "no teams"
              /\ desk[a].to = Everyone => (Rules[i] \in RulesFor(desk[a].to) <=> i = 1)
              /\ desk[a].to # Everyone => Rules[i] \in RulesFor(desk[a].to)
<1>1. Findable(a) = (IF HasTeams THEN {} ELSE {"no teams"})
                      \cup {r \in RulesFor(desk[a].to) : Holds(r, a, desk[a].to)}
  BY DEF Findable
<1>2. \A i \in 1 .. Len(Rules) : Rules[i] # "no teams" /\ (Rules[i] = "admin" <=> i = 1)
  BY RuleNames
<1>3. 1 \in 1 .. Len(Rules)
  BY RulesLength
<1> QED
  BY <1>1, <1>2, <1>3 DEF RulesFor

\* A rule that held all along is still among those to be checked.
LEMMA RuleKeptOn ==
  ASSUME DirectoryInv, DirectoryNext, NEW a \in Agent
  PROVE  RuleKept(a)'
<1> DEFINE d == desk[a]
<1>0. /\ DirectoryTypes /\ RuleKept(a) /\ DirectoryStep /\ Sandwiched(a)'
      /\ DirectoryTypeOK
  BY WatchSandwiches DEF DirectoryInv, DirectoryTypes, DirectoryNext
<1>1. ASSUME desk'[a].pc = "rule"
      PROVE  /\ held'[a] = held[a] \cap Readable(a)'
             /\ Readable(a)' \subseteq Findable(a)'
  BY <1>1 DEF DirectoryNext, Watch, Readable
<1>2. CASE desk'[a] = desk[a]
  BY <1>0, <1>1, <1>2 DEF RuleKept
<1>3. CASE CheckTeams(a)
  <2>0. d.pc = "teams" /\ d.at = 1 /\ UNCHANGED <<agent, team, member, channel, elevation>>
    BY <1>0, <1>3, CheckTeamsGoes DEF RuleKept
  <2>1. desk'[a].pc # "teams"
    BY <1>0, <1>3, CheckTeamsParts
  <2>2. ASSUME desk'[a].pc = "rule"
        PROVE  /\ desk'[a].to \notin Team /\ desk'[a].at = 1
               /\ \A r \in held'[a] : \E i \in 1 .. Len(Rules) : r = Rules[i]
    <3>1. desk'[a].to \notin Team /\ desk'[a].at = 1 /\ HasTeams
      BY <1>0, <1>3, <2>0, <2>2, CheckTeamsParts
    <3>2. Findable(a)' \subseteq RulesFor(desk[a].to)'
      <4>1. HasTeams'
        BY <2>0, <3>1 DEF HasTeams, Teams
      <4> QED
        BY <2>2, <3>1, <4>1 DEF Findable
    <3>3. RulesFor(desk[a].to)' \subseteq {Rules[i] : i \in 1 .. Len(Rules)}
      <4>1. Rules[1] = "admin" /\ 1 \in 1 .. Len(Rules)
        BY RulesLength DEF Rules
      <4> QED
        BY <4>1 DEF RulesFor
    <3> QED
      BY <1>0, <3>1, <3>2, <3>3 DEF Sandwiched
  <2> QED
    BY <2>1, <2>2 DEF RuleKept
<1>4. CASE CheckRule(a)
  <2>0. d.pc = "rule" /\ UNCHANGED <<agent, team, member, channel, elevation>>
    BY <1>0, <1>4, CheckRuleGoes
  <2>1. desk'[a].pc # "teams"
    BY <1>0, <1>4, CheckRuleParts
  <2>2. ASSUME desk'[a].pc = "rule"
        PROVE  /\ desk'[a].to \notin Team /\ desk'[a].to # Everyone
               /\ \A r \in held'[a] : \E i \in desk'[a].at .. Len(Rules) : r = Rules[i]
    <3>1. /\ desk'[a].to = d.to /\ desk'[a].at = d.at + 1
          /\ d.to # Everyone /\ ~Holds(Rules[d.at], a, d.to)
      BY <1>0, <1>4, <2>2, CheckRuleParts
    <3>2. d.to \notin Team /\ \A r \in held[a] : \E i \in d.at .. Len(Rules) : r = Rules[i]
      BY <1>0, <2>0 DEF RuleKept
    <3>3. d.at \in Nat /\ Len(Rules) \in Nat
      BY <1>0, <2>0, DeskStates, RulesLength
    <3>4. ASSUME NEW r \in held'[a]
          PROVE  \E i \in desk'[a].at .. Len(Rules) : r = Rules[i]
      <4>1. r \in held[a] /\ r \in Findable(a)'
        BY <1>1, <2>2, <3>4
      <4>2. PICK i \in d.at .. Len(Rules) : r = Rules[i]
        BY <3>2, <4>1
      <4>3. r # "no teams"
        <5>1. i \in 1 .. Len(Rules)
          BY <1>0, <2>0, <3>3, <4>2, DeskStates
        <5> QED
          BY <4>2, <5>1, RuleNames
      <4>4. Holds(r, a, desk[a].to)'
        BY <2>2, <3>1, <3>2, <4>1, <4>3 DEF Findable
      <4>5. Holds(r, a, d.to)
        <5>1. Holds(r, a, d.to) <=> Holds(r, a, desk[a].to)'
          BY <2>0, <3>1 DEF Holds, Teams, MembersOf, ChannelsOf, Elevated
        <5> QED
          BY <4>4, <5>1
      <4>6. i # d.at
        BY <3>1, <4>2, <4>5
      <4> QED
        BY <3>1, <3>3, <4>2, <4>6
    <3> QED
      BY <3>1, <3>2, <3>4
  <2> QED
    BY <2>1, <2>2 DEF RuleKept
<1>5. CASE (desk'[a].pc = "teams" /\ desk'[a].at = 1) \/ desk'[a].pc \notin {"teams", "rule", "insert"}
  BY <1>5 DEF RuleKept
<1>6. CASE HasTeamsFails(a)
  BY <1>0, <1>6, FailureParts DEF RuleKept
<1>7. CASE LookupFails(a)
  <2>0. d.pc = "rule" /\ d \in Sending
    BY <1>0, <1>7, LookupFailsGoes
  <2>1. desk'[a].pc # "teams"
    BY <1>0, <1>7, FailureParts
  <2>2. ASSUME desk'[a].pc = "rule"
        PROVE  /\ desk'[a].to \notin Team /\ desk'[a].to # Everyone
               /\ \A r \in held'[a] : \E i \in desk'[a].at .. Len(Rules) : r = Rules[i]
    <3>1. /\ desk'[a].to = d.to /\ desk'[a].at = d.at + 1 /\ desk'[a].blind
          /\ d.to # Everyone
      BY <1>0, <1>7, <2>2, FailureParts
    <3>2. d.to \notin Team /\ \A r \in held[a] : \E i \in d.at .. Len(Rules) : r = Rules[i]
      BY <1>0, <2>0 DEF RuleKept
    <3>3. d.at \in Nat /\ Len(Rules) \in Nat
      BY <1>0, <2>0, DeskStates, RulesLength
    <3>4. Rules[d.at] \notin Readable(a)'
      <4>1. desk'[a].at - 1 = d.at
        BY <3>1, <3>3
      <4> QED
        BY <2>2, <3>1, <4>1 DEF Readable
    <3>5. ASSUME NEW r \in held'[a]
          PROVE  \E i \in desk'[a].at .. Len(Rules) : r = Rules[i]
      <4>1. r \in held[a] /\ r # Rules[d.at]
        BY <1>1, <2>2, <3>4, <3>5
      <4>2. PICK i \in d.at .. Len(Rules) : r = Rules[i]
        BY <3>2, <4>1
      <4> QED
        BY <3>1, <3>3, <4>1, <4>2
    <3> QED
      BY <3>1, <3>2, <3>5
  <2> QED
    BY <2>1, <2>2 DEF RuleKept
<1> QED
  BY <1>0, <1>2, <1>3, <1>4, <1>5, <1>6, <1>7, SenderSteps

\* The first states satisfy it,
LEMMA DirectoryInitially ==
  ASSUME DirectoryInit
  PROVE  DirectoryInv
<1>1. elevation \in [Agent -> Seq({"admin", "lead"})]
  BY EmptySeq DEF DirectoryInit
<1>2. \A a \in Agent : elevation[a] \in Seq({"admin", "lead"}) /\ Len(elevation[a]) <= MaxElevations
  <2>1. <<>> \in Seq({"admin", "lead"}) /\ Len(<<>>) = 0
    BY EmptySeq
  <2>2. 0 <= MaxElevations
    BY DirectoryAssumption
  <2>3. \A a \in Agent : elevation[a] = <<>>
    BY DEF DirectoryInit
  <2>4. Len(<<>>) <= MaxElevations
    BY <2>1, <2>2
  <2> QED
    BY <2>1, <2>3, <2>4, Zenon
<1>3. DirectoryTypeOK
  BY <1>2 DEF DirectoryInit, DirectoryTypeOK
<1>4. \A a \in Agent : desk[a].pc = "idle"
  BY DEF DirectoryInit, AtRest
<1>5. \A a \in Agent : Findable(a) = {}
  BY <1>4 DEF Findable
<1> QED
  BY <1>1, <1>3, <1>4, <1>5 DEF DirectoryInit, DirectoryInv, ExecutivesLead, RuleKept, Sandwiched

\* a step of nothing keeps what can be found,
LEMMA NothingFound ==
  ASSUME UNCHANGED directoryVars, NEW a \in Agent, Sandwiched(a)
  PROVE  Sandwiched(a)'
<1>1. Findable(a)' = Findable(a)
  BY DEF directoryVars, Findable, Recipients, Listed, MembersOf, HasTeams, Teams, Holds, ChannelsOf,
         Elevated, Readable
<1> QED
  BY <1>1 DEF directoryVars, Sandwiched

\* and every step keeps it.
LEMMA DirectoryInductive ==
  ASSUME DirectoryInv, [DirectoryNext]_directoryVars
  PROVE  DirectoryInv'
<1>1. CASE DirectoryNext
  <2>1. DirectoryTypes'
    BY <1>1, DirectoryStepTypes DEF DirectoryInv, DirectoryTypes, DirectoryNext
  <2>2. ExecutivesLead'
    BY <1>1, SeatsKept DEF DirectoryInv, DirectoryTypes, DirectoryNext
  <2> QED
    BY <1>1, <2>1, <2>2, WatchSandwiches, RuleKeptOn DEF DirectoryInv, DirectoryTypes
<1>2. CASE UNCHANGED directoryVars
  <2> USE <1>2 DEF directoryVars, DirectoryInv
  <2>1. DirectoryTypeOK' /\ (elevation \in [Agent -> Seq({"admin", "lead"})])'
    BY DEF DirectoryTypeOK
  <2>2. ExecutivesLead'
    BY DEF ExecutivesLead, MembersOf
  <2>3. ASSUME NEW a \in Agent PROVE RuleKept(a)'
    BY DEF RuleKept
  <2>4. ASSUME NEW a \in Agent PROVE Sandwiched(a)'
    BY <1>2, <2>4, NothingFound DEF DirectoryInv
  <2> QED
    BY <2>1, <2>2, <2>3, <2>4
<1> QED
  BY <1>1, <1>2

\* Agents, teams, members, channels, elevations and calls keep their shape.
THEOREM DirectoryTypeCorrect == DirectorySpec => []DirectoryTypeOK
<1>1. DirectoryInv => DirectoryTypeOK
  BY DEF DirectoryInv
<1> QED
  BY <1>1, DirectoryInitially, DirectoryInductive, PTL DEF DirectorySpec

\* An executive whose registration ended sits in the leadership team, but for one that
\* found the team created by another meanwhile, whose call failed or was cut off, or that
\* was taken out later (HandleRegisterAgent, handlers.go:185).
THEOREM ExecutivesSeated == DirectorySpec => []ExecutivesLead
<1>1. DirectoryInv => ExecutivesLead
  BY DEF DirectoryInv
<1> QED
  BY <1>1, DirectoryInitially, DirectoryInductive, PTL DEF DirectorySpec

\* What a send was judged by, and whom it reached.
LEMMA SendJudged ==
  ASSUME DirectoryInv, [DirectoryNext]_directoryVars
  PROVE  [\A a \in Sender :
           /\ CheckRule(a) /\ desk'[a] = AtRest => held[a] = {}
           /\ LookupFails(a) /\ desk'[a] = AtRest => held[a] \subseteq {Rules[desk[a].at]}
           /\ /\ desk[a].pc \in {"teams", "rule"} /\ desk[a].to \notin Team
              /\ desk'[a].pc = "insert" /\ ~desk'[a].blind
              => seen[a] # {}
           /\ ResolveRecipients(a) => held[a] \subseteq sent'[a] /\ sent'[a] \subseteq seen[a]
         ]_directoryVars
<1> SUFFICES ASSUME DirectoryNext, NEW a \in Sender
             PROVE  /\ CheckRule(a) /\ desk'[a] = AtRest => held[a] = {}
                    /\ LookupFails(a) /\ desk'[a] = AtRest => held[a] \subseteq {Rules[desk[a].at]}
                    /\ /\ desk[a].pc \in {"teams", "rule"} /\ desk[a].to \notin Team
                       /\ desk'[a].pc = "insert" /\ ~desk'[a].blind
                       => seen[a] # {}
                    /\ ResolveRecipients(a) => held[a] \subseteq sent'[a] /\ sent'[a] \subseteq seen[a]
  OBVIOUS
<1> DEFINE d == desk[a]
<1>0. /\ a \in Agent /\ DirectoryTypes /\ DirectoryTypeOK /\ DirectoryStep
      /\ RuleKept(a) /\ Sandwiched(a)
  BY DirectoryAssumption DEF DirectoryInv, DirectoryTypes, DirectoryNext
<1>1. ASSUME CheckRule(a) \/ LookupFails(a), desk'[a] = AtRest
      PROVE  /\ held[a] \subseteq {Rules[d.at]}
             /\ CheckRule(a) => held[a] = {}
  <2>0. d.pc = "rule" /\ d.to \notin Team /\ d.at \in 1 .. Len(Rules) /\ desk'[a].pc = "idle"
    <3>1. d.pc = "rule" /\ d \in Sending
      BY <1>0, <1>1, CheckRuleGoes, LookupFailsGoes
    <3>2. d.at \in 1 .. Len(Rules)
      BY <1>0, <3>1, DeskStates
    <3>3. d.to \notin Team
      BY <1>0, <3>1 DEF RuleKept
    <3> QED
      BY <1>1, <3>1, <3>2, <3>3 DEF AtRest
  <2>1. /\ d.to = Everyone \/ d.at = Len(Rules)
        /\ CheckRule(a) => ~Holds(Rules[d.at], a, d.to)
    BY <1>0, <1>1, <2>0, CheckRuleParts, FailureParts
  <2>2. ASSUME NEW r \in held[a]
        PROVE  r = Rules[d.at] /\ Holds(Rules[d.at], a, d.to)
    <3>1. PICK i \in d.at .. Len(Rules) : r = Rules[i]
      BY <1>0, <2>0 DEF RuleKept
    <3>2. i \in 1 .. Len(Rules)
      BY <2>0, <3>1, RulesLength
    <3>3. r \in Findable(a)
      BY <1>0 DEF Sandwiched
    <3>4. r \in RulesFor(d.to) /\ Holds(r, a, d.to)
      BY <1>0, <2>0, <3>1, <3>2, <3>3, FoundRules
    <3>5. CASE d.to = Everyone
      <4>1. i = 1 /\ d.at = 1
        BY <1>0, <2>0, <3>1, <3>2, <3>4, <3>5, FoundRules DEF RuleKept
      <4> QED
        BY <3>1, <3>4, <4>1
    <3>6. CASE d.at = Len(Rules)
      <4>1. i = d.at
        BY <2>0, <3>1, <3>6, RulesLength
      <4> QED
        BY <3>1, <3>4, <4>1
    <3> QED
      BY <2>1, <3>5, <3>6
  <2> QED
    BY <2>1, <2>2
<1>2. ASSUME d.pc \in {"teams", "rule"}, d.to \notin Team, desk'[a].pc = "insert",
             ~desk'[a].blind
      PROVE  seen[a] # {}
  <2>1. CheckTeams(a) \/ CheckRule(a)
    BY <1>0, <1>2, SenderSteps, FailureParts
  <2>2. CASE CheckTeams(a)
    <3>1. ~HasTeams
      BY <1>0, <1>2, <2>2, CheckTeamsParts
    <3> QED
      BY <1>0, <1>2, <3>1, FoundRules DEF Sandwiched
  <2>3. CASE CheckRule(a)
    <3>1. d.pc = "rule" /\ d.at \in 1 .. Len(Rules)
      BY <1>0, <2>3, CheckRuleGoes, DeskStates
    <3>2. Holds(Rules[d.at], a, d.to)
      BY <1>0, <1>2, <2>3, CheckRuleParts
    <3>3. Rules[d.at] \in RulesFor(d.to)
      BY <1>0, <1>2, <3>1, FoundRules DEF RuleKept
    <3> QED
      BY <1>0, <1>2, <3>2, <3>3, FoundRules DEF Sandwiched
  <2> QED
    BY <2>1, <2>2, <2>3
<1>3. ASSUME ResolveRecipients(a)
      PROVE  held[a] \subseteq sent'[a] /\ sent'[a] \subseteq seen[a]
  <2>1. d.pc = "resolve" /\ sent'[a] = Recipients(a, d.to)
    BY <1>0, <1>3 DEF ResolveRecipients, DirectoryTypeOK
  <2>2. Findable(a) = Recipients(a, d.to)
    BY <2>1 DEF Findable
  <2> QED
    BY <1>0, <2>1, <2>2 DEF Sandwiched
<1> QED
  BY <1>1, <1>2, <1>3

\* A message is refused only when no rule whose query answered held throughout the checks,
\* and let through only when one held at some time of them, or the query for teams failed;
\* and it reaches whom it should and nobody else, although each rule is a query of its own
\* (CanMessage, orgs.go:354).
THEOREM SendersJudgedFairly == DirectorySpec => SendFair
  BY DirectoryInitially, DirectoryInductive, SendJudged, PTL DEF DirectorySpec, SendFair

------------------------------------------------------------------------------
(* Conversations. *)

\* The messages of c before i that can be read.
Before(c, i) == {j \in Stored(c) : j < i}

\* What a reader of the first page never gets to see.
Beyond(c, i) == Cardinality(Before(c, i)) >= Page

\* Between the fetch and the mark of a, every message is its own, on the page, missed
\* or beyond the page.
Fetched(a) ==
    chat[a].pc = "mark" =>
        LET c == chat[a].conv IN
        \A i \in DOMAIN said[c] : \/ said[c][i].from = a
                                  \/ i \in chat[a].page
                                  \/ <<a, c, i>> \in missed
                                  \/ Beyond(c, i)

\* Whatever a has read, stored or not, is accounted for.
Accounted(a, c) ==
    \A i \in DOMAIN said[c] :
        a \in said[c][i].read => \/ said[c][i].from = a
                                 \/ <<a, c, i>> \in shown \cup told \cup missed
                                 \/ Beyond(c, i)

\* The shape of the tables; who stores a message has taken its place in the conversation.
ConversationTypes ==
    /\ ConversationTypeOK
    /\ said \in [Conv -> Seq(Message)]
    /\ \A a \in Talker : chat[a].pc = "store" => chat[a].at \in DOMAIN said[chat[a].conv]

\* What is inductive: what a reader fetched accounts for the messages up to then, and
\* what is marked as read was shown, told or missed.
ConversationInv ==
    /\ ConversationTypes
    /\ \A a \in Talker : Fetched(a) /\ \A c \in Conv : Accounted(a, c)

\* --- the shape of calls and messages ---

\* Who is silent is in no call.
LEMMA SilentIdle == Silent.pc = "idle"
  BY DEF Silent

\* What a call knows at each of its steps.
LEMMA TalkStates ==
  ASSUME ConversationTypeOK, NEW a \in Talker
  PROVE  /\ chat[a] = Silent => chat[a].pc = "idle"
         /\ chat[a].pc # "idle" => chat[a] \in Talking /\ chat[a].conv \in Conv
         /\ chat[a].pc = "store" => chat[a].at \in 1 .. MaxMessages
         /\ chat[a].pc = "mark" => chat[a].page \in SUBSET (1 .. MaxMessages)
         /\ chat[a].pc \in {"may invite", "rejoin", "insert"} =>
              chat[a].whom \in Talker
                /\ chat[a] \in [pc : {"may invite", "rejoin", "insert"}, conv : Conv, whom : Talker]
         /\ chat[a].pc \in {"may send", "stamp", "may read", "fetch", "may leave", "leave"} =>
              chat[a] \in [pc : {"may send", "stamp", "may read", "fetch", "may leave", "leave"},
                           conv : Conv]
<1> DEFINE Checked == [pc : {"may send", "stamp", "may read", "fetch", "may leave", "leave"},
                       conv : Conv]
           Storing == [pc : {"store"}, conv : Conv, at : 1 .. MaxMessages]
           Marking == [pc : {"mark"}, conv : Conv, page : SUBSET (1 .. MaxMessages)]
           Inviting == [pc : {"may invite", "rejoin", "insert"}, conv : Conv, whom : Talker]
<1>1. chat[a] = Silent \/ chat[a] \in Talking
  BY DEF ConversationTypeOK
<1>2. Silent.pc = "idle"
  BY DEF Silent
<1>3. chat[a] \in Talking => \/ chat[a] \in Checked \/ chat[a] \in Storing
                              \/ chat[a] \in Marking \/ chat[a] \in Inviting
  BY DEF Talking
<1>4. chat[a] \in Checked =>
        /\ chat[a].pc \in {"may send", "stamp", "may read", "fetch", "may leave", "leave"}
        /\ chat[a].conv \in Conv
  OBVIOUS
<1>5. chat[a] \in Storing =>
        chat[a].pc = "store" /\ chat[a].conv \in Conv /\ chat[a].at \in 1 .. MaxMessages
  OBVIOUS
<1>6. chat[a] \in Marking =>
        chat[a].pc = "mark" /\ chat[a].conv \in Conv /\ chat[a].page \in SUBSET (1 .. MaxMessages)
  OBVIOUS
<1>7. chat[a] \in Inviting =>
        /\ chat[a].pc \in {"may invite", "rejoin", "insert"}
        /\ chat[a].conv \in Conv /\ chat[a].whom \in Talker
  OBVIOUS
<1> HIDE DEF Checked, Storing, Marking, Inviting
<1>8. /\ chat[a] = Silent => chat[a].pc = "idle"
      /\ chat[a].pc # "idle" => chat[a] \in Talking /\ chat[a].conv \in Conv
      /\ chat[a].pc = "store" => chat[a].at \in 1 .. MaxMessages
      /\ chat[a].pc = "mark" => chat[a].page \in SUBSET (1 .. MaxMessages)
      /\ chat[a].pc \in {"may invite", "rejoin", "insert"} =>
              chat[a].whom \in Talker /\ chat[a] \in Inviting
      /\ chat[a].pc \in {"may send", "stamp", "may read", "fetch", "may leave", "leave"} =>
              chat[a] \in Checked
  BY <1>1, <1>2, <1>3, <1>4, <1>5, <1>6, <1>7
<1> QED
  BY <1>8 DEF Checked, Inviting

\* One talker takes a turn.
LEMMA Turned ==
  ASSUME ConversationTypeOK, NEW a \in Talker, NEW d \in {Silent} \cup Talking, Turns(a, d)
  PROVE  /\ chat' \in [Talker -> {Silent} \cup Talking]
         /\ chat'[a] = d
         /\ \A b \in Talker : b # a => chat'[b] = chat[b]
  BY DEF ConversationTypeOK, Turns

\* A message that is stored keeps who sent it and who read it,
LEMMA MessageFields ==
  ASSUME NEW m \in Message
  PROVE  /\ m.from \in Talker /\ m.stored \in BOOLEAN /\ m.read \in SUBSET Talker
         /\ [m EXCEPT !.stored = TRUE] \in Message
         /\ [m EXCEPT !.stored = TRUE].from = m.from
         /\ [m EXCEPT !.stored = TRUE].stored = TRUE
         /\ [m EXCEPT !.stored = TRUE].read = m.read
  BY DEF Message

\* one that is read keeps who sent it and that it is stored.
LEMMA ReadFields ==
  ASSUME NEW m \in Message, NEW a \in Talker
  PROVE  /\ [m EXCEPT !.read = @ \cup {a}] \in Message
         /\ [m EXCEPT !.read = @ \cup {a}].from = m.from
         /\ [m EXCEPT !.read = @ \cup {a}].stored = m.stored
         /\ [m EXCEPT !.read = @ \cup {a}].read = m.read \cup {a}
  BY DEF Message

\* Messages of a conversation have places in the order of their times.
LEMMA PlaceAfter ==
  ASSUME ConversationTypes, NEW c \in Conv
  PROVE  /\ said[c] \in Seq(Message) /\ Len(said[c]) \in Nat /\ Len(said[c]) <= MaxMessages
         /\ DOMAIN said[c] = 1 .. Len(said[c])
         /\ DOMAIN said[c] \subseteq 1 .. MaxMessages
         /\ \A i \in DOMAIN said[c] : said[c][i] \in Message
<1>1. said[c] \in Seq(Message) /\ Len(said[c]) <= MaxMessages
  BY DEF ConversationTypes, ConversationTypeOK
<1>2. Len(said[c]) \in Nat /\ DOMAIN said[c] = 1 .. Len(said[c])
  BY <1>1, LenProperties
<1>3. \A i \in DOMAIN said[c] : said[c][i] \in Message
  BY <1>1, <1>2, ElementOfSeq
<1> QED
  BY <1>1, <1>2, <1>3, ConversationAssumption

\* --- what is said stays said ---

\* Messages are neither taken back nor changed, but stored and read.
Continues ==
    \A c \in Conv : /\ DOMAIN said[c] \subseteq DOMAIN said'[c]
                    /\ \A i \in DOMAIN said[c] : /\ said'[c][i].from = said[c][i].from
                                                 /\ said[c][i].stored => said'[c][i].stored

\* A message beyond the page stays there.
LEMMA BeyondStays ==
  ASSUME ConversationTypes, ConversationTypes', Continues, NEW c \in Conv, NEW i
  PROVE  Beyond(c, i) => Beyond(c, i)'
<1>1. Before(c, i) \subseteq Before(c, i)'
  BY DEF Continues, Before, Stored
<1>2. DOMAIN said'[c] = 1 .. Len(said'[c]) /\ Len(said'[c]) \in Nat
  <2>1. said'[c] \in Seq(Message)
    BY DEF ConversationTypes
  <2> QED
    BY <2>1, LenProperties
<1>3. IsFiniteSet(Before(c, i)')
  <2>1. IsFiniteSet(1 .. Len(said'[c]))
    BY <1>2, FS_Interval
  <2>2. Before(c, i)' \subseteq 1 .. Len(said'[c])
    BY <1>2 DEF Before, Stored
  <2> QED
    BY <2>1, <2>2, FS_Subset
<1>4. /\ Cardinality(Before(c, i)) <= Cardinality(Before(c, i)')
      /\ IsFiniteSet(Before(c, i))
  BY <1>1, <1>3, FS_Subset
<1>5. Cardinality(Before(c, i)) \in Nat /\ Cardinality(Before(c, i)') \in Nat /\ Page \in Nat
  BY <1>3, <1>4, FS_CardinalityType, ConversationAssumption
<1> QED
  BY <1>4, <1>5 DEF Beyond

\* Unless somebody reads, the accounts need only the new messages' readers, of whom
\* there are none.
LEMMA AccountsKept ==
  ASSUME ConversationInv, ConversationTypes', Continues,
         shown \subseteq shown', told \subseteq told', missed \subseteq missed',
         \A c \in Conv : \A i \in DOMAIN said[c] : said'[c][i].read = said[c][i].read,
         \A c \in Conv : \A i \in DOMAIN said'[c] : i \notin DOMAIN said[c] => said'[c][i].read = {}
  PROVE  \A a \in Talker, c \in Conv : Accounted(a, c)'
  BY BeyondStays DEF ConversationInv, Accounted, Continues

\* Whoever is between its fetch and its mark, and whose page stays the same.
LEMMA FetchKept ==
  ASSUME ConversationInv, ConversationTypes', Continues, missed \subseteq missed', NEW a \in Talker,
         chat'[a] = chat[a],
         \A i : chat[a].pc = "mark" /\ i \in DOMAIN said'[chat[a].conv] =>
             i \in DOMAIN said[chat[a].conv] \/ <<a, chat[a].conv, i>> \in missed'
  PROVE  Fetched(a)'
<1>1. SUFFICES ASSUME chat[a].pc = "mark", NEW i \in DOMAIN said'[chat[a].conv]
               PROVE  \/ said'[chat[a].conv][i].from = a
                      \/ i \in chat[a].page
                      \/ <<a, chat[a].conv, i>> \in missed'
                      \/ Beyond(chat[a].conv, i)'
  <2>1. \A c, i : Beyond(c, i)' <=> Cardinality({j \in {k \in DOMAIN said'[c] : said'[c][k].stored} : j < i}) >= Page
    BY DEF Beyond, Before, Stored
  <2> QED
    BY <2>1 DEF Fetched, Beyond, Before, Stored
<1>2. chat[a].conv \in Conv
  BY <1>1, TalkStates DEF ConversationInv, ConversationTypes
<1> QED
  BY <1>1, <1>2, BeyondStays DEF ConversationInv, Fetched, Continues

\* What the page of a fetch accounts for.
LEMMA FetchedNow ==
  ASSUME NEW a \in Talker, NEW c, chat'[a].conv = c,
         \A i \in DOMAIN said'[c] : \/ said'[c][i].from = a
                                   \/ i \in chat'[a].page
                                   \/ <<a, c, i>> \in missed'
                                   \/ Beyond(c, i)'
  PROVE  Fetched(a)'
  BY DEF Fetched, Beyond, Before, Stored

\* --- the steps ---

\* A step that leaves the messages alone and does not reach a mark.
LEMMA QuietSteps ==
  ASSUME ConversationInv, UNCHANGED said, ConversationTypeOK',
         shown \subseteq shown', told \subseteq told', missed \subseteq missed',
         \A a \in Talker : chat'[a] = chat[a] \/ chat'[a].pc \notin {"store", "mark"}
  PROVE  ConversationInv'
<1>1. ConversationTypes'
  BY DEF ConversationInv, ConversationTypes
<1>2. Continues
  BY DEF Continues
<1>3. \A a \in Talker, c \in Conv : Accounted(a, c)'
  BY <1>1, <1>2, AccountsKept
<1>4. ASSUME NEW a \in Talker PROVE Fetched(a)'
  <2>1. CASE chat'[a] = chat[a]
    BY <1>1, <1>2, <2>1, FetchKept
  <2>2. CASE chat'[a].pc # "mark"
    BY <2>2 DEF Fetched
  <2> QED
    BY <2>1, <2>2
<1> QED
  BY <1>1, <1>3, <1>4 DEF ConversationInv

\* What a is doing, one step further in a call that was checked.
LEMMA Further ==
  ASSUME ConversationTypeOK, NEW a \in Talker
  PROVE  /\ chat[a].pc \in {"may send", "may read", "may leave"} =>
              \A pc \in {"stamp", "fetch", "leave"} :
                /\ [chat[a] EXCEPT !.pc = pc] \in Talking
                /\ [chat[a] EXCEPT !.pc = pc].pc = pc
         /\ chat[a].pc \in {"may invite", "rejoin"} =>
              \A pc \in {"rejoin", "insert"} :
                /\ [chat[a] EXCEPT !.pc = pc] \in Talking
                /\ [chat[a] EXCEPT !.pc = pc].pc = pc
<1>1. ASSUME chat[a].pc \in {"may send", "may read", "may leave"},
             NEW pc \in {"stamp", "fetch", "leave"}
      PROVE  /\ [chat[a] EXCEPT !.pc = pc] \in Talking
             /\ [chat[a] EXCEPT !.pc = pc].pc = pc
  <2>1. chat[a] \in [pc : {"may send", "stamp", "may read", "fetch", "may leave", "leave"},
                     conv : Conv]
    BY <1>1, TalkStates
  <2>2. /\ [chat[a] EXCEPT !.pc = pc] \in
              [pc : {"may send", "stamp", "may read", "fetch", "may leave", "leave"}, conv : Conv]
        /\ [chat[a] EXCEPT !.pc = pc].pc = pc
    BY <2>1
  <2> QED
    BY <2>2 DEF Talking
<1>2. ASSUME chat[a].pc \in {"may invite", "rejoin"}, NEW pc \in {"rejoin", "insert"}
      PROVE  /\ [chat[a] EXCEPT !.pc = pc] \in Talking
             /\ [chat[a] EXCEPT !.pc = pc].pc = pc
  <2>1. chat[a] \in [pc : {"may invite", "rejoin", "insert"}, conv : Conv, whom : Talker]
    BY <1>2, TalkStates
  <2>2. /\ [chat[a] EXCEPT !.pc = pc] \in
              [pc : {"may invite", "rejoin", "insert"}, conv : Conv, whom : Talker]
        /\ [chat[a] EXCEPT !.pc = pc].pc = pc
    BY <2>1
  <2> QED
    BY <2>2 DEF Talking
<1> QED
  BY <1>1, <1>2

\* The membership checks that calls begin with,
LEMMA MembersKeep ==
  ASSUME ConversationInv, NEW a \in Talker, NEW pc, NEW then, Members(a, pc, then),
         \/ pc \in {"may send", "may read", "may leave"} /\ then \in {"stamp", "fetch", "leave"}
         \/ pc = "may invite" /\ then = "rejoin"
  PROVE  ConversationInv'
<1> DEFINE d == [chat[a] EXCEPT !.pc = then]
<1>0. ConversationTypeOK
  BY DEF ConversationInv, ConversationTypes
<1>1. /\ chat[a].pc = pc
      /\ Turns(a, d) \/ Turns(a, Silent)
      /\ UNCHANGED <<conv, within, said, shown, told, missed>>
  BY DEF Members, Ready
<1>2. d \in Talking /\ d.pc = then
  BY <1>0, <1>1, Further
<1> HIDE DEF d
<1>3. /\ chat' \in [Talker -> {Silent} \cup Talking]
      /\ chat'[a].pc \notin {"store", "mark"}
      /\ \A b \in Talker : b # a => chat'[b] = chat[b]
  BY <1>0, <1>1, <1>2, Turned, SilentIdle
<1>4. ConversationTypeOK'
  BY <1>0, <1>1, <1>3 DEF ConversationTypeOK
<1> QED
  BY <1>1, <1>3, <1>4, QuietSteps

\* their beginnings,
LEMMA BeginsKeep ==
  ASSUME ConversationInv, NEW a \in Talker,
         HandleInvite(a) \/ HandleLeave(a) \/ HandleSend(a) \/ HandleGetMessages(a)
  PROVE  ConversationInv'
<1>0. ConversationTypeOK
  BY DEF ConversationInv, ConversationTypes
<1>1. PICK d \in Talking : Begins(a, d) /\ d.pc \notin {"store", "mark"}
  <2>1. \A c \in Conv, pc \in {"may send", "may read", "may leave"} : [pc |-> pc, conv |-> c] \in Talking
    BY DEF Talking
  <2>2. \A c \in Conv, b \in Talker : [pc |-> "may invite", conv |-> c, whom |-> b] \in Talking
    BY DEF Talking
  <2>3. CASE HandleInvite(a)
    BY <2>2, <2>3 DEF HandleInvite
  <2>4. CASE HandleLeave(a)
    BY <2>1, <2>4 DEF HandleLeave
  <2>5. CASE HandleSend(a)
    BY <2>1, <2>5 DEF HandleSend
  <2>6. CASE HandleGetMessages(a)
    BY <2>1, <2>6 DEF HandleGetMessages
  <2> QED
    BY <2>3, <2>4, <2>5, <2>6
<1>2. Turns(a, d) /\ UNCHANGED <<conv, within, said, shown, told, missed>>
  BY <1>1 DEF Begins
<1>3. /\ chat' \in [Talker -> {Silent} \cup Talking] /\ chat'[a] = d
      /\ \A b \in Talker : b # a => chat'[b] = chat[b]
  BY <1>0, <1>2, Turned
<1>4. ConversationTypeOK'
  BY <1>0, <1>2, <1>3 DEF ConversationTypeOK
<1> QED
  BY <1>1, <1>2, <1>3, <1>4, QuietSteps

\* joining and leaving,
LEMMA MembershipKeeps ==
  ASSUME ConversationInv, NEW a \in Talker,
         Rejoin(a) \/ InsertMember(a) \/ LeaveConversation(a)
  PROVE  ConversationInv'
<1> DEFINE d == [chat[a] EXCEPT !.pc = "insert"]
<1>0. ConversationTypeOK
  BY DEF ConversationInv, ConversationTypes
<1>1. /\ Turns(a, Silent) \/ (chat[a].pc = "rejoin" /\ Turns(a, d))
      /\ UNCHANGED <<conv, said, shown, told, missed>>
  BY DEF Rejoin, InsertMember, LeaveConversation, Ready
<1>2. chat[a].pc = "rejoin" => d \in Talking /\ d.pc = "insert"
  BY <1>0, Further
<1> HIDE DEF d
<1>3. /\ chat' \in [Talker -> {Silent} \cup Talking]
      /\ chat'[a].pc \notin {"store", "mark"}
      /\ \A b \in Talker : b # a => chat'[b] = chat[b]
  BY <1>0, <1>1, <1>2, Turned, SilentIdle
<1>4. within' \in [Conv -> [Talker -> {"none", "in", "left"}]]
  BY <1>0 DEF Rejoin, InsertMember, LeaveConversation, ConversationTypeOK
<1>5. ConversationTypeOK'
  BY <1>0, <1>1, <1>3, <1>4 DEF ConversationTypeOK
<1> QED
  BY <1>1, <1>3, <1>5, QuietSteps

\* archiving, creating, and a relay that stops,
LEMMA OthersKeep ==
  ASSUME ConversationInv,
         \/ \E c \in Conv : ArchiveConversation(c)
         \/ \E a \in Talker, c \in Conv, invited \in SUBSET Talker \ {{}} :
              CreateConversation(a, c, invited)
         \/ \E A : Silenced(A)
  PROVE  ConversationInv'
<1>0. ConversationTypeOK
  BY DEF ConversationInv, ConversationTypes
<1>1. ASSUME NEW c \in Conv, ArchiveConversation(c) PROVE ConversationInv'
  <2>1. ConversationTypeOK' /\ UNCHANGED <<said, chat, shown, told, missed>>
    BY <1>0, <1>1 DEF ArchiveConversation, ConversationTypeOK
  <2> QED
    BY <2>1, QuietSteps
<1>2. ASSUME NEW a \in Talker, NEW c \in Conv, NEW invited, CreateConversation(a, c, invited)
      PROVE  ConversationInv'
  <2>1. within' \in [Conv -> [Talker -> {"none", "in", "left"}]]
    BY <1>0, <1>2 DEF CreateConversation, ConversationTypeOK
  <2>2. ConversationTypeOK' /\ UNCHANGED <<said, chat, shown, told, missed>>
    BY <1>0, <1>2, <2>1 DEF CreateConversation, ConversationTypeOK
  <2> QED
    BY <2>2, QuietSteps
<1>3. ASSUME NEW A, Silenced(A) PROVE ConversationInv'
  <2>1. UNCHANGED <<conv, within, said, shown, told, missed>>
    BY <1>3 DEF Silenced
  <2>2. chat' \in [Talker -> {Silent} \cup Talking]
    BY <1>0, <1>3 DEF Silenced, ConversationTypeOK
  <2>3. \A a \in Talker : chat'[a] = chat[a] \/ chat'[a].pc \notin {"store", "mark"}
    BY <1>3, SilentIdle DEF Silenced
  <2>4. ConversationTypeOK'
    BY <1>0, <2>1, <2>2 DEF ConversationTypeOK
  <2> QED
    BY <2>1, <2>3, <2>4, QuietSteps
<1> QED
  BY <1>1, <1>2, <1>3

\* taking a time,
LEMMA StampKeeps ==
  ASSUME ConversationInv, NEW a \in Talker, Stamp(a)
  PROVE  ConversationInv'
<1> DEFINE c == chat[a].conv
           i == Len(said[c]) + 1
           m == [from |-> a, stored |-> FALSE, read |-> {}]
           d == [pc |-> "store", conv |-> c, at |-> i]
<1>0. ConversationTypes /\ ConversationTypeOK
  BY DEF ConversationInv, ConversationTypes
<1>1. /\ chat[a].pc = "stamp" /\ i <= MaxMessages
      /\ said' = [said EXCEPT ![c] = Append(said[c], m)]
      /\ Turns(a, d)
      /\ missed' = missed \cup {<<b, c, i>> : b \in {r \in Talker : Ready(r, "mark") /\ chat[r].conv = c}}
      /\ UNCHANGED <<conv, within, shown, told>>
  BY DEF Stamp, Ready
<1>2. c \in Conv /\ i \in 1 .. MaxMessages
  <2>1. c \in Conv
    BY <1>0, <1>1, TalkStates
  <2>2. Len(said[c]) \in Nat
    BY <1>0, <2>1, PlaceAfter
  <2>3. MaxMessages \in Nat
    BY ConversationAssumption
  <2> QED
    BY <1>1, <2>1, <2>2, <2>3
<1>3. m \in Message /\ m.from = a /\ m.read = {} /\ ~m.stored
  BY DEF Message
<1>4. d \in Talking /\ d.pc = "store" /\ d.conv = c /\ d.at = i
  BY <1>2 DEF Talking
<1> DEFINE longer == Append(said[c], m)
<1>5. /\ longer \in Seq(Message) /\ DOMAIN longer = 1 .. i /\ Len(longer) = i /\ longer[i] = m
      /\ \A j \in DOMAIN said[c] : longer[j] = said[c][j]
      /\ DOMAIN said[c] = 1 .. (i - 1)
  <2>1. said[c] \in Seq(Message) /\ Len(said[c]) \in Nat /\ DOMAIN said[c] = 1 .. Len(said[c])
    BY <1>0, <1>2, PlaceAfter
  <2>2. /\ longer \in Seq(Message) /\ Len(longer) = Len(said[c]) + 1
        /\ \A j \in 1 .. Len(said[c]) : longer[j] = said[c][j]
        /\ longer[Len(said[c]) + 1] = m
    BY <1>3, <2>1, AppendProperties
  <2>3. DOMAIN longer = 1 .. Len(longer)
    BY <2>2, LenProperties
  <2> QED
    BY <2>1, <2>2, <2>3
<1> HIDE DEF m, d, i, longer
<1>6. said' = [said EXCEPT ![c] = longer]
  BY <1>1 DEF longer
<1>7. /\ said' \in [Conv -> Seq(Message)] /\ said'[c] = longer
      /\ \A e \in Conv : e # c => said'[e] = said[e]
  BY <1>0, <1>2, <1>5, <1>6 DEF ConversationTypes
<1>8. /\ chat' \in [Talker -> {Silent} \cup Talking] /\ chat'[a] = d
      /\ \A b \in Talker : b # a => chat'[b] = chat[b]
  BY <1>0, <1>1, <1>4, Turned
<1>9. ConversationTypeOK'
  <2>1. \A e \in Conv : said'[e] \in Seq(Message) /\ Len(said'[e]) <= MaxMessages
    BY <1>0, <1>1, <1>2, <1>5, <1>7 DEF ConversationTypeOK
  <2>2. missed' \subseteq Talker \X Conv \X (1 .. MaxMessages)
    BY <1>0, <1>1, <1>2 DEF ConversationTypeOK
  <2> QED
    BY <1>0, <1>1, <1>8, <2>1, <2>2 DEF ConversationTypeOK
<1>10. Continues
  BY <1>2, <1>5, <1>7, <1>0, PlaceAfter DEF Continues
<1>11. ConversationTypes'
  <2>1. ASSUME NEW b \in Talker, chat'[b].pc = "store"
        PROVE  chat'[b].at \in DOMAIN said'[chat'[b].conv]
    <3>1. CASE b = a
      BY <1>2, <1>4, <1>5, <1>7, <1>8, <3>1
    <3>2. CASE b # a
      <4>1. chat[b].at \in DOMAIN said[chat[b].conv] /\ chat[b].conv \in Conv /\ chat'[b] = chat[b]
        BY <1>0, <1>8, <2>1, <3>2, TalkStates DEF ConversationTypes
      <4> QED
        BY <1>10, <4>1 DEF Continues
    <3> QED
      BY <3>1, <3>2
  <2> QED
    BY <1>7, <1>9, <2>1 DEF ConversationTypes
<1>12. \A b \in Talker, e \in Conv : Accounted(b, e)'
  <2>1. \A e \in Conv : \A j \in DOMAIN said[e] : said'[e][j].read = said[e][j].read
    BY <1>5, <1>7
  <2>2. ASSUME NEW e \in Conv, NEW j \in DOMAIN said'[e], j \notin DOMAIN said[e]
        PROVE  said'[e][j].read = {}
    <3>1. e = c
      BY <1>7, <2>2
    <3>2. j = i
      BY <1>2, <1>5, <1>7, <2>2, <3>1
    <3> QED
      BY <1>3, <1>5, <1>7, <3>1, <3>2
  <2> QED
    BY <1>1, <1>10, <1>11, <2>1, <2>2, AccountsKept
<1>13. ASSUME NEW b \in Talker PROVE Fetched(b)'
  <2>1. CASE b = a
    BY <1>4, <1>8, <2>1 DEF Fetched
  <2>2. CASE b # a
    <3>1. ASSUME NEW j, chat[b].pc = "mark", j \in DOMAIN said'[chat[b].conv],
                 j \notin DOMAIN said[chat[b].conv]
          PROVE  <<b, chat[b].conv, j>> \in missed'
      <4>1. chat[b].conv \in Conv
        BY <1>0, <3>1, TalkStates
      <4>2. chat[b].conv = c
        BY <1>7, <3>1, <4>1
      <4>3. j = i
        BY <1>2, <1>5, <1>7, <3>1, <4>2
      <4> QED
        BY <1>1, <3>1, <4>2, <4>3 DEF Ready
    <3> QED
      BY <1>1, <1>8, <1>10, <1>11, <2>2, <3>1, FetchKept
  <2> QED
    BY <2>1, <2>2
<1> QED
  BY <1>11, <1>12, <1>13 DEF ConversationInv

\* storing a message under it,
LEMMA StoreKeeps ==
  ASSUME ConversationInv, NEW a \in Talker, Store(a)
  PROVE  ConversationInv'
<1> DEFINE c == chat[a].conv
           i == chat[a].at
           m == [said[c][i] EXCEPT !.stored = TRUE]
<1>0. ConversationTypes /\ ConversationTypeOK
  BY DEF ConversationInv, ConversationTypes
<1>1. /\ chat[a].pc = "store" /\ Turns(a, Silent)
      /\ said' = [said EXCEPT ![c] = [said[c] EXCEPT ![i] = m]]
      /\ UNCHANGED <<conv, within, shown, told, missed>>
  BY DEF Store, Ready
<1>2. c \in Conv /\ i \in DOMAIN said[c]
  BY <1>0, <1>1, TalkStates DEF ConversationTypes
<1>3. /\ said[c] \in Seq(Message) /\ DOMAIN said[c] = 1 .. Len(said[c]) /\ Len(said[c]) \in Nat
      /\ said[c][i] \in Message /\ Len(said[c]) <= MaxMessages
  BY <1>0, <1>2, PlaceAfter
<1>4. m \in Message /\ m.from = said[c][i].from /\ m.stored /\ m.read = said[c][i].read
  BY <1>3, MessageFields
<1> DEFINE kept == [said[c] EXCEPT ![i] = m]
<1>5. /\ kept \in Seq(Message) /\ Len(kept) = Len(said[c]) /\ DOMAIN kept = DOMAIN said[c]
      /\ kept[i] = m
      /\ \A j \in DOMAIN said[c] : j # i => kept[j] = said[c][j]
  <2>1. kept \in Seq(Message) /\ Len(kept) = Len(said[c])
    BY <1>2, <1>3, <1>4, ExceptSeq
  <2> QED
    BY <1>2, <2>1, <1>3
<1> HIDE DEF m, kept
<1>6. said' = [said EXCEPT ![c] = kept]
  BY <1>1 DEF kept
<1>7. /\ said' \in [Conv -> Seq(Message)] /\ said'[c] = kept
      /\ \A e \in Conv : e # c => said'[e] = said[e]
  BY <1>0, <1>2, <1>5, <1>6 DEF ConversationTypes
<1>8. /\ chat' \in [Talker -> {Silent} \cup Talking] /\ chat'[a] = Silent
      /\ \A b \in Talker : b # a => chat'[b] = chat[b]
  BY <1>0, <1>1, Turned
<1>9. ConversationTypeOK'
  <2>1. \A e \in Conv : said'[e] \in Seq(Message) /\ Len(said'[e]) <= MaxMessages
    BY <1>0, <1>3, <1>5, <1>7 DEF ConversationTypeOK
  <2> QED
    BY <1>0, <1>1, <1>8, <2>1 DEF ConversationTypeOK
<1>10. \A e \in Conv : /\ DOMAIN said'[e] = DOMAIN said[e]
                       /\ \A j \in DOMAIN said[e] :
                            /\ said'[e][j].from = said[e][j].from
                            /\ said'[e][j].read = said[e][j].read
                            /\ said[e][j].stored => said'[e][j].stored
  BY <1>4, <1>5, <1>7
<1>11. Continues
  BY <1>10 DEF Continues
<1>12. ConversationTypes'
  <2>1. ASSUME NEW b \in Talker, chat'[b].pc = "store"
        PROVE  chat'[b].at \in DOMAIN said'[chat'[b].conv]
    <3>1. b # a
      BY <1>8, <2>1, SilentIdle
    <3>2. chat[b].at \in DOMAIN said[chat[b].conv] /\ chat[b].conv \in Conv /\ chat'[b] = chat[b]
      BY <1>0, <1>8, <2>1, <3>1, TalkStates DEF ConversationTypes
    <3> QED
      BY <1>10, <3>2
  <2> QED
    BY <1>7, <1>9, <2>1 DEF ConversationTypes
<1>13. \A b \in Talker, e \in Conv : Accounted(b, e)'
  BY <1>1, <1>10, <1>11, <1>12, AccountsKept
<1>14. ASSUME NEW b \in Talker PROVE Fetched(b)'
  <2>1. CASE b = a
    BY <1>8, <2>1, SilentIdle DEF Fetched
  <2>2. CASE b # a
    <3>1. chat[b].pc = "mark" => chat[b].conv \in Conv
      BY <1>0, TalkStates
    <3> QED
      BY <1>1, <1>8, <1>10, <1>11, <1>12, <2>2, <3>1, FetchKept
  <2> QED
    BY <2>1, <2>2
<1> QED
  BY <1>12, <1>13, <1>14 DEF ConversationInv

\* and fetching a page keep what is shown.
LEMMA FetchKeeps ==
  ASSUME ConversationInv, NEW a \in Talker, Fetch(a)
  PROVE  ConversationInv'
<1> PICK c : c = chat[a].conv
  OBVIOUS
<1> DEFINE page == FirstPage(c)
           d == [pc |-> "mark", conv |-> c, page |-> page]
<1>0. ConversationTypes /\ ConversationTypeOK
  BY DEF ConversationInv, ConversationTypes
<1>1. /\ chat[a].pc = "fetch" /\ Turns(a, d)
      /\ missed' = missed \cup ToRead(a, c, DOMAIN said[c] \ Stored(c))
      /\ UNCHANGED <<conv, within, said, shown, told>>
  BY DEF Fetch, Ready
<1>2. c \in Conv /\ DOMAIN said[c] \subseteq 1 .. MaxMessages /\ page \subseteq DOMAIN said[c]
  BY <1>0, <1>1, TalkStates, PlaceAfter DEF FirstPage, Stored
<1>3. page \in SUBSET (1 .. MaxMessages)
  BY <1>2
<1>pageIs. \A i \in DOMAIN said[c] : said[c][i].stored /\ i \notin page => Beyond(c, i)
  <2>1. SUFFICES ASSUME NEW i \in DOMAIN said[c], i \in Stored(c), i \notin page
                 PROVE  Beyond(c, i)
    BY DEF Stored
  <2>2. ~(Cardinality(Before(c, i)) < Page)
    BY <2>1 DEF FirstPage, Before
  <2>3. IsFiniteSet(Before(c, i))
    <3>1. IsFiniteSet(1 .. MaxMessages)
      BY FS_Interval, ConversationAssumption
    <3> QED
      BY <1>2, <3>1, FS_Subset DEF Before, Stored
  <2>4. Cardinality(Before(c, i)) \in Nat /\ Page \in Nat
    BY <2>3, FS_CardinalityType, ConversationAssumption
  <2> QED
    BY <2>2, <2>4 DEF Beyond
<1> HIDE DEF page
<1>4. d \in Talking /\ d.pc = "mark" /\ d.conv = c /\ d.page = page
  BY <1>2, <1>3 DEF Talking
<1> HIDE DEF d
<1>5. /\ chat' \in [Talker -> {Silent} \cup Talking] /\ chat'[a] = d
      /\ \A b \in Talker : b # a => chat'[b] = chat[b]
  BY <1>0, <1>1, <1>4, Turned
<1>6. ConversationTypeOK'
  <2>1. missed' \subseteq Talker \X Conv \X (1 .. MaxMessages)
    BY <1>0, <1>1, <1>2 DEF ConversationTypeOK, ToRead
  <2> QED
    BY <1>0, <1>1, <1>5, <2>1 DEF ConversationTypeOK
<1>7. ConversationTypes'
  BY <1>0, <1>1, <1>4, <1>5, <1>6 DEF ConversationTypes
<1>8. Continues
  BY <1>1 DEF Continues
<1>9. \A b \in Talker, e \in Conv : Accounted(b, e)'
  BY <1>1, <1>7, <1>8, AccountsKept
<1>10. ASSUME NEW b \in Talker PROVE Fetched(b)'
  <2>1. CASE b = a
    <3>1. \A i \in DOMAIN said[c] : \/ said[c][i].from = a
                                    \/ i \in page
                                    \/ <<a, c, i>> \in missed'
                                    \/ Beyond(c, i)
      BY <1>1, <1>pageIs DEF ToRead, Stored
    <3>2. \A i : Beyond(c, i)' <=> Beyond(c, i)
      BY <1>1 DEF Beyond, Before, Stored
    <3>3. chat'[a].conv = c /\ chat'[a].page = page /\ said' = said
      BY <1>1, <1>4, <1>5
    <3> QED
      BY <2>1, <3>1, <3>2, <3>3, FetchedNow
  <2>2. CASE b # a
    BY <1>1, <1>5, <1>7, <1>8, <2>2, FetchKept
  <2> QED
    BY <2>1, <2>2
<1> QED
  BY <1>7, <1>9, <1>10 DEF ConversationInv

\* What a reading agent leaves behind in the messages of c.
LEMMA ReadAllMarks ==
  ASSUME ConversationTypes, NEW a \in Talker, NEW c \in Conv, ReadAll(a, c)
  PROVE  /\ said' \in [Conv -> Seq(Message)]
         /\ \A e \in Conv : /\ DOMAIN said'[e] = DOMAIN said[e] /\ Len(said'[e]) = Len(said[e])
                            /\ \A i \in DOMAIN said[e] :
                                 /\ said'[e][i].from = said[e][i].from
                                 /\ said'[e][i].stored = said[e][i].stored
                                 /\ said'[e][i].read =
                                      said[e][i].read \cup (IF e = c THEN {a} ELSE {})
<1> DEFINE Read(i) == [said[c][i] EXCEPT !.read = @ \cup {a}]
           marked == [i \in DOMAIN said[c] |-> Read(i)]
<1>1. /\ said[c] \in Seq(Message) /\ DOMAIN said[c] = 1 .. Len(said[c]) /\ Len(said[c]) \in Nat
      /\ \A i \in DOMAIN said[c] : said[c][i] \in Message
  BY PlaceAfter
<1>2. \A i \in DOMAIN said[c] : /\ Read(i) \in Message /\ Read(i).from = said[c][i].from
                                /\ Read(i).stored = said[c][i].stored
                                /\ Read(i).read = said[c][i].read \cup {a}
  BY <1>1, ReadFields
<1> HIDE DEF Read
<1>3. marked \in [1 .. Len(said[c]) -> Message]
  BY <1>1, <1>2
<1>4. marked \in Seq(Message)
  BY <1>1, <1>3, SeqDef
<1>5. Len(marked) = Len(said[c]) /\ DOMAIN marked = DOMAIN said[c]
  <2>1. DOMAIN marked = 1 .. Len(marked) /\ Len(marked) \in Nat
    BY <1>4, LenProperties
  <2>2. DOMAIN marked = 1 .. Len(said[c])
    BY <1>1
  <2> HIDE DEF marked
  <2>3. Len(marked) = Len(said[c])
    BY <1>1, <2>1, <2>2
  <2> QED
    BY <1>1, <2>2, <2>3
<1>6. said' = [said EXCEPT ![c] = marked]
  BY DEF ReadAll, Read
<1>7. \A i \in DOMAIN said[c] : marked[i] = Read(i)
  OBVIOUS
<1> HIDE DEF marked
<1>8. /\ said' \in [Conv -> Seq(Message)] /\ said'[c] = marked
      /\ \A e \in Conv : e # c => said'[e] = said[e]
  BY <1>4, <1>6 DEF ConversationTypes
<1> QED
  BY <1>2, <1>5, <1>7, <1>8

\* Marking all as read keeps it when all was shown, told, missed or beyond the page,
LEMMA ReadingKeeps ==
  ASSUME ConversationInv, NEW a \in Talker, NEW c \in Conv, ReadAll(a, c),
         UNCHANGED <<conv, within, missed>>, shown \subseteq shown', told \subseteq told',
         {shown', told'} \subseteq SUBSET (Talker \X Conv \X (1 .. MaxMessages)),
         chat' \in [Talker -> {Silent} \cup Talking],
         \A b \in Talker : chat'[b] = chat[b] \/ chat'[b] = Silent,
         \A i \in DOMAIN said[c] : \/ said[c][i].from = a
                                   \/ <<a, c, i>> \in shown' \cup told' \cup missed
                                   \/ Beyond(c, i)
  PROVE  ConversationInv'
<1>0. ConversationTypes /\ ConversationTypeOK
  BY DEF ConversationInv, ConversationTypes
<1>1. /\ said' \in [Conv -> Seq(Message)]
      /\ \A e \in Conv : /\ DOMAIN said'[e] = DOMAIN said[e] /\ Len(said'[e]) = Len(said[e])
                         /\ \A i \in DOMAIN said[e] :
                              /\ said'[e][i].from = said[e][i].from
                              /\ said'[e][i].stored = said[e][i].stored
                              /\ said'[e][i].read =
                                   said[e][i].read \cup (IF e = c THEN {a} ELSE {})
  BY <1>0, ReadAllMarks
<1>2. ConversationTypeOK'
  <2>1. \A e \in Conv : said'[e] \in Seq(Message) /\ Len(said'[e]) <= MaxMessages
    BY <1>0, <1>1 DEF ConversationTypeOK
  <2> QED
    BY <1>0, <2>1 DEF ConversationTypeOK
<1>3. ConversationTypes'
  <2>1. ASSUME NEW b \in Talker, chat'[b].pc = "store"
        PROVE  chat'[b].at \in DOMAIN said'[chat'[b].conv]
    <3>1. chat'[b] = chat[b]
      BY <2>1, SilentIdle
    <3>2. chat[b].at \in DOMAIN said[chat[b].conv] /\ chat[b].conv \in Conv
      BY <1>0, <2>1, <3>1, TalkStates DEF ConversationTypes
    <3> QED
      BY <1>1, <3>1, <3>2
  <2> QED
    BY <1>1, <1>2, <2>1 DEF ConversationTypes
<1>4. Continues
  BY <1>1 DEF Continues
<1>5. ASSUME NEW b \in Talker, NEW e \in Conv PROVE Accounted(b, e)'
  <2>1. SUFFICES ASSUME NEW i \in DOMAIN said[e], b \in said'[e][i].read
                 PROVE  \/ said[e][i].from = b
                        \/ <<b, e, i>> \in shown' \cup told' \cup missed
                        \/ Beyond(e, i)
    BY <1>0, <1>1, <1>3, <1>4, BeyondStays DEF Accounted
  <2>2. CASE b \in said[e][i].read
    BY <2>1, <2>2 DEF ConversationInv, Accounted
  <2>3. CASE b \notin said[e][i].read
    <3>1. b = a /\ e = c
      BY <1>1, <2>1, <2>3
    <3> QED
      BY <2>1, <3>1
  <2> QED
    BY <2>2, <2>3
<1>6. ASSUME NEW b \in Talker PROVE Fetched(b)'
  <2>1. CASE chat'[b] = chat[b]
    <3>1. chat[b].pc = "mark" => chat[b].conv \in Conv
      BY <1>0, TalkStates
    <3> QED
      BY <1>1, <1>3, <1>4, <2>1, <3>1, FetchKept
  <2>2. CASE chat'[b] = Silent
    BY <2>2, SilentIdle DEF Fetched
  <2> QED
    BY <2>1, <2>2
<1> QED
  BY <1>3, <1>5, <1>6 DEF ConversationInv

\* as each way of marking does.
LEMMA MarkingKeeps ==
  ASSUME ConversationInv, NEW a \in Talker,
         MarkFetched(a) \/ MarkFails(a) \/ \E c \in Conv : MarkConversationRead(a, c)
  PROVE  ConversationInv'
<1>0. ConversationTypes /\ ConversationTypeOK
  BY DEF ConversationInv, ConversationTypes
<1>1. ASSUME chat[a].pc = "mark", shown' = shown \cup ToRead(a, chat[a].conv, chat[a].page),
             Turns(a, Silent), UNCHANGED told
      PROVE  /\ chat[a].conv \in Conv
             /\ {shown', told'} \subseteq SUBSET (Talker \X Conv \X (1 .. MaxMessages))
             /\ chat' \in [Talker -> {Silent} \cup Talking]
             /\ \A b \in Talker : chat'[b] = chat[b] \/ chat'[b] = Silent
  <2>1. chat[a].conv \in Conv /\ chat[a].page \subseteq 1 .. MaxMessages
    BY <1>0, <1>1, TalkStates
  <2>2. shown' \subseteq Talker \X Conv \X (1 .. MaxMessages)
    BY <1>0, <1>1, <2>1 DEF ConversationTypeOK, ToRead
  <2>3. /\ chat' \in [Talker -> {Silent} \cup Talking]
        /\ chat'[a] = Silent /\ \A b \in Talker : b # a => chat'[b] = chat[b]
    BY <1>0, <1>1, Turned
  <2> QED
    BY <1>0, <1>1, <2>1, <2>2, <2>3 DEF ConversationTypeOK
<1>2. CASE MarkFetched(a)
  <2>1. /\ chat[a].pc = "mark" /\ shown' = shown \cup ToRead(a, chat[a].conv, chat[a].page)
        /\ Turns(a, Silent) /\ ReadAll(a, chat[a].conv) /\ UNCHANGED <<conv, within, told, missed>>
    BY <1>2 DEF MarkFetched, Ready
  <2>2. \A i \in DOMAIN said[chat[a].conv] :
          \/ said[chat[a].conv][i].from = a
          \/ <<a, chat[a].conv, i>> \in shown' \cup told' \cup missed
          \/ Beyond(chat[a].conv, i)
    BY <2>1 DEF ConversationInv, Fetched, ToRead
  <2> QED
    BY <1>1, <2>1, <2>2, ReadingKeeps
<1>3. CASE MarkFails(a)
  <2>1. /\ chat[a].pc = "mark" /\ shown' = shown \cup ToRead(a, chat[a].conv, chat[a].page)
        /\ Turns(a, Silent) /\ UNCHANGED <<conv, within, said, told, missed>>
    BY <1>3 DEF MarkFails, Ready
  <2>2. ConversationTypeOK'
    BY <1>0, <1>1, <2>1 DEF ConversationTypeOK
  <2> QED
    BY <1>1, <2>1, <2>2, QuietSteps, SilentIdle
<1>4. ASSUME NEW c \in Conv, MarkConversationRead(a, c) PROVE ConversationInv'
  <2>1. /\ ReadAll(a, c) /\ told' = told \cup ToRead(a, c, DOMAIN said[c])
        /\ UNCHANGED <<conv, within, chat, shown, missed>>
    BY <1>4 DEF MarkConversationRead
  <2>2. told' \subseteq Talker \X Conv \X (1 .. MaxMessages)
    <3>1. DOMAIN said[c] \subseteq 1 .. MaxMessages
      BY <1>0, PlaceAfter
    <3> QED
      BY <1>0, <2>1, <3>1 DEF ConversationTypeOK, ToRead
  <2>3. \A i \in DOMAIN said[c] : said[c][i].from = a \/ <<a, c, i>> \in told'
    BY <2>1 DEF ToRead
  <2> QED
    BY <1>0, <2>1, <2>2, <2>3, ReadingKeeps DEF ConversationTypeOK
<1> QED
  BY <1>2, <1>3, <1>4

\* The first states satisfy it,
LEMMA ConversationInitially ==
  ASSUME ConversationInit
  PROVE  ConversationInv
<1>1. <<>> \in Seq(Message) /\ Len(<<>>) = 0 /\ DOMAIN <<>> = {}
  <2>1. <<>> \in Seq(Message) /\ Len(<<>>) = 0
    BY EmptySeq
  <2>2. DOMAIN <<>> = 1 .. 0
    BY <2>1, LenProperties
  <2> QED
    BY <2>1, <2>2
<1>2. \A c \in Conv : said[c] = <<>>
  BY DEF ConversationInit
<1>3. 0 <= MaxMessages
  BY ConversationAssumption
<1>4. \A c \in Conv : said[c] \in Seq(Message) /\ Len(said[c]) <= MaxMessages /\ DOMAIN said[c] = {}
  <2>1. Len(<<>>) <= MaxMessages
    BY <1>1, <1>3
  <2> QED
    BY <1>1, <1>2, <2>1, Zenon
<1>5. \A a \in Talker : chat[a].pc = "idle"
  BY SilentIdle DEF ConversationInit
<1>6. ConversationTypeOK
  BY <1>4 DEF ConversationInit, ConversationTypeOK
<1>7. said \in [Conv -> Seq(Message)]
  BY <1>1 DEF ConversationInit
<1> QED
  BY <1>4, <1>5, <1>6, <1>7 DEF ConversationInv, ConversationTypes, Fetched, Accounted

\* and every step keeps it.
LEMMA ConversationInductive ==
  ASSUME ConversationInv, [ConversationNext]_conversationVars
  PROVE  ConversationInv'
<1>1. CASE UNCHANGED conversationVars
  <2> USE <1>1 DEF conversationVars
  <2>1. ConversationTypeOK'
    BY DEF ConversationInv, ConversationTypes, ConversationTypeOK
  <2> QED
    BY <2>1, QuietSteps
<1>2. ASSUME NEW a \in Talker, Says(a) PROVE ConversationInv'
  <2>1. CASE InviteChecks(a) \/ LeaveChecks(a) \/ SendChecks(a) \/ ReadChecks(a)
    BY <2>1, MembersKeep DEF InviteChecks, LeaveChecks, SendChecks, ReadChecks
  <2> QED
    BY <1>2, <2>1, MembershipKeeps, StampKeeps, StoreKeeps, FetchKeeps, MarkingKeeps DEF Says
<1> QED
  BY <1>1, <1>2, BeginsKeep, OthersKeep, MarkingKeeps
     DEF ConversationNext, TalkFails, ConversationsStop

\* Conversations, their members, messages and calls keep their shape.
THEOREM ConversationTypeCorrect == ConversationSpec => []ConversationTypeOK
<1>1. ConversationInv => ConversationTypeOK
  BY DEF ConversationInv, ConversationTypes
<1> QED
  BY <1>1, ConversationInitially, ConversationInductive, PTL DEF ConversationSpec

\* What list_conversations counts as read was shown.
LEMMA ReadersShown ==
  ASSUME ConversationInv
  PROVE  ReadWasShown
<1>1. SUFFICES ASSUME NEW a \in Talker, NEW c \in DOMAIN ListConversations(a),
                      NEW i \in Stored(c) \ ListConversations(a)[c]
               PROVE  \/ said[c][i].from = a
                      \/ <<a, c, i>> \in shown \cup told \cup missed
                      \/ Cardinality({j \in Stored(c) : j < i}) >= Page
  BY DEF ReadWasShown
<1>2. c \in Conv /\ i \in DOMAIN said[c]
  BY DEF ListConversations, Stored
<1>3. said[c][i].from = a \/ a \in said[c][i].read
  BY DEF ListConversations
<1> QED
  BY <1>2, <1>3 DEF ConversationInv, Accounted, Beyond, Before

\* What list_conversations no longer counts as unread is its own message of its reader, was shown or
\* told to it, came between the fetch and the mark of one call, or lay beyond the page
\* (MarkConversationRead, handlers.go:627).
THEOREM ReadersWereShown == ConversationSpec => []ReadWasShown
  BY ReadersShown, ConversationInitially, ConversationInductive, PTL DEF ConversationSpec

------------------------------------------------------------------------------
(* Chat. *)

\* What a message's row may be.
Mails == {NoMail} \cup [at : {"stamped", "inbox", "chat"}, by : Exec \cup {"human"}]

\* The messages that have a time.
Taken == {m \in ChatMsg : mail[m] # NoMail}

\* A view that is mounted.
Mounted ==
    [at : {"open"}, shows : SUBSET ChatMsg, post : SUBSET ChatMsg, passed : SUBSET ChatMsg,
     floor : 0 .. MaxChat + 1, hasMore : BOOLEAN,
     poll : [at : {"idle", "asked", "answered"}, asked : 0 .. MaxChat, since : 0 .. MaxChat,
             rows : SUBSET ChatMsg],
     history : [at : {"first", "answered", "idle"}, first : BOOLEAN, rows : SUBSET ChatMsg]]

\* What was answered to a view.
Reach(w) == w.shows \cup w.poll.rows \cup w.history.rows \cup w.post

\* From where on a view has the past, once it was answered: the floor it will have when
\* its first page is merged.
Begun(w) ==
    IF ~w.history.first THEN w.floor
    ELSE IF Cardinality(w.history.rows) = ChatPage THEN Min(w.history.rows) ELSE 0

\* Of these rows, a view misses none up to the newest that was answered to it.
Gapless(w, rows) ==
    w.history.at # "first" =>
        \A m \in rows \ w.passed :
            Begun(w) <= m /\ m <= NewestStamp(Reach(w)) => m \in Reach(w)

\* What a view holds is consistent, and has no gap.
Sound(w, rows) ==
    /\ w.poll.at # "answered" => w.poll.rows = {}
    /\ w.history.at # "answered" => w.history.rows = {}
    /\ w.history.at = "first" => w.history.first
    /\ w.history.at = "idle" => ~w.history.first
    /\ w.history.first => w.floor = MaxChat + 1
    /\ w.poll.since <= NewestStamp(w.shows)
    /\ Reach(w) \cup w.passed \subseteq rows
    /\ Gapless(w, rows)

\* What is inductive: times are given out without a gap, and every mounted view is sound
\* with respect to the chat as it is.
ChatInv ==
    /\ chatRole \in Exec \cup {NoRole}
    /\ mail \in [ChatMsg -> Mails]
    /\ Taken = 1 .. Latest
    /\ view \in [View -> {Closed} \cup Mounted]
    /\ \A v \in View : view[v] # Closed => Sound(view[v], ChatRows)

\* A set of numbers that is not empty has a least element: the order is well-founded.
LEMMA Least ==
  ASSUME NEW S \in SUBSET Nat, S # {}
  PROVE  \E n \in S : \A m \in S : n <= m
<1> DEFINE Less == OpToRel(<, Nat)
<1>1. IsWellFoundedOn(Less, Nat)
  BY NatLessThanWellFounded
<1>3. \A x, y \in Nat : y < x => <<y, x>> \in Less
  BY DEF OpToRel
<1> HIDE DEF Less
<1>2. PICK x \in S : \A y \in S : ~ (<<y, x>> \in Less)
  BY <1>1, WFMin
<1>4. ASSUME NEW y \in S
      PROVE  x <= y
  <2>1. ~(y < x)
     BY <1>2, <1>3
  <2> QED BY <2>1
<1> QED
  BY <1>4

\* A bounded one has a greatest, the least of what is left to the bound.
LEMMA Greatest ==
  ASSUME NEW b \in Nat, NEW S \in SUBSET (1 .. b), S # {}
  PROVE  \E n \in S : \A m \in S : n >= m
<1> DEFINE T == {n \in Nat : b - n \in S}
<1>1. T \in SUBSET Nat /\ T # {}
  <2>1. PICK n \in S : TRUE
    OBVIOUS
  <2>2. b - n \in Nat /\ b - (b - n) = n
    OBVIOUS
  <2> QED BY <2>2, <2>1
<1>2. PICK t \in T : \A m \in T : t <= m
  BY <1>1, Least
<1>4. ASSUME NEW m \in S
      PROVE  b - t >= m
  <2>1. b - m \in Nat /\ b - (b - m) = m
    OBVIOUS
  <2>2. b - m \in T
    BY <2>1
  <2>3. t <= b - m
    BY <1>2, <2>2
  <2> QED
    BY <2>3
<1>5. b - t \in S
  OBVIOUS
<1> QED
  BY <1>4, <1>5
\* The newest of some messages.
LEMMA StampMax ==
  ASSUME NEW S \in SUBSET ChatMsg
  PROVE  /\ NewestStamp(S) \in 0 .. MaxChat
         /\ \A m \in S : m <= NewestStamp(S)
         /\ S # {} => NewestStamp(S) \in S
         /\ S = {} => NewestStamp(S) = 0
<1>1. CASE S # {}
  <2>1. \E n \in S : \A m \in S : n >= m
    BY <1>1, Greatest, ChatAssumption DEF ChatMsg
  <2>2. Max(S) \in S /\ \A m \in S : Max(S) >= m
    BY <2>1, Zenon DEF Max
  <2>3. NewestStamp(S) = Max(S)
    BY <1>1 DEF NewestStamp
  <2>4. Max(S) \in ChatMsg
    BY <2>2
  <2>5. \A m \in S : m \in Int
    BY DEF ChatMsg
  <2> QED
    BY <1>1, <2>2, <2>3, <2>4, <2>5, ChatAssumption DEF ChatMsg
<1>2. CASE S = {}
  BY <1>2, ChatAssumption DEF NewestStamp
<1> QED
  BY <1>1, <1>2
\* The oldest of some messages.
LEMMA MinOf ==
  ASSUME NEW S \in SUBSET ChatMsg, S # {}
  PROVE  /\ Min(S) \in S
         /\ \A m \in S : Min(S) <= m
<1>2. S \subseteq Nat
  BY ChatAssumption DEF ChatMsg
<1>1. \E n \in S : \A m \in S : n <= m
  BY <1>2, Least
<1> QED
  BY <1>1, Zenon DEF Min
\* More messages have no older newest one.
LEMMA StampGrows ==
  ASSUME NEW S \in SUBSET ChatMsg, NEW T \in SUBSET S
  PROVE  NewestStamp(T) <= NewestStamp(S)
<1>1. T \in SUBSET ChatMsg
  OBVIOUS
<1>2. /\ NewestStamp(S) \in 0 .. MaxChat
      /\ \A m \in S : m <= NewestStamp(S)
  BY StampMax
<1>3. /\ T # {} => NewestStamp(T) \in T
      /\ T = {} => NewestStamp(T) = 0
  BY <1>1, StampMax
<1> QED
  BY <1>2, <1>3, ChatAssumption

\* What a mounted view holds.
LEMMA MountedFacts ==
  ASSUME NEW w \in Mounted
  PROVE  /\ w # Closed /\ w.at = "open"
         /\ Reach(w) \in SUBSET ChatMsg /\ w.shows \in SUBSET ChatMsg
         /\ w.passed \in SUBSET ChatMsg /\ w.post \in SUBSET ChatMsg
         /\ w.poll.rows \in SUBSET ChatMsg /\ w.history.rows \in SUBSET ChatMsg
         /\ NewestStamp(Reach(w)) \in 0 .. MaxChat
         /\ NewestStamp(w.shows) \in 0 .. MaxChat
         /\ w.poll.since \in 0 .. MaxChat /\ w.poll.asked \in 0 .. MaxChat
         /\ w.floor \in 0 .. MaxChat + 1
         /\ w.history.first \in BOOLEAN
         /\ w.history \in [at : {"first", "answered", "idle"}, first : BOOLEAN, rows : SUBSET ChatMsg]
         /\ w.poll \in [at : {"idle", "asked", "answered"}, asked : 0 .. MaxChat, since : 0 .. MaxChat,
             rows : SUBSET ChatMsg]
         /\ NewestStamp(w.shows) <= NewestStamp(Reach(w))
<1>1. w # Closed /\ w.at = "open"
  BY DEF Mounted, Closed
<1>2. /\ Reach(w) \in SUBSET ChatMsg /\ w.shows \in SUBSET Reach(w)
  BY DEF Mounted, Reach
<1>3. NewestStamp(w.shows) <= NewestStamp(Reach(w))
  BY <1>2, StampGrows
<1> QED
  BY <1>1, <1>2, <1>3, StampMax DEF Mounted

\* What happens elsewhere.
LEMMA Elsewhere ==
  ASSUME NEW w \in Mounted, NEW z \in Mounted, NEW old \in SUBSET ChatMsg, NEW new \in SUBSET ChatMsg,
         Sound(w, old), old \subseteq new,
         z.shows = w.shows, z.post = w.post, z.floor = w.floor, z.poll = w.poll, z.history = w.history,
         w.passed \subseteq z.passed, z.passed \subseteq new,
         \A m \in new \ old : m \in z.passed \/ m > NewestStamp(Reach(w))
  PROVE  Sound(z, new)
<1>1. Reach(z) = Reach(w) /\ Begun(z) = Begun(w)
  BY DEF Reach, Begun
<1>2. NewestStamp(Reach(w)) \in 0 .. MaxChat
  BY MountedFacts
<1>3. ASSUME z.history.at # "first", NEW m \in new \ z.passed,
             Begun(z) <= m, m <= NewestStamp(Reach(z))
      PROVE  m \in Reach(z)
  <2>1. m \in old
    BY <1>1, <1>2, <1>3 DEF ChatMsg
  <2> QED
    BY <1>1, <1>3, <2>1 DEF Sound, Gapless
<1>4. Gapless(z, new)
  BY <1>3 DEF Gapless
<1> QED
  BY <1>1, <1>4 DEF Sound

\* Moving what was answered.
LEMMA Merged ==
  ASSUME NEW w \in Mounted, NEW z \in Mounted, NEW rows \in SUBSET ChatMsg,
         Sound(w, rows), z.passed = w.passed, Reach(z) = Reach(w), Begun(z) = Begun(w),
         w.history.at # "first" \/ z.history.at = "first"
  PROVE  Gapless(z, rows)
<1>1. z.history.at # "first" => w.history.at # "first"
  OBVIOUS
<1> QED
  BY <1>1, Zenon DEF Sound, Gapless

\* The rows newer than one of them.
Above(rows, m) == {n \in rows : n > m}

\* The older the row, the more are newer.
LEMMA AboveSize ==
  ASSUME NEW rows \in SUBSET ChatMsg, NEW m \in ChatMsg, NEW k \in ChatMsg, k <= m
  PROVE  /\ IsFiniteSet(Above(rows, m)) /\ Cardinality(Above(rows, m)) \in Nat
         /\ Cardinality(Above(rows, m)) <= Cardinality(Above(rows, k))
<1>1. IsFiniteSet(ChatMsg)
  BY FS_Interval, ChatAssumption DEF ChatMsg
<1>2. Above(rows, k) \subseteq ChatMsg /\ Above(rows, m) \subseteq ChatMsg
  BY DEF Above
<1>3. ASSUME NEW n \in rows, n > m
      PROVE  n > k
  BY <1>3, ChatAssumption DEF ChatMsg
<1>4. Above(rows, m) \subseteq Above(rows, k)
  BY <1>3 DEF Above
<1> QED
  BY <1>1, <1>2, <1>4, FS_Subset, FS_CardinalityType

\* A page is the newest rows up to one of them.
LEMMA PageIsNewest ==
  ASSUME NEW rows \in SUBSET ChatMsg
  PROVE  /\ NewestPage(rows) \subseteq rows
         /\ \A m, n \in rows : n \in NewestPage(rows) /\ n <= m => m \in NewestPage(rows)
<1>1. \A m \in rows : m \in NewestPage(rows) <=> Cardinality(Above(rows, m)) < ChatPage
  BY DEF NewestPage, Above
<1>2. ASSUME NEW m \in rows, NEW n \in rows, n \in NewestPage(rows), n <= m
      PROVE  m \in NewestPage(rows)
  <2>1. /\ Cardinality(Above(rows, m)) \in Nat
        /\ Cardinality(Above(rows, m)) <= Cardinality(Above(rows, n))
    BY <1>2, AboveSize
  <2>2. Cardinality(Above(rows, n)) \in Nat
    BY AboveSize DEF ChatMsg
  <2> QED
    BY <1>1, <1>2, <2>1, <2>2, ChatAssumption
<1> QED
  BY <1>2 DEF NewestPage

\* A page that is not full holds everything.
LEMMA PageFull ==
  ASSUME NEW rows \in SUBSET ChatMsg, Cardinality(NewestPage(rows)) # ChatPage
  PROVE  NewestPage(rows) = rows
<1> DEFINE page == NewestPage(rows)
           left == rows \ page
<1>1. /\ \A m \in rows : m \in page <=> Cardinality(Above(rows, m)) < ChatPage
      /\ page \subseteq rows
      /\ \A m, n \in rows : n \in page /\ n <= m => m \in page
  BY PageIsNewest DEF NewestPage, Above
<1>2. \A m \in ChatMsg : IsFiniteSet(Above(rows, m)) /\ Cardinality(Above(rows, m)) \in Nat
  BY AboveSize DEF ChatMsg
<1> HIDE DEF page
<1>3. SUFFICES ASSUME left # {} PROVE FALSE
  BY <1>1 DEF page
<1>4. PICK g \in left : \A m \in left : g >= m
  BY <1>3, Greatest, ChatAssumption DEF ChatMsg
<1>5. page = Above(rows, g)
  <2>1. ASSUME NEW m \in page
        PROVE  m > g
    BY <1>1, <1>4, ChatAssumption DEF ChatMsg
  <2>2. ASSUME NEW m \in rows, m > g
        PROVE  m \in page
    BY <1>4, <2>2, ChatAssumption DEF ChatMsg
  <2> QED
    BY <1>1, <2>1, <2>2 DEF Above
<1>6. Cardinality(page) \in Nat /\ Cardinality(page) >= ChatPage /\ IsFiniteSet(page)
  BY <1>1, <1>2, <1>4, <1>5, ChatAssumption
<1>7. page # {} /\ page \in SUBSET ChatMsg
  BY <1>1, <1>6, FS_EmptySet, ChatAssumption
<1>8. PICK x \in page : \A m \in page : x <= m
  BY <1>7, MinOf
<1>13. page \in SUBSET Int /\ rows \in SUBSET Int /\ x \in Int /\ x \in ChatMsg /\ x \in rows
  BY <1>1, <1>7, ChatAssumption DEF ChatMsg
<1>9. page = Above(rows, x) \cup {x}
  <2>1. ASSUME NEW m \in page, m # x
        PROVE  m > x
    BY <1>8, <1>13, <2>1
  <2>2. ASSUME NEW m \in rows, m > x
        PROVE  m \in page
    <3>1. x <= m /\ x \in rows
      BY <1>13, <2>2
    <3> QED
      BY <1>1, <3>1
  <2> QED
    BY <1>1, <1>8, <2>1, <2>2 DEF Above
<1>10. Cardinality(page) = Cardinality(Above(rows, x)) + 1
  <2>1. x \notin Above(rows, x) /\ x \in ChatMsg
    BY <1>13 DEF Above
  <2>2. IsFiniteSet(Above(rows, x))
    BY <1>2, <2>1
  <2> QED
    BY <1>9, <2>1, <2>2, FS_AddElement
<1>11. Cardinality(Above(rows, x)) < ChatPage /\ Cardinality(Above(rows, x)) \in Nat
  BY <1>1, <1>2, <1>13
<1>12. Cardinality(page) # ChatPage
  BY DEF page
<1> QED
  BY <1>6, <1>10, <1>11, <1>12, ChatAssumption

\* The first page of the past leaves no gap.
LEMMA FirstPageGapless ==
  ASSUME NEW w \in Mounted, NEW rows \in SUBSET ChatMsg, w.history.first,
         w.history.rows = NewestPage(rows)
  PROVE  Gapless(w, rows)
<1> DEFINE page == NewestPage(rows)
<1>1. page \subseteq Reach(w) /\ page \in SUBSET ChatMsg
  BY PageIsNewest DEF Reach
<1>2. CASE Cardinality(page) = ChatPage
  <2>1. page # {}
    BY <1>2, FS_EmptySet, ChatAssumption
  <2>2. Min(page) \in page
    BY <1>1, <2>1, MinOf
  <2>3. Begun(w) = Min(page)
    BY <1>2 DEF Begun
  <2>4. \A m \in rows : Min(page) <= m => m \in page
    BY <2>2, PageIsNewest
  <2> QED
    BY <1>1, <2>3, <2>4 DEF Gapless
<1>3. CASE Cardinality(page) # ChatPage
  BY <1>1, <1>3, PageFull DEF Gapless
<1> QED
  BY <1>2, <1>3

\* What the invariant tells of the rows.
LEMMA ChatFacts ==
  ASSUME ChatInv
  PROVE  /\ Latest = Cardinality(Taken) /\ Latest \in 0 .. MaxChat
         /\ ChatRows \in SUBSET ChatMsg
         /\ \A m \in ChatMsg : mail[m] \in Mails
         /\ \A m \in ChatMsg : mail[m] # NoMail <=> m <= Latest
         /\ \A m \in ChatRows : m <= Latest
         /\ \A v \in View : view[v] # Closed => view[v] \in Mounted /\ Sound(view[v], ChatRows)
<1>1. Latest = Cardinality(Taken)
  BY DEF Latest, Taken
<1>2. IsFiniteSet(ChatMsg) /\ Cardinality(ChatMsg) = MaxChat /\ Taken \in SUBSET ChatMsg
  BY FS_Interval, ChatAssumption DEF ChatMsg, Taken
<1>3. Cardinality(Taken) \in Nat /\ Cardinality(Taken) <= MaxChat
  BY <1>2, FS_Subset, FS_CardinalityType
<1>4. \A m \in ChatMsg : mail[m] # NoMail <=> m <= Latest
  <2>1. \A m \in ChatMsg : m \in Taken <=> m \in 1 .. Latest
    BY DEF ChatInv
  <2> QED
    BY <1>1, <1>3, <2>1, ChatAssumption DEF Taken, ChatMsg
<1>5. \A m \in ChatRows : m \in ChatMsg /\ mail[m] # NoMail
  BY DEF ChatRows, NoMail
<1>6. \A v \in View : view[v] # Closed => view[v] \in Mounted /\ Sound(view[v], ChatRows)
  BY DEF ChatInv
<1>7. \A m \in ChatMsg : mail[m] \in Mails
  BY DEF ChatInv
<1> QED
  BY <1>1, <1>3, <1>4, <1>5, <1>6, <1>7, ChatAssumption

\* A message takes the next time.
LEMMA TakeNext ==
  ASSUME ChatInv, NEW m \in ChatMsg, m = Latest + 1,
         NEW row \in [at : {"stamped", "inbox", "chat"}, by : Exec \cup {"human"}],
         mail' = [mail EXCEPT ![m] = row]
  PROVE  /\ mail' \in [ChatMsg -> Mails]
         /\ Taken' = 1 .. Latest'
         /\ ChatRows' = IF row.at = "chat" THEN ChatRows \cup {m} ELSE ChatRows
         /\ \A n \in ChatRows : n < m
         /\ m \notin ChatRows
<1>1. row # NoMail /\ row \in Mails
  BY DEF NoMail, Mails
<1>2. mail \in [ChatMsg -> Mails] /\ mail' \in [ChatMsg -> Mails]
  BY <1>1 DEF ChatInv
<1>3. Taken' = Taken \cup {m}
  BY <1>1, <1>2 DEF Taken
<1>4. Latest' = Cardinality(Taken')
  BY DEF Latest, Taken
<1>5. /\ Taken = 1 .. Latest /\ Latest \in 0 .. MaxChat
      /\ \A n \in ChatRows : n <= Latest /\ n \in ChatMsg
  BY ChatFacts DEF ChatInv
<1>6. Taken' = 1 .. m
  BY <1>3, <1>5, ChatAssumption DEF ChatMsg
<1>7. Cardinality(Taken') = m
  BY <1>5, <1>6, FS_Interval, ChatAssumption
<1>8. \A n \in ChatRows : n < m
  BY <1>5, ChatAssumption DEF ChatMsg
<1>9. \A n \in ChatMsg : mail'[n] = IF n = m THEN row ELSE mail[n]
  BY <1>2
<1>10. m \notin ChatRows
  BY <1>8 DEF ChatMsg
<1>11. ChatRows' = IF row.at = "chat" THEN ChatRows \cup {m} ELSE ChatRows
  BY <1>9, <1>10 DEF ChatRows
<1> QED
  BY <1>2, <1>4, <1>6, <1>7, <1>8, <1>10, <1>11

\* No message takes a time.
LEMMA NoneTaken ==
  ASSUME ChatInv, mail' \in [ChatMsg -> Mails],
         \A m \in ChatMsg : mail'[m] = NoMail <=> mail[m] = NoMail
  PROVE  Taken' = 1 .. Latest'
<1>1. Taken' = Taken
  BY DEF Taken
<1>2. Latest' = Latest
  BY <1>1 DEF Latest, Taken
<1> QED
  BY <1>1, <1>2 DEF ChatInv

\* Views that stay as they are.
LEMMA StillSound ==
  ASSUME ChatInv, ChatRows \subseteq ChatRows', ChatRows' \subseteq ChatMsg, NEW v \in View, view[v] # Closed,
         \A m \in ChatRows' \ ChatRows : m > Latest
  PROVE  Sound(view[v], ChatRows')
<1>1. view[v] \in Mounted /\ Sound(view[v], ChatRows) /\ ChatRows \in SUBSET ChatMsg
  BY ChatFacts
<1>2. NewestStamp(Reach(view[v])) <= Latest
  <2>1. /\ NewestStamp(Reach(view[v])) \in 0 .. MaxChat
        /\ Reach(view[v]) # {} => NewestStamp(Reach(view[v])) \in Reach(view[v])
        /\ Reach(view[v]) = {} => NewestStamp(Reach(view[v])) = 0
    BY <1>1, MountedFacts, StampMax
  <2>2. Reach(view[v]) \subseteq ChatRows
    BY <1>1 DEF Sound
  <2> QED
    BY <2>1, <2>2, ChatFacts
<1>3. ASSUME NEW m \in ChatRows' \ ChatRows
      PROVE  m > NewestStamp(Reach(view[v]))
  <2>1. m > Latest /\ m \in ChatMsg
    OBVIOUS
  <2>2. Latest \in 0 .. MaxChat /\ NewestStamp(Reach(view[v])) \in 0 .. MaxChat
    BY <1>1, ChatFacts, MountedFacts
  <2> QED
    BY <1>2, <2>1, <2>2, ChatAssumption DEF ChatMsg
<1>4. view[v].passed \subseteq ChatRows'
  BY <1>1 DEF Sound
<1> QED
  BY <1>1, <1>3, <1>4, Elsewhere

\* What a step has to keep.
ChatKept ==
    /\ mail' \in [ChatMsg -> Mails]
    /\ Taken' = 1 .. Latest'
    /\ view' \in [View -> {Closed} \cup Mounted]
    /\ \A v \in View : view'[v] # Closed => Sound(view'[v], ChatRows')

\* The relay takes a reply or a message, and no view hears of it.
LEMMA RelayStep ==
  ASSUME ChatInv, UNCHANGED view,
         \/ \E e \in Exec, m \in ChatMsg : StampReply(e, m)
         \/ \E m \in ChatMsg : InsertReply(m) \/ PostElsewhere(m)
         \/ UNCHANGED mail
  PROVE  ChatKept
<1>1. ChatRows \in SUBSET ChatMsg /\ Latest \in 0 .. MaxChat /\ view \in [View -> {Closed} \cup Mounted]
  BY ChatFacts DEF ChatInv
<1>2. ASSUME ChatRows \subseteq ChatRows', ChatRows' \subseteq ChatMsg,
             \A m \in ChatRows' \ ChatRows : m > Latest
      PROVE  \A v \in View : view'[v] # Closed => Sound(view'[v], ChatRows')
  BY <1>2, StillSound
<1>3. ASSUME NEW e \in Exec, NEW m \in ChatMsg, StampReply(e, m)
      PROVE  ChatKept
  <2> DEFINE row == [at |-> "stamped", by |-> e]
  <2>1. row \in [at : {"stamped", "inbox", "chat"}, by : Exec \cup {"human"}] /\ row.at # "chat"
    OBVIOUS
  <2>2. m = Latest + 1 /\ mail' = [mail EXCEPT ![m] = row]
    BY <1>3 DEF StampReply
  <2> HIDE DEF row
  <2>3. mail' \in [ChatMsg -> Mails] /\ Taken' = 1 .. Latest' /\ ChatRows' = ChatRows
    BY <2>1, <2>2, TakeNext
  <2> QED
    BY <1>1, <1>2, <2>3 DEF ChatKept
<1>4. ASSUME NEW m \in ChatMsg, PostElsewhere(m)
      PROVE  ChatKept
  <2> DEFINE row == [at |-> "chat", by |-> "human"]
  <2>1. row \in [at : {"stamped", "inbox", "chat"}, by : Exec \cup {"human"}] /\ row.at = "chat"
    OBVIOUS
  <2>2. m = Latest + 1 /\ mail' = [mail EXCEPT ![m] = row]
    BY <1>4 DEF PostElsewhere
  <2> HIDE DEF row
  <2>3. mail' \in [ChatMsg -> Mails] /\ Taken' = 1 .. Latest' /\ ChatRows' = ChatRows \cup {m}
    BY <2>1, <2>2, TakeNext
  <2>4. m > Latest
    BY <1>1, <2>2
  <2> QED
    BY <1>1, <1>2, <2>3, <2>4 DEF ChatKept
<1>5. ASSUME NEW m \in ChatMsg, InsertReply(m)
      PROVE  ChatKept
  <2>1. /\ mail \in [ChatMsg -> Mails] /\ mail[m] \in Mails /\ mail[m].at = "stamped"
        /\ mail' = [mail EXCEPT ![m] = [mail[m] EXCEPT !.at = "inbox"]]
    BY <1>5 DEF InsertReply, ChatInv
  <2>2. mail[m] \in [at : {"stamped", "inbox", "chat"}, by : Exec \cup {"human"}]
    BY <2>1 DEF Mails, NoMail
  <2> DEFINE row == [mail[m] EXCEPT !.at = "inbox"]
  <2>3. row \in [at : {"stamped", "inbox", "chat"}, by : Exec \cup {"human"}] /\ row.at = "inbox"
    BY <2>2
  <2> HIDE DEF row
  <2>4. row # NoMail /\ row \in Mails /\ mail[m] # NoMail
    BY <2>1, <2>3 DEF NoMail, Mails
  <2>5. mail' = [mail EXCEPT ![m] = row]
    BY <2>1 DEF row
  <2>6. \A n \in ChatMsg : mail'[n] = IF n = m THEN row ELSE mail[n]
    BY <2>1, <2>5
  <2>7. mail' \in [ChatMsg -> Mails] /\ Taken' = 1 .. Latest'
    BY <2>1, <2>4, <2>5, <2>6, NoneTaken
  <2>8. ChatRows' = ChatRows
    BY <2>1, <2>3, <2>6 DEF ChatRows
  <2> QED
    BY <1>1, <1>2, <2>7, <2>8 DEF ChatKept
<1>6. CASE UNCHANGED mail
  <2>1. ChatRows' = ChatRows /\ mail' \in [ChatMsg -> Mails] /\ Taken' = 1 .. Latest'
    BY <1>6, NoneTaken DEF ChatInv, ChatRows
  <2> QED
    BY <1>1, <1>2, <2>1 DEF ChatKept
<1> QED
  BY <1>3, <1>4, <1>5, <1>6

\* A view that moves alone.
LEMMA OneView ==
  ASSUME ChatInv, UNCHANGED mail, NEW v \in View, NEW z \in {Closed} \cup Mounted,
         view' = [view EXCEPT ![v] = z], z # Closed => Sound(z, ChatRows)
  PROVE  ChatKept
<1>1. ChatRows' = ChatRows /\ mail' \in [ChatMsg -> Mails] /\ Taken' = 1 .. Latest'
  BY NoneTaken DEF ChatInv, ChatRows
<1>2. view \in [View -> {Closed} \cup Mounted] /\ view' \in [View -> {Closed} \cup Mounted]
  BY DEF ChatInv
<1>3. \A u \in View : view'[u] = IF u = v THEN z ELSE view[u]
  BY <1>2
<1>4. \A u \in View : view'[u] # Closed => Sound(view'[u], ChatRows)
  BY <1>3, ChatFacts
<1> QED
  BY <1>1, <1>2, <1>4 DEF ChatKept

\* A view is mounted, or is no longer there.
LEMMA MountStep ==
  ASSUME ChatInv, NEW v \in View, OpenView(v) \/ CloseView(v)
  PROVE  ChatKept
<1>1. CASE CloseView(v)
  <2>1. mail' = mail /\ view' = [view EXCEPT ![v] = Closed]
    BY <1>1 DEF CloseView
  <2> QED
    BY <2>1, OneView
<1>2. CASE OpenView(v)
  <2> DEFINE z == [at |-> "open", shows |-> {}, post |-> {}, passed |-> {}, floor |-> MaxChat + 1, hasMore |-> FALSE,
           poll |-> Asking(0),
           history |-> [at |-> "first", first |-> TRUE, rows |-> {}]]
  <2>1. Latest \in 0 .. MaxChat
    BY ChatFacts
  <2>2. Asking(0) \in [at : {"idle", "asked", "answered"}, asked : 0 .. MaxChat, since : 0 .. MaxChat,
             rows : SUBSET ChatMsg]
    BY <2>1, ChatAssumption DEF Asking
  <2>3. z \in Mounted
    BY <2>2, ChatAssumption DEF Mounted
  <2>4. /\ z.poll.at = "asked" /\ z.poll.rows = {} /\ z.poll.since = 0
        /\ z.history.at = "first" /\ z.history.first /\ z.history.rows = {}
        /\ z.floor = MaxChat + 1 /\ z.shows = {} /\ z.post = {} /\ z.passed = {}
    BY DEF Asking
  <2>5. view' = [view EXCEPT ![v] = z] /\ mail' = mail
    BY <1>2 DEF OpenView
  <2> HIDE DEF z
  <2>6. Sound(z, ChatRows)
    BY <2>3, <2>4, MountedFacts DEF Sound, Gapless, Reach
  <2> QED
    BY <2>3, <2>5, <2>6, OneView
<1> QED
  BY <1>1, <1>2

\* One poll at a time, from the newest entry shown.
LEMMA PollStep ==
  ASSUME ChatInv, NEW v \in View, PollOnce(v)
  PROVE  ChatKept
<1> DEFINE w == view[v]
           z == [w EXCEPT !.poll = Asking(NewestStamp(w.shows))]
<1>1. view[v].at = "open" /\ view[v].poll = NotPolling /\ mail' = mail /\ view' = [view EXCEPT ![v] = z]
  BY DEF PollOnce, Cursor
<1>2. w \in Mounted /\ Sound(w, ChatRows) /\ ChatRows \in SUBSET ChatMsg /\ Latest \in 0 .. MaxChat
  BY <1>1, ChatFacts DEF Closed
<1>3. NewestStamp(w.shows) \in 0 .. MaxChat
  BY <1>2, MountedFacts
<1>4. Asking(NewestStamp(w.shows)) \in [at : {"idle", "asked", "answered"}, asked : 0 .. MaxChat, since : 0 .. MaxChat,
             rows : SUBSET ChatMsg]
  BY <1>2, <1>3, ChatAssumption DEF Asking
<1>5. w.poll.rows = {}
  BY <1>1 DEF NotPolling
<1>6. /\ Asking(NewestStamp(w.shows)).at = "asked" /\ Asking(NewestStamp(w.shows)).rows = {}
      /\ Asking(NewestStamp(w.shows)).since = NewestStamp(w.shows)
  BY DEF Asking
<1> HIDE DEF w
<1>7. z \in Mounted
  BY <1>2, <1>4 DEF Mounted
<1>8. /\ z.shows = w.shows /\ z.post = w.post /\ z.passed = w.passed /\ z.floor = w.floor
      /\ z.history = w.history /\ z.poll = Asking(NewestStamp(w.shows))
  BY <1>2 DEF Mounted
<1> HIDE DEF z
<1>9. Reach(z) = Reach(w) /\ Begun(z) = Begun(w)
  BY <1>5, <1>6, <1>8 DEF Reach, Begun
<1>10. Gapless(z, ChatRows)
  BY <1>2, <1>7, <1>8, <1>9, Merged
<1>11. Sound(z, ChatRows)
  BY <1>2, <1>3, <1>6, <1>8, <1>9, <1>10 DEF Sound
<1> QED
  BY <1>1, <1>7, <1>11, OneView

\* An answer joins what is shown.
LEMMA MergeStep ==
  ASSUME ChatInv, NEW v \in View, MergePoll(v) \/ MergePost(v)
  PROVE  ChatKept
<1> DEFINE w == view[v]
<1>1. w.at = "open" /\ mail' = mail
  BY DEF MergePoll, MergePost
<1>2. w \in Mounted /\ Sound(w, ChatRows) /\ ChatRows \in SUBSET ChatMsg
  BY <1>1, ChatFacts DEF Closed
<1> DEFINE Joined(z, rows) ==
      /\ view' = [view EXCEPT ![v] = z] /\ z \in Mounted
      /\ z.shows = w.shows \cup rows /\ rows \subseteq Reach(w)
      /\ z.passed = w.passed /\ z.floor = w.floor /\ z.history = w.history
      /\ Reach(z) = Reach(w)
      /\ z.poll = w.poll \/ z.poll = NotPolling
<1>3. ASSUME NEW z, NEW rows, Joined(z, rows)
      PROVE  ChatKept
  <2> USE <1>3
  <2> HIDE DEF w
  <2>1. Begun(z) = Begun(w)
    BY DEF Begun
  <2>2. Gapless(z, ChatRows)
    BY <1>2, <2>1, Merged
  <2>3. NewestStamp(w.shows) <= NewestStamp(z.shows)
    BY MountedFacts, StampGrows
  <2>4. /\ NewestStamp(w.shows) \in 0 .. MaxChat /\ NewestStamp(z.shows) \in 0 .. MaxChat
        /\ w.poll.since \in 0 .. MaxChat
    BY <1>2, MountedFacts
  <2>5. z.poll.since <= NewestStamp(z.shows)
    <3>1. CASE z.poll = w.poll
      BY <1>2, <2>3, <2>4, <3>1, ChatAssumption DEF Sound
    <3>2. CASE z.poll = NotPolling
      BY <2>4, <3>2 DEF NotPolling
    <3> QED
      BY <3>1, <3>2
  <2>6. z.poll.at # "answered" => z.poll.rows = {}
    BY <1>2 DEF Sound, NotPolling
  <2>7. Sound(z, ChatRows)
    BY <1>2, <2>2, <2>5, <2>6 DEF Sound
  <2> QED
    BY <1>1, <2>7, OneView DEF w
<1>4. CASE MergePoll(v)
  <2> DEFINE z == [w EXCEPT !.shows = @ \cup w.poll.rows, !.poll = NotPolling]
  <2>1. view' = [view EXCEPT ![v] = z]
    BY <1>4 DEF MergePoll
  <2>2. NotPolling \in [at : {"idle", "asked", "answered"}, asked : 0 .. MaxChat, since : 0 .. MaxChat,
             rows : SUBSET ChatMsg] /\ NotPolling.rows = {}
    BY ChatAssumption DEF NotPolling
  <2>3. w.poll.rows \in SUBSET ChatMsg
    BY <1>2, MountedFacts
  <2> HIDE DEF w
  <2>4. z \in Mounted
    BY <1>2, <2>2, <2>3 DEF Mounted
  <2>5. /\ z.shows = w.shows \cup w.poll.rows /\ z.passed = w.passed /\ z.floor = w.floor
        /\ z.history = w.history /\ z.poll = NotPolling /\ z.post = w.post
    BY <1>2 DEF Mounted
  <2> HIDE DEF z
  <2>6. Reach(z) = Reach(w) /\ w.poll.rows \subseteq Reach(w)
    BY <2>2, <2>5 DEF Reach
  <2>7. Joined(z, w.poll.rows)
    BY <2>1, <2>4, <2>5, <2>6
  <2> QED
    BY <1>3, <2>7
<1>5. CASE MergePost(v)
  <2> DEFINE z == [w EXCEPT !.shows = @ \cup w.post, !.post = {}]
  <2>1. view' = [view EXCEPT ![v] = z]
    BY <1>5 DEF MergePost
  <2> HIDE DEF w
  <2>4. z \in Mounted
    BY <1>2 DEF Mounted
  <2>5. /\ z.shows = w.shows \cup w.post /\ z.passed = w.passed /\ z.floor = w.floor
        /\ z.history = w.history /\ z.poll = w.poll /\ z.post = {}
    BY <1>2 DEF Mounted
  <2> HIDE DEF z
  <2>6. Reach(z) = Reach(w) /\ w.post \subseteq Reach(w)
    BY <2>5 DEF Reach
  <2>7. Joined(z, w.post)
    BY <2>1, <2>4, <2>5, <2>6
  <2> QED
    BY <1>3, <2>7
<1> QED
  BY <1>4, <1>5

\* An answer is lost on its way.
LEMMA LoseStep ==
  ASSUME ChatInv, NEW v \in View, LosePoll(v)
  PROVE  ChatKept
<1> DEFINE w == view[v]
           rest == w.shows \cup w.history.rows \cup w.post
           behind == {m \in w.poll.rows : m < NewestStamp(rest)}
           z == [w EXCEPT !.poll = NotPolling, !.passed = @ \cup (behind \ rest)]
<1>1. w.at = "open" /\ mail' = mail /\ view' = [view EXCEPT ![v] = z]
  BY DEF LosePoll
<1>2. w \in Mounted /\ Sound(w, ChatRows) /\ ChatRows \in SUBSET ChatMsg
  BY <1>1, ChatFacts DEF Closed
<1>3. NotPolling \in [at : {"idle", "asked", "answered"}, asked : 0 .. MaxChat, since : 0 .. MaxChat,
             rows : SUBSET ChatMsg]
      /\ NotPolling.rows = {} /\ NotPolling.since = 0 /\ NotPolling.at = "idle"
  BY ChatAssumption DEF NotPolling
<1> HIDE DEF w
<1>4. behind \in SUBSET w.poll.rows /\ w.poll.rows \in SUBSET ChatMsg
  BY <1>2, MountedFacts
<1> HIDE DEF rest, behind
<1>5. z \in Mounted
  BY <1>2, <1>3, <1>4 DEF Mounted
<1>6. /\ z.shows = w.shows /\ z.passed = w.passed \cup (behind \ rest) /\ z.floor = w.floor
      /\ z.history = w.history /\ z.poll = NotPolling /\ z.post = w.post
  BY <1>2 DEF Mounted
<1> HIDE DEF z
<1>7. Reach(z) = rest /\ Reach(w) = rest \cup w.poll.rows
  BY <1>3, <1>6 DEF Reach, rest
<1>8. /\ NewestStamp(rest) \in 0 .. MaxChat /\ NewestStamp(Reach(w)) \in 0 .. MaxChat
      /\ NewestStamp(rest) <= NewestStamp(Reach(w))
      /\ rest # {} => NewestStamp(rest) \in rest
      /\ rest = {} => NewestStamp(rest) = 0
  <2>1. rest \in SUBSET Reach(w) /\ Reach(w) \in SUBSET ChatMsg /\ rest \in SUBSET ChatMsg
    BY <1>2, <1>7, MountedFacts
  <2> QED
    BY <2>1, StampMax, StampGrows
<1>9. ASSUME z.history.at # "first", NEW m \in ChatRows \ z.passed, Begun(z) <= m, m <= NewestStamp(rest)
      PROVE  m \in rest
  <2>1. m \in ChatMsg /\ m <= NewestStamp(Reach(w))
    <3>1. m \in ChatMsg
      BY <1>2
    <3> QED
      BY <1>8, <1>9, <3>1, ChatAssumption DEF ChatMsg
  <2>2. Begun(z) = Begun(w) /\ w.history.at # "first" /\ m \notin w.passed
    BY <1>6, <1>9 DEF Begun
  <2>3. m \in Reach(w)
    BY <1>2, <1>9, <2>1, <2>2 DEF Sound, Gapless
  <2>4. CASE m \in w.poll.rows /\ m \notin rest
    <3>1. ~(m < NewestStamp(rest))
      BY <1>6, <1>9, <2>4 DEF behind
    <3>2. m = NewestStamp(rest)
      BY <1>8, <1>9, <2>1, <3>1 DEF ChatMsg
    <3> QED
      BY <1>8, <2>1, <3>2 DEF ChatMsg
  <2> QED
    BY <1>7, <2>3, <2>4
<1>10. Gapless(z, ChatRows)
  BY <1>7, <1>9 DEF Gapless
<1>11. NewestStamp(z.shows) \in 0 .. MaxChat
  BY <1>5, MountedFacts
<1>12. Sound(z, ChatRows)
  BY <1>2, <1>3, <1>4, <1>6, <1>7, <1>10, <1>11 DEF Sound
<1> QED
  BY <1>1, <1>5, <1>12, OneView

\* The first page of the past is answered.
LEMMA HistoryStep ==
  ASSUME ChatInv, NEW v \in View, GetChatHistory(v)
  PROVE  ChatKept
<1> DEFINE w == view[v]
           page == NewestPage(ChatRows)
           z == [w EXCEPT !.history = [w.history EXCEPT !.at = "answered", !.rows = page]]
<1>1. /\ w.at = "open" /\ w.history.at = "first" /\ mail' = mail
      /\ view' = [view EXCEPT ![v].history.at = "answered", ![v].history.rows = page]
  BY DEF GetChatHistory
<1>2. w \in Mounted /\ Sound(w, ChatRows) /\ ChatRows \in SUBSET ChatMsg
  BY <1>1, ChatFacts DEF Closed
<1>3. page \in SUBSET ChatMsg /\ page \subseteq ChatRows
  BY <1>2, PageIsNewest
<1> HIDE DEF page
<1>4. w.history \in [at : {"first", "answered", "idle"}, first : BOOLEAN, rows : SUBSET ChatMsg]
  BY <1>2, MountedFacts
<1>5. view' = [view EXCEPT ![v] = z]
  BY <1>1, <1>2, <1>4 DEF Mounted, ChatInv
<1> HIDE DEF w
<1>6. [w.history EXCEPT !.at = "answered", !.rows = page]
         \in [at : {"first", "answered", "idle"}, first : BOOLEAN, rows : SUBSET ChatMsg]
  BY <1>3, <1>4
<1>7. z \in Mounted
  BY <1>2, <1>6 DEF Mounted
<1>8. /\ z.shows = w.shows /\ z.passed = w.passed /\ z.floor = w.floor /\ z.poll = w.poll /\ z.post = w.post
      /\ z.history.at = "answered" /\ z.history.rows = page /\ z.history.first = w.history.first
  BY <1>2, <1>4 DEF Mounted
<1> HIDE DEF z
<1>9. z.history.first
  BY <1>1, <1>2, <1>8 DEF Sound
<1>10. Gapless(z, ChatRows)
  BY <1>2, <1>7, <1>8, <1>9, FirstPageGapless DEF page
<1>11. Reach(z) \subseteq ChatRows
  BY <1>2, <1>3, <1>8 DEF Reach, Sound
<1>12. Sound(z, ChatRows)
  BY <1>1, <1>2, <1>8, <1>9, <1>10, <1>11 DEF Sound
<1> QED
  BY <1>1, <1>5, <1>7, <1>12, OneView

\* A page of the past is merged.
LEMMA PastStep ==
  ASSUME ChatInv, NEW v \in View, MergeHistory(v)
  PROVE  ChatKept
<1> DEFINE w == view[v]
           page == w.history.rows
           past == [at |-> "idle", first |-> FALSE, rows |-> {}]
           z == [w EXCEPT !.shows = @ \cup page, !.hasMore = (Cardinality(page) = ChatPage),
                          !.floor = Begun(w), !.history = past]
<1>1. w.at = "open" /\ w.history.at = "answered" /\ mail' = mail
  BY DEF MergeHistory
<1>2. w \in Mounted /\ Sound(w, ChatRows) /\ ChatRows \in SUBSET ChatMsg
  BY <1>1, ChatFacts DEF Closed
<1>3. view' = [view EXCEPT ![v] = z]
  BY DEF MergeHistory, Begun
<1> HIDE DEF w
<1>4. page \in SUBSET ChatMsg /\ page \subseteq Reach(w)
  BY <1>2, MountedFacts DEF Reach
<1>5. Begun(w) \in 0 .. MaxChat + 1
  <2>1. ASSUME Cardinality(page) = ChatPage
        PROVE  Min(page) \in ChatMsg
    <3>1. page # {}
      BY <2>1, FS_EmptySet, ChatAssumption
    <3> QED
      BY <1>4, <3>1, MinOf
  <2>2. w.floor \in 0 .. MaxChat + 1
    BY <1>2, MountedFacts
  <2> QED
    BY <2>1, <2>2, ChatAssumption DEF Begun, ChatMsg
<1>6. past \in [at : {"first", "answered", "idle"}, first : BOOLEAN, rows : SUBSET ChatMsg]
      /\ past.at = "idle" /\ past.rows = {} /\ past.first = FALSE
  OBVIOUS
<1> HIDE DEF page, past
<1>7. z \in Mounted
  BY <1>2, <1>4, <1>5, <1>6 DEF Mounted
<1>8. /\ z.shows = w.shows \cup page /\ z.passed = w.passed /\ z.floor = Begun(w) /\ z.poll = w.poll
      /\ z.post = w.post /\ z.history = past
  BY <1>2 DEF Mounted
<1> HIDE DEF z
<1>9. Reach(z) = Reach(w)
  BY <1>6, <1>8 DEF Reach, page
<1>10. Begun(z) = Begun(w)
  BY <1>6, <1>8 DEF Begun
<1>11. w.history.at # "first"
  BY <1>1 DEF w
<1>12. Gapless(z, ChatRows)
  BY <1>2, <1>7, <1>8, <1>9, <1>10, <1>11, Merged
<1>13. z.poll.since <= NewestStamp(z.shows)
  <2>1. z.shows \in SUBSET ChatMsg /\ w.shows \in SUBSET z.shows
    BY <1>7, <1>8, MountedFacts
  <2>2. NewestStamp(w.shows) <= NewestStamp(z.shows)
    BY <2>1, StampGrows
  <2>3. /\ NewestStamp(w.shows) \in 0 .. MaxChat /\ NewestStamp(z.shows) \in 0 .. MaxChat
        /\ w.poll.since \in 0 .. MaxChat
    BY <1>2, <1>7, MountedFacts
  <2> QED
    BY <1>2, <1>8, <2>2, <2>3, ChatAssumption DEF Sound
<1>14. Sound(z, ChatRows)
  BY <1>2, <1>6, <1>8, <1>9, <1>12, <1>13 DEF Sound
<1> QED
  BY <1>1, <1>3, <1>7, <1>14, OneView

\* The page before is asked for and answered.
LEMMA OlderStep ==
  ASSUME ChatInv, NEW v \in View, LoadOlder(v)
  PROVE  ChatKept
<1> DEFINE w == view[v]
           older == {m \in ChatRows : \A n \in w.shows : m < n}
           page == NewestPage(older)
           past == [at |-> "answered", first |-> FALSE, rows |-> page]
           z == [w EXCEPT !.history = past]
<1>1. /\ w.at = "open" /\ w.history.at = "idle" /\ w.shows # {} /\ mail' = mail
      /\ view' = [view EXCEPT ![v] = z]
  BY DEF LoadOlder
<1>2. w \in Mounted /\ Sound(w, ChatRows) /\ ChatRows \in SUBSET ChatMsg
  BY <1>1, ChatFacts DEF Closed
<1> HIDE DEF w
<1>3. page \in SUBSET ChatMsg /\ page \subseteq ChatRows /\ \A m \in page, n \in w.shows : m < n
  BY <1>2, PageIsNewest
<1> HIDE DEF page
<1>4. past \in [at : {"first", "answered", "idle"}, first : BOOLEAN, rows : SUBSET ChatMsg]
      /\ past.at = "answered" /\ past.rows = page /\ past.first = FALSE
  BY <1>3
<1> HIDE DEF past
<1>5. z \in Mounted
  BY <1>2, <1>4 DEF Mounted
<1>6. /\ z.shows = w.shows /\ z.passed = w.passed /\ z.floor = w.floor /\ z.poll = w.poll
      /\ z.post = w.post /\ z.history = past
  BY <1>2 DEF Mounted
<1> HIDE DEF z
<1>7. w.history.at = "idle" /\ ~w.history.first /\ w.history.rows = {} /\ w.shows # {}
  BY <1>1, <1>2 DEF Sound, w
<1>8. Reach(z) = Reach(w) \cup page /\ Begun(z) = Begun(w)
  BY <1>4, <1>6, <1>7 DEF Reach, Begun
<1>9. NewestStamp(Reach(z)) <= NewestStamp(Reach(w)) /\ NewestStamp(Reach(z)) \in 0 .. MaxChat
      /\ NewestStamp(Reach(w)) \in 0 .. MaxChat
  <2>1. PICK n \in w.shows : TRUE
    BY <1>7
  <2>2. n \in Reach(w) /\ Reach(w) \in SUBSET ChatMsg /\ Reach(z) \in SUBSET ChatMsg /\ n \in ChatMsg
    BY <1>2, <1>5, MountedFacts DEF Reach
  <2>3. NewestStamp(Reach(z)) \in Reach(z) /\ n <= NewestStamp(Reach(z))
    BY <1>8, <2>2, StampMax
  <2>4. NewestStamp(Reach(z)) \notin page
    BY <1>3, <2>2, <2>3 DEF ChatMsg
  <2>5. NewestStamp(Reach(z)) \in Reach(w)
    BY <1>8, <2>3, <2>4
  <2> QED
    BY <2>2, <2>5, StampMax
<1>10. ASSUME NEW m \in ChatRows \ z.passed, Begun(z) <= m, m <= NewestStamp(Reach(z))
       PROVE  m \in Reach(z)
  <2>1. m <= NewestStamp(Reach(w))
    BY <1>2, <1>9, <1>10 DEF ChatMsg
  <2>2. m \in Reach(w)
    BY <1>2, <1>6, <1>7, <1>8, <1>10, <2>1 DEF Sound, Gapless
  <2> QED
    BY <1>8, <2>2
<1>11. Gapless(z, ChatRows)
  BY <1>10 DEF Gapless
<1>12. Sound(z, ChatRows)
  BY <1>2, <1>3, <1>4, <1>6, <1>7, <1>8, <1>11 DEF Sound
<1> QED
  BY <1>1, <1>5, <1>12, OneView

\* Both kinds of views are as they were but for what they have passed.
LEMMA PostStep ==
  ASSUME ChatInv, NEW v \in View, NEW m \in ChatMsg, InsertChatMessage(v, m)
  PROVE  ChatKept
<1> DEFINE w == view[v]
           over == IF w.history.at = "first" /\ w.shows = {} THEN {} ELSE ChatRows \ Reach(w)
           z == [w EXCEPT !.post = {m}, !.passed = @ \cup over]
           row == [at |-> "chat", by |-> "human"]
<1>1. /\ w.at = "open" /\ w.post = {} /\ m = Latest + 1 /\ mail' = [mail EXCEPT ![m] = row]
      /\ view' = [view EXCEPT ![v] = z]
  BY DEF InsertChatMessage, Answered, Reach
<1>2. w \in Mounted /\ Sound(w, ChatRows) /\ ChatRows \in SUBSET ChatMsg
  BY <1>1, ChatFacts DEF Closed
<1>3. row \in [at : {"stamped", "inbox", "chat"}, by : Exec \cup {"human"}] /\ row.at = "chat"
  OBVIOUS
<1> HIDE DEF row
<1>4. /\ mail' \in [ChatMsg -> Mails] /\ Taken' = 1 .. Latest' /\ ChatRows' = ChatRows \cup {m}
      /\ m \notin ChatRows
  BY <1>1, <1>3, TakeNext
<1>5. over \in SUBSET ChatRows /\ (w.history.at # "first" => ChatRows \subseteq over \cup Reach(w))
  OBVIOUS
<1> HIDE DEF w, over
<1>6. z \in Mounted
  BY <1>2, <1>5 DEF Mounted
<1>7. /\ z.shows = w.shows /\ z.passed = w.passed \cup over /\ z.floor = w.floor /\ z.poll = w.poll
      /\ z.post = {m} /\ z.history = w.history
  BY <1>2 DEF Mounted
<1> HIDE DEF z
<1>8. Reach(z) = Reach(w) \cup {m}
  BY <1>1, <1>7 DEF Reach, w
<1>9. Gapless(z, ChatRows \cup {m})
  BY <1>5, <1>7, <1>8 DEF Gapless
<1>10. Sound(z, ChatRows')
  BY <1>2, <1>4, <1>5, <1>7, <1>8, <1>9 DEF Sound
<1>11. view \in [View -> {Closed} \cup Mounted] /\ view' \in [View -> {Closed} \cup Mounted]
  BY <1>1, <1>6 DEF ChatInv
<1>12. \A u \in View : view'[u] = IF u = v THEN z ELSE view[u]
  BY <1>1, <1>11
<1>13. ASSUME NEW u \in View, view[u] # Closed
       PROVE  Sound(view[u], ChatRows')
  <2>1. Latest \in 0 .. MaxChat
    BY ChatFacts
  <2>2. \A n \in ChatRows' \ ChatRows : n > Latest
    BY <1>1, <1>4, <2>1
  <2> QED
    BY <1>2, <1>4, <1>13, <2>2, StillSound
<1>14. \A u \in View : view'[u] # Closed => Sound(view'[u], ChatRows')
  BY <1>10, <1>12, <1>13
<1> QED
  BY <1>4, <1>11, <1>14 DEF ChatKept

\* A poll moves replies of the executive from the messages into the chat.
LEMMA DrainStep ==
  ASSUME ChatInv, mail' = AfterDrain
  PROVE  /\ mail' \in [ChatMsg -> Mails] /\ Taken' = 1 .. Latest'
         /\ ChatRows' = ChatRows \cup Drained
         /\ Drained \in SUBSET ChatMsg /\ Drained \cap ChatRows = {}
<1>1. /\ Drained \in SUBSET ChatMsg /\ Drained \cap ChatRows = {}
      /\ \A m \in Drained : mail[m].at = "inbox"
  BY DEF Drained, ChatRows
<1>2. \A m \in ChatMsg : mail[m] \in Mails
  BY ChatFacts
<1>3. ASSUME NEW m \in Drained
      PROVE  /\ [mail[m] EXCEPT !.at = "chat"] \in Mails /\ [mail[m] EXCEPT !.at = "chat"].at = "chat"
             /\ [mail[m] EXCEPT !.at = "chat"] # NoMail /\ mail[m] # NoMail
  <2>1. mail[m] \in [at : {"stamped", "inbox", "chat"}, by : Exec \cup {"human"}] /\ mail[m].at = "inbox"
    BY <1>1, <1>2 DEF Mails, NoMail
  <2>2. [mail[m] EXCEPT !.at = "chat"].at = "chat" /\ [mail[m] EXCEPT !.at = "chat"] \in Mails
    BY <2>1 DEF Mails
  <2> QED
    BY <2>1, <2>2 DEF NoMail
<1>4. \A m \in ChatMsg : mail'[m] = IF m \in Drained THEN [mail[m] EXCEPT !.at = "chat"] ELSE mail[m]
  BY DEF AfterDrain
<1>5. \A m \in ChatMsg : mail'[m] \in Mails
  <2> TAKE m \in ChatMsg
  <2>1. CASE m \in Drained
    BY <1>3, <1>4, <2>1
  <2>2. CASE m \notin Drained
    BY <1>2, <1>4, <2>2
  <2> QED
    BY <2>1, <2>2
<1>6. mail' = [m \in ChatMsg |-> mail'[m]]
  BY DEF AfterDrain
<1>7. mail' \in [ChatMsg -> Mails]
  BY <1>5, <1>6
<1>8. \A m \in ChatMsg : mail'[m] = NoMail <=> mail[m] = NoMail
  <2> TAKE m \in ChatMsg
  <2>1. CASE m \in Drained
    BY <1>3, <1>4, <2>1
  <2>2. CASE m \notin Drained
    BY <1>4, <2>2
  <2> QED
    BY <2>1, <2>2
<1>9. ASSUME NEW m \in ChatMsg
      PROVE  mail'[m].at = "chat" <=> mail[m].at = "chat" \/ m \in Drained
  <2>1. CASE m \in Drained
    BY <1>3, <1>4, <2>1
  <2>2. CASE m \notin Drained
    BY <1>4, <2>2
  <2> QED
    BY <2>1, <2>2
<1>10. ChatRows' = ChatRows \cup Drained
  BY <1>1, <1>9 DEF ChatRows
<1> QED
  BY <1>1, <1>7, <1>8, <1>10, NoneTaken

\* A row that is drained is behind a view or newer than all that was answered to it.
LEMMA BehindOrNewer ==
  ASSUME ChatInv, mail' = AfterDrain, NEW u \in View, view[u] # Closed, NEW m \in Drained
  PROVE  m \in Behind(u) \/ m > NewestStamp(Reach(view[u]))
<1>1. view[u] \in Mounted /\ Sound(view[u], ChatRows)
  BY ChatFacts
<1>2. /\ NewestStamp(Reach(view[u])) \in 0 .. MaxChat
      /\ Reach(view[u]) # {} => NewestStamp(Reach(view[u])) \in Reach(view[u])
      /\ Reach(view[u]) = {} => NewestStamp(Reach(view[u])) = 0
  BY <1>1, MountedFacts, StampMax
<1>3. Reach(view[u]) \subseteq ChatRows
  BY <1>1 DEF Sound
<1>4. m \in ChatMsg /\ m \notin ChatRows
  BY DrainStep
<1>5. m # NewestStamp(Reach(view[u])) /\ m \in 1 .. MaxChat
  BY <1>2, <1>3, <1>4 DEF ChatMsg
<1>6. m \in Behind(u) <=> m < NewestStamp(Reach(view[u]))
  BY DEF Behind, Answered, Reach
<1> QED
  BY <1>2, <1>5, <1>6, ChatAssumption

\* The views that did not poll.
LEMMA BesideStep ==
  ASSUME ChatInv, mail' = AfterDrain, NEW u \in View
  PROVE  /\ Beside(u) \in {Closed} \cup Mounted
         /\ Beside(u) # Closed => Sound(Beside(u), ChatRows')
<1>1. CASE view[u] = Closed
  BY <1>1 DEF Beside
<1>2. CASE view[u] # Closed
  <2> DEFINE w == view[u]
             z == [w EXCEPT !.passed = @ \cup Behind(u)]
  <2>1. Beside(u) = z
    BY <1>2 DEF Beside
  <2>2. w \in Mounted /\ Sound(w, ChatRows) /\ ChatRows \in SUBSET ChatMsg
    BY <1>2, ChatFacts
  <2>3. Behind(u) \in SUBSET Drained /\ Drained \in SUBSET ChatMsg /\ ChatRows' = ChatRows \cup Drained
    BY DrainStep DEF Behind
  <2>4. \A m \in Drained : m \in Behind(u) \/ m > NewestStamp(Reach(w))
    BY <1>2, BehindOrNewer
  <2> HIDE DEF w
  <2>5. z \in Mounted
    BY <2>2, <2>3 DEF Mounted
  <2>6. /\ z.shows = w.shows /\ z.passed = w.passed \cup Behind(u) /\ z.floor = w.floor /\ z.poll = w.poll
        /\ z.post = w.post /\ z.history = w.history
    BY <2>2 DEF Mounted
  <2> HIDE DEF z
  <2>7. w.passed \subseteq ChatRows /\ z.passed \subseteq ChatRows' /\ ChatRows' \in SUBSET ChatMsg
    BY <2>2, <2>3, <2>6 DEF Sound
  <2>8. \A m \in ChatRows' \ ChatRows : m \in z.passed \/ m > NewestStamp(Reach(w))
    BY <2>3, <2>4, <2>6
  <2>9. Sound(z, ChatRows')
    BY <2>2, <2>3, <2>5, <2>6, <2>7, <2>8, Elsewhere
  <2> QED
    BY <2>1, <2>5, <2>9
<1> QED
  BY <1>1, <1>2

\* A view whose poll is answered.
LEMMA AnswerStep ==
  ASSUME ChatInv, mail' = AfterDrain, NEW v \in View, view[v].at = "open", view[v].poll.at = "asked",
         NEW since \in 0 .. MaxChat, view[v].poll.since # 0 => since = view[v].poll.since
  PROVE  LET z == [view[v] EXCEPT !.passed = @ \cup Behind(v) \cup TooOld(v, since),
                          !.poll.at = "answered",
                          !.poll.rows = {m \in ChatRows \cup Drained : m > since}]
         IN  z \in Mounted /\ Sound(z, ChatRows')
<1> DEFINE z == [view[v] EXCEPT !.passed = @ \cup Behind(v) \cup TooOld(v, since),
                          !.poll.at = "answered",
                          !.poll.rows = {m \in ChatRows \cup Drained : m > since}]
<1> DEFINE w == view[v]
           rows == {m \in ChatRows \cup Drained : m > since}
           poll == [w.poll EXCEPT !.at = "answered", !.rows = rows]
           over == Behind(v) \cup TooOld(v, since)
<1>1. w \in Mounted /\ Sound(w, ChatRows) /\ ChatRows \in SUBSET ChatMsg /\ w # Closed
  BY ChatFacts DEF Closed
<1>2. Drained \in SUBSET ChatMsg /\ ChatRows' = ChatRows \cup Drained
  BY DrainStep
<1>3. over \in SUBSET (ChatRows \cup Drained)
  BY DEF Behind, TooOld
<1>4. \A m \in Drained : m \in Behind(v) \/ m > NewestStamp(Reach(w))
  BY <1>1, BehindOrNewer
<1>5. w.poll.since = 0 /\ w.history.at # "first" =>
         \A m \in ChatRows \cup Drained : m <= since => m \in TooOld(v, since) \/ m \in Reach(w)
  BY DEF TooOld, Answered, Reach
<1>6. w.poll.at = "asked"
  OBVIOUS
<1>20. w.poll.since # 0 => since = w.poll.since
  OBVIOUS
<1>7. w.poll \in [at : {"idle", "asked", "answered"}, asked : 0 .. MaxChat, since : 0 .. MaxChat,
             rows : SUBSET ChatMsg]
  BY <1>1, MountedFacts
<1>8. z = [w EXCEPT !.passed = @ \cup over, !.poll = poll]
  BY <1>1, <1>7 DEF Mounted
<1>9. rows \in SUBSET ChatMsg /\ rows \subseteq ChatRows \cup Drained
      /\ \A m \in ChatRows \cup Drained : m > since => m \in rows
  BY <1>1, <1>2
<1> HIDE DEF w, rows
<1>10. poll \in [at : {"idle", "asked", "answered"}, asked : 0 .. MaxChat, since : 0 .. MaxChat,
             rows : SUBSET ChatMsg]
       /\ poll.at = "answered" /\ poll.rows = rows /\ poll.since = w.poll.since
  BY <1>7, <1>9
<1>21. Behind(v) \subseteq over /\ TooOld(v, since) \subseteq over
  OBVIOUS
<1> HIDE DEF poll, over, z
<1>11. z \in Mounted
  BY <1>1, <1>2, <1>3, <1>8, <1>10 DEF Mounted
<1>12. /\ z.shows = w.shows /\ z.passed = w.passed \cup over /\ z.floor = w.floor /\ z.poll = poll
       /\ z.post = w.post /\ z.history = w.history
  BY <1>1, <1>8 DEF Mounted
<1>13. Reach(z) = Reach(w) \cup rows /\ Begun(z) = Begun(w)
  <2>1. w.poll.rows = {}
    BY <1>1, <1>6 DEF Sound
  <2>2. z.poll.rows = rows
    BY <1>10, <1>12
  <2>3. Begun(z) = Begun(w)
    BY <1>12 DEF Begun
  <2>4. Reach(w) = w.shows \cup w.history.rows \cup w.post
    BY <2>1 DEF Reach
  <2>5. Reach(z) = w.shows \cup rows \cup w.history.rows \cup w.post
    BY <1>12, <2>2, Zenon DEF Reach
  <2> QED
    BY <2>3, <2>4, <2>5
<1>14. /\ NewestStamp(Reach(w)) \in 0 .. MaxChat /\ NewestStamp(w.shows) <= NewestStamp(Reach(w))
       /\ NewestStamp(w.shows) \in 0 .. MaxChat /\ w.poll.since <= NewestStamp(w.shows)
       /\ w.poll.since \in 0 .. MaxChat
  BY <1>1, MountedFacts DEF Sound
<1>15. ASSUME z.history.at # "first", NEW m \in (ChatRows \cup Drained) \ z.passed, Begun(z) <= m
       PROVE  m \in Reach(z)
  <2>1. m \in 1 .. MaxChat /\ m \notin over /\ m \notin w.passed
    BY <1>1, <1>2, <1>12 DEF ChatMsg
  <2>2. CASE m > since
    BY <1>9, <1>13, <2>2
  <2>3. CASE m <= since /\ w.poll.since = 0
    BY <1>5, <1>12, <1>13, <1>15, <1>21, <2>1, <2>3
  <2>4. CASE m <= since /\ w.poll.since # 0
    <3>1. m <= NewestStamp(Reach(w))
      BY <1>14, <1>20, <2>1, <2>4, ChatAssumption
    <3>2. m \in ChatRows
      <4>1. ~(m > NewestStamp(Reach(w)))
        BY <1>14, <2>1, <3>1
      <4> QED
        BY <1>4, <1>21, <2>1, <4>1
    <3>3. m \in Reach(w)
      BY <1>1, <1>12, <1>13, <1>15, <2>1, <3>1, <3>2 DEF Sound, Gapless
    <3> QED
      BY <1>13, <3>3
  <2> QED
    BY <2>1, <2>2, <2>3, <2>4, ChatAssumption
<1>16. Gapless(z, ChatRows')
  BY <1>2, <1>15 DEF Gapless
<1>17. Sound(z, ChatRows')
  BY <1>1, <1>2, <1>3, <1>9, <1>10, <1>12, <1>13, <1>14, <1>16 DEF Sound
<1> QED
  BY <1>11, <1>17 DEF z

\* A poll, of this view or of others.
LEMMA ServeStep ==
  ASSUME ChatInv, PollElsewhere \/ \E v \in View : ServePoll(v)
  PROVE  ChatKept
<1>1. mail' = AfterDrain
  BY DEF PollElsewhere, ServePoll, GetChatMessagesSince
<1>2. mail' \in [ChatMsg -> Mails] /\ Taken' = 1 .. Latest'
  BY <1>1, DrainStep
<1>3. ASSUME view' = [u \in View |-> view'[u]],
             \A u \in View : view'[u] \in {Closed} \cup Mounted,
             \A u \in View : view'[u] # Closed => Sound(view'[u], ChatRows')
      PROVE  ChatKept
  <2>1. view' \in [View -> {Closed} \cup Mounted]
    BY <1>3
  <2> QED
    BY <1>2, <1>3, <2>1 DEF ChatKept
<1>4. CASE PollElsewhere
  <2>1. view' = [u \in View |-> Beside(u)]
    BY <1>4 DEF PollElsewhere
  <2> QED
    BY <1>1, <1>3, <2>1, BesideStep
<1>5. ASSUME NEW v \in View, ServePoll(v)
      PROVE  ChatKept
  <2>1. view[v].at = "open" /\ view[v].poll.at = "asked"
    BY <1>5 DEF ServePoll
  <2>2. view[v] \in Mounted
    BY <2>1, ChatFacts DEF Closed
  <2>3. view[v].poll.since \in 0 .. MaxChat /\ view[v].poll.asked \in 0 .. MaxChat
    BY <2>2, MountedFacts
  <2>4. PICK since \in 0 .. MaxChat :
           /\ view[v].poll.since # 0 => since = view[v].poll.since
           /\ GetChatMessagesSince(v, since)
    <3>1. CASE view[v].poll.since > 0
      <4>1. GetChatMessagesSince(v, view[v].poll.since)
        BY <1>5, <2>3, <3>1 DEF ServePoll
      <4> QED
        BY <2>3, <4>1
    <3>2. CASE view[v].poll.since = 0
      <4>1. PICK since \in 0 .. view[v].poll.asked : GetChatMessagesSince(v, since)
        BY <1>5, <3>2 DEF ServePoll
      <4>2. since \in 0 .. MaxChat
        BY <2>3, ChatAssumption
      <4> QED
        BY <3>2, <4>1, <4>2
    <3> QED
      BY <2>3, <3>1, <3>2
  <2> DEFINE z == [view[v] EXCEPT !.passed = @ \cup Behind(v) \cup TooOld(v, since),
                          !.poll.at = "answered",
                          !.poll.rows = {m \in ChatRows \cup Drained : m > since}]
  <2>5. view' = [u \in View |-> IF u # v THEN Beside(u) ELSE z]
    BY <2>4 DEF GetChatMessagesSince
  <2>6. z \in Mounted /\ Sound(z, ChatRows')
    BY <1>1, <2>1, <2>4, AnswerStep
  <2> HIDE DEF z
  <2>7. \A u \in View : view'[u] = IF u # v THEN Beside(u) ELSE z
    BY <2>5
  <2>8. view' = [u \in View |-> view'[u]]
    BY <2>5
  <2> QED
    BY <1>1, <1>3, <2>6, <2>7, <2>8, BesideStep
<1> QED
  BY <1>4, <1>5

\* The first states satisfy it,
LEMMA ChatInitially == ChatInit => ChatInv
<1> SUFFICES ASSUME ChatInit PROVE ChatInv
  OBVIOUS
<1>1. Taken = {} /\ mail \in [ChatMsg -> Mails]
  BY DEF ChatInit, Taken, Mails
<1>2. Latest = 0
  <2>1. Latest = Cardinality(Taken)
    BY DEF Latest, Taken
  <2> QED
    BY <1>1, <2>1, FS_EmptySet
<1>3. Taken = 1 .. Latest
  BY <1>1, <1>2
<1> QED
  BY <1>1, <1>3 DEF ChatInit, ChatInv

\* and every step keeps it.
LEMMA ChatInductive ==
  ASSUME ChatInv, [ChatNext]_chatVars
  PROVE  ChatInv'
<1>1. chatRole' \in Exec \cup {NoRole}
  BY DEF ChatInv, ChatNext, chatVars, SetChatExecutiveRole, StampReply, InsertReply, PostElsewhere, PollElsewhere,
         InsertChatMessage, ServePoll, GetChatHistory, OpenView, CloseView, PollOnce, LoadOlder, MergePoll,
         LosePoll, MergePost, MergeHistory
<1>2. ChatKept
  <2>1. CASE UNCHANGED chatVars
    BY <2>1, RelayStep DEF chatVars
  <2>2. ASSUME NEW role \in Exec \cup {NoRole}, SetChatExecutiveRole(role)
        PROVE  ChatKept
    <3>1. UNCHANGED view /\ UNCHANGED mail
      BY <2>2 DEF SetChatExecutiveRole
    <3> QED
      BY <3>1, RelayStep
  <2>3. ASSUME NEW e \in Exec, NEW m \in ChatMsg, StampReply(e, m)
        PROVE  ChatKept
    <3>1. UNCHANGED view
      BY <2>3 DEF StampReply
    <3> QED
      BY <2>3, <3>1, RelayStep
  <2>4. ASSUME NEW m \in ChatMsg, InsertReply(m) \/ PostElsewhere(m)
        PROVE  ChatKept
    <3>1. UNCHANGED view
      BY <2>4 DEF InsertReply, PostElsewhere
    <3> QED
      BY <2>4, <3>1, RelayStep
  <2> QED
    BY <2>1, <2>2, <2>3, <2>4, PostStep, ServeStep, HistoryStep, MountStep, PollStep, OlderStep, MergeStep,
       LoseStep, PastStep DEF ChatNext
<1> QED
  BY <1>1, <1>2 DEF ChatInv, ChatKept

\* No gap in what was answered is no gap in what is shown.
LEMMA ChatImplied == ChatInv => ChatTypeOK /\ NothingBetween
<1> SUFFICES ASSUME ChatInv PROVE ChatTypeOK /\ NothingBetween
  OBVIOUS
<1>1. \A m \in ChatMsg : mail[m].at \in {"none", "stamped", "inbox", "chat"}
  BY ChatFacts DEF Mails, NoMail
<1>2. ASSUME NEW v \in View, view[v] # Closed
      PROVE  Answered(v) \cup view[v].passed \subseteq ChatRows
  BY <1>2, ChatFacts DEF Sound, Answered, Reach
<1>3. ASSUME NEW v \in View, view[v] # Closed, NEW m \in ChatRows \ view[v].passed,
             m \in view[v].floor .. Cursor(v)
      PROVE  m \in Answered(v)
  <2> DEFINE w == view[v]
  <2>1. w \in Mounted /\ Sound(w, ChatRows) /\ m \in ChatMsg
    BY <1>3, ChatFacts
  <2>2. Cursor(v) = NewestStamp(w.shows) /\ Answered(v) = Reach(w)
    BY DEF Cursor, Answered, Reach
  <2> HIDE DEF w
  <2>3. /\ NewestStamp(w.shows) \in 0 .. MaxChat /\ NewestStamp(Reach(w)) \in 0 .. MaxChat
        /\ NewestStamp(w.shows) <= NewestStamp(Reach(w)) /\ w.floor \in 0 .. MaxChat + 1
    BY <2>1, MountedFacts
  <2>4. m \in 1 .. MaxChat /\ w.floor <= m /\ m <= NewestStamp(w.shows)
    BY <1>3, <2>1, <2>2 DEF ChatMsg, w
  <2>5. m <= NewestStamp(Reach(w))
    BY <2>3, <2>4
  <2>6. ~w.history.first
    BY <2>1, <2>3, <2>4, ChatAssumption DEF Sound
  <2>7. w.history.at # "first" /\ Begun(w) = w.floor /\ m \notin w.passed
    BY <2>1, <2>6, <1>3 DEF Sound, Begun, w
  <2> QED
    BY <2>1, <2>2, <2>4, <2>5, <2>7 DEF Sound, Gapless
<1> QED
  BY <1>1, <1>2, <1>3 DEF ChatTypeOK, NothingBetween, ChatInv

------------------------------------------------------------------------------
(* All five side by side. *)

SocietyInv == DirectoryInv /\ ConversationInv /\ QuotaInv /\ MemoryInv /\ ChatInv

\* A step of one component is no step of another.
LEMMA OneMoves ==
  ASSUME [Next]_vars
  PROVE  /\ [DirectoryNext]_directoryVars
         /\ [ConversationNext]_conversationVars
         /\ [QuotaNext]_quotaVars
         /\ [MemoryNext]_memoryVars
         /\ [ChatNext]_chatVars
<1>1. CASE UNCHANGED vars
  BY <1>1 DEF vars
<1>2. CASE Next
  BY <1>2 DEF Next
<1> QED
  BY <1>1, <1>2

LEMMA SocietyInitially == Init => SocietyInv
  BY DirectoryInitially, ConversationInitially, QuotaInitially, MemoryInitially, ChatInitially
  DEF Init, SocietyInv

LEMMA SocietyInductive ==
  ASSUME SocietyInv, [Next]_vars
  PROVE  SocietyInv'
<1>1. DirectoryInv' /\ ConversationInv'
  BY OneMoves, DirectoryInductive, ConversationInductive DEF SocietyInv
<1>2. QuotaInv' /\ MemoryInv' /\ ChatInv'
  BY OneMoves, QuotaInductive, MemoryInductive, ChatInductive DEF SocietyInv
<1> QED
  BY <1>1, <1>2 DEF SocietyInv

\* Rows of agents, teams, messages, conversations, quotas, memories and the chat, and
\* what views hold, keep their shape, whatever the numbers of each.
THEOREM SocietyTypeCorrect == Spec => []SocietyTypeOK
<1>1. SocietyInv => SocietyTypeOK
  BY ChatImplied
  DEF SocietyInv, SocietyTypeOK, DirectoryInv, ConversationInv, ConversationTypes, QuotaInv, MemoryInv
<1> QED
  BY <1>1, SocietyInitially, SocietyInductive, PTL DEF Spec

\* What get_conversation_messages marks as read was shown, if it was not the reader's
\* own or beyond the page (handlers.go:627); and a chat view is shown every row between
\* the end of its first page of the past and its cursor, but for those that a reply
\* drained late or its own message made it pass over (chat.go:120).
THEOREM NothingIsSkipped == Spec => []NothingSkipped
<1>1. SocietyInv => NothingSkipped
  BY ReadersShown, ChatImplied DEF SocietyInv, NothingSkipped
<1> QED
  BY <1>1, SocietyInitially, SocietyInductive, PTL DEF Spec
==============================================================================
