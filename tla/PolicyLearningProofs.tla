------------------------ MODULE PolicyLearningProofs ------------------------
(***************************************************************************)
(* Theorems about PolicyLearning, for any outcomes and any retention: what *)
(* a replica may learn again, that its statistics are the counts of what   *)
(* it learned, that its estimates follow the outcomes, and that the        *)
(* forecast is the mean and the variance of the workflows.  The lemmas     *)
(* about sums are those of QuotaRulesProofs.                               *)
(***************************************************************************)
EXTENDS PolicyLearning, QuotaRulesProofs

USE OutcomesAssumption, RetentionAssumption

-----------------------------------------------------------------------------
(* Types, and what each kind of step does.                                 *)

(* What an event may be, and what its outcome is.                          *)
LEMMA EventIs ==
    ASSUME NEW e \in Events
    PROVE  /\ e.completedAt \in Nat
           /\ e.outcome.success \in BOOLEAN
           /\ IsCall(e.outcome) =>
                  e.outcome.rateLimited \in BOOLEAN /\ e.outcome.model # NoModel
           /\ ~IsCall(e.outcome) =>
                  e.outcome.quality \in Nat \cup {NoQuality} /\ e.outcome.calls \in Nat
<1>1. PICK t \in 0..MaxTime : e \in EventsAt(t)
  BY DEF Events
<1>2. /\ e.completedAt = t /\ t \in Nat
      /\ e.outcome \in CallOutcomes \/ e.outcome \in WorkflowOutcomes
  BY <1>1 DEF EventsAt
<1> QED
  BY <1>2

(* The event a replica learns, or hears of again.                          *)
LearningStep(r, e) ==
    /\ taught[r][e] < MaxTaught
    /\ \/ r = "coordinator" /\ (recordLearningOutcome(e) \/ recordWorkflowLearning(e))
       \/ r = "state" /\ (recordCallOutcome(e) \/ recordWorkflowOutcome(e))

(* Every step learns an event, or nothing.                                 *)
LEMMA EveryStep ==
    ASSUME LearningTypeOK, [Next]_vars
    PROVE  \/ \E r \in Replicas, e \in Events : LearningStep(r, e)
           \/ \E e \in Events : KnownAgain(e)
           \/ /\ UNCHANGED <<stats, forecasts, rows, taught>>
              /\ now' = now \/ Tick
<1>1. ASSUME NEW m \in sent, Delivered(m)
      PROVE  \/ \E r \in Replicas, e \in Events : LearningStep(r, e)
             \/ \E e \in Events : KnownAgain(e)
  <2>1. m.to \in Replicas /\ m.event \in Events
    BY DEF LearningTypeOK
  <2> QED
    BY <1>1, <2>1 DEF Delivered, LearningStep
<1> QED
  BY <1>1 DEF Next, finalizeAttempt, workflowEnds, Tick, vars

(* A learning step teaches one event to one replica.                       *)
LEMMA LearningTeaches ==
    ASSUME LearningTypeOK, NEW r \in Replicas, NEW e \in Events, LearningStep(r, e)
    PROVE  /\ taught'[r][e] = taught[r][e] + 1
           /\ \A q \in Replicas, x \in Events : ~(q = r /\ x = e) => taught'[q][x] = taught[q][x]
           /\ taught' \in [Replicas -> [Events -> 0..MaxTaught]]
           /\ now' = now
<1>1. /\ taught' = [taught EXCEPT ![r][e] = @ + 1]
      /\ now' = now
  BY DEF LearningStep, recordLearningOutcome, recordWorkflowLearning, recordCallOutcome,
         recordWorkflowOutcome, Recorded, Taught
<1>2. taught \in [Replicas -> [Events -> 0..MaxTaught]]
  BY DEF LearningTypeOK
<1>3. taught[r][e] + 1 \in 0..MaxTaught
  BY <1>2 DEF LearningStep
<1> DEFINE f == [taught[r] EXCEPT ![e] = taught[r][e] + 1]
<1>4. /\ f \in [Events -> 0..MaxTaught] /\ f[e] = taught[r][e] + 1
      /\ \A x \in Events \ {e} : f[x] = taught[r][x]
  <2> DEFINE h == taught[r]
  <2>1. h \in [Events -> 0..MaxTaught] /\ h[e] + 1 \in 0..MaxTaught
    BY <1>2, <1>3
  <2> HIDE DEF h
  <2>2. /\ [h EXCEPT ![e] = h[e] + 1] \in [Events -> 0..MaxTaught]
        /\ [h EXCEPT ![e] = h[e] + 1][e] = h[e] + 1
        /\ \A x \in Events \ {e} : [h EXCEPT ![e] = h[e] + 1][x] = h[x]
    BY <2>1
  <2> QED
    BY <2>2 DEF h
<1>5. taught' = [taught EXCEPT ![r] = f]
  BY <1>1
<1> HIDE DEF f
<1>6. taught'[r] = f /\ \A q \in Replicas \ {r} : taught'[q] = taught[q]
  BY <1>2, <1>5
<1> QED
  BY <1>1, <1>2, <1>4, <1>5, <1>6

(* Every step keeps the types.                                             *)
LEMMA LearningTypeStep == LearningTypeOK /\ [Next]_vars => LearningTypeOK'
<1> SUFFICES ASSUME LearningTypeOK, [Next]_vars PROVE LearningTypeOK'
  OBVIOUS
<1>1. rows' \in [Replicas -> SUBSET Events]
  <2>1. ASSUME NEW r \in Replicas, NEW e \in Events, LearningStep(r, e)
        PROVE  rows' \in [Replicas -> SUBSET Events]
    BY <2>1 DEF LearningStep, recordLearningOutcome, recordWorkflowLearning, recordCallOutcome,
                recordWorkflowOutcome, Recorded, Inserted, KeptRows, LearningTypeOK, Replicas
  <2>2. ASSUME NEW e \in Events, KnownAgain(e)
        PROVE  rows' \in [Replicas -> SUBSET Events]
    BY <2>2 DEF KnownAgain, KeptRows, LearningTypeOK, Replicas
  <2> QED
    BY <2>1, <2>2, EveryStep DEF LearningTypeOK
<1>2. taught' \in [Replicas -> [Events -> 0..MaxTaught]] /\ now' \in 0..MaxTime
  <2>1. ASSUME NEW e \in Events, KnownAgain(e)
        PROVE  UNCHANGED <<taught, now>>
    BY <2>1 DEF KnownAgain
  <2>2. now' = now \/ Tick
    BY <2>1, EveryStep, LearningTeaches
  <2>3. now' \in 0..MaxTime
    BY <2>2 DEF Tick, LearningTypeOK
  <2> QED
    BY <2>1, <2>3, EveryStep, LearningTeaches DEF LearningTypeOK
<1>3. sent' \subseteq [to : Replicas, event : Events]
  <2>1. ASSUME NEW o \in CallOutcomes \cup WorkflowOutcomes, NEW learners \in SUBSET Replicas,
               Report(o, learners)
        PROVE  sent' \subseteq [to : Replicas, event : Events]
    <3>1. [outcome |-> o, completedAt |-> now] \in Events
      BY DEF Events, EventsAt, LearningTypeOK
    <3> QED
      BY <2>1, <3>1 DEF Report, LearningTypeOK
  <2>2. ASSUME NEW o \in CallOutcomes, finalizeAttempt(o)
        PROVE  sent' \subseteq [to : Replicas, event : Events]
    BY <2>1, <2>2 DEF finalizeAttempt
  <2>3. ASSUME NEW o \in WorkflowOutcomes, workflowEnds(o)
        PROVE  sent' \subseteq [to : Replicas, event : Events]
    <3>1. {"state"} \in SUBSET Replicas /\ Replicas \in SUBSET Replicas
      BY DEF Replicas
    <3> QED
      BY <2>1, <2>3, <3>1 DEF workflowEnds
  <2>4. CASE UNCHANGED sent
    BY <2>4 DEF LearningTypeOK
  <2> QED
    BY <2>2, <2>3, <2>4 DEF Next, Delivered, recordLearningOutcome, recordWorkflowLearning,
       recordCallOutcome, recordWorkflowOutcome, KnownAgain, Tick, vars
<1> QED
  BY <1>1, <1>2, <1>3 DEF LearningTypeOK

(* The tables of the replicas keep their types.                            *)
LEMMA LearningTypes == Spec => []LearningTypeOK
<1>1. Init => LearningTypeOK
  BY DEF Init, LearningTypeOK
<1> QED
  BY <1>1, LearningTypeStep, PTL DEF Spec

-----------------------------------------------------------------------------
(* What may be learned again.                                              *)

(* What the ranking replica learned it has a row for; what RoutingState    *)
(* learned it has a row for, too, or forgot after the retention.           *)
LearnedHasRow ==
    /\ \A e \in Events : taught["coordinator"][e] > 0 => e \in rows["coordinator"]
    /\ \A e \in Events : taught["state"][e] > 0 =>
           e \in rows["state"] \/ now - e.completedAt > Retention

(* Every step keeps it so.                                                 *)
LEMMA LearnedHasRowStep ==
    ASSUME LearningTypeOK, LearnedHasRow, [Next]_vars
    PROVE  LearnedHasRow'
<1>0. /\ now \in Nat /\ now' \in Nat /\ now' >= now
      /\ \A e \in Events : e.completedAt \in Nat
      /\ \A r \in Replicas, e \in Events : taught[r][e] \in Nat
      /\ "coordinator" \in Replicas /\ "state" \in Replicas
      /\ DOMAIN rows = Replicas
  <2>1. /\ now \in Nat /\ \A r \in Replicas, e \in Events : taught[r][e] \in Nat
        /\ DOMAIN rows = Replicas
    BY DEF LearningTypeOK
  <2>2. now' = now \/ Tick
    BY EveryStep, LearningTeaches DEF KnownAgain
  <2> QED
    BY <2>1, <2>2, EventIs DEF Replicas, Tick
<1>1. ASSUME NEW e \in Events, LearningStep("coordinator", e)
      PROVE  LearnedHasRow'
  <2>1. /\ rows'["coordinator"] = rows["coordinator"] \cup {e}
        /\ rows'["state"] = rows["state"]
    BY <1>0, <1>1 DEF LearningStep, recordLearningOutcome, recordWorkflowLearning, Inserted
  <2>2. /\ \A x \in Events \ {e} : taught'["coordinator"][x] = taught["coordinator"][x]
        /\ \A x \in Events : taught'["state"][x] = taught["state"][x]
        /\ now' = now
    BY <1>0, <1>1, LearningTeaches
  <2> QED
    BY <2>1, <2>2 DEF LearnedHasRow
<1>2. ASSUME rows'["coordinator"] = rows["coordinator"], now' = now,
             \A x \in KeptRows : x \in rows'["state"]
      PROVE  \A x \in Events : x \in rows["state"] =>
                 x \in rows'["state"] \/ now' - x.completedAt > Retention
  <2> SUFFICES ASSUME NEW x \in Events, x \in rows["state"], x \notin rows'["state"]
               PROVE  now - x.completedAt > Retention
    BY <1>2
  <2>1. x.completedAt < now - Retention
    BY <1>2 DEF KeptRows, Expired
  <2> QED
    BY <1>0, <2>1
<1>3. ASSUME NEW e \in Events, LearningStep("state", e)
      PROVE  LearnedHasRow'
  <2>1. /\ rows'["state"] = KeptRows \cup {e} /\ rows'["coordinator"] = rows["coordinator"]
    BY <1>0, <1>3 DEF LearningStep, recordCallOutcome, recordWorkflowOutcome, Recorded
  <2>2. /\ \A x \in Events \ {e} : taught'["state"][x] = taught["state"][x]
        /\ \A x \in Events : taught'["coordinator"][x] = taught["coordinator"][x]
        /\ now' = now
    BY <1>0, <1>3, LearningTeaches
  <2>3. \A x \in Events : x \in rows["state"] =>
            x \in rows'["state"] \/ now' - x.completedAt > Retention
    BY <1>2, <2>1, <2>2
  <2> QED
    BY <2>1, <2>2, <2>3 DEF LearnedHasRow
<1>4. ASSUME NEW e \in Events, KnownAgain(e)
      PROVE  LearnedHasRow'
  <2>1. /\ rows'["state"] = KeptRows /\ rows'["coordinator"] = rows["coordinator"]
        /\ UNCHANGED <<taught, now>>
    BY <1>0, <1>4 DEF KnownAgain
  <2>2. \A x \in Events : x \in rows["state"] =>
            x \in rows'["state"] \/ now' - x.completedAt > Retention
    BY <1>2, <2>1
  <2> QED
    BY <2>1, <2>2 DEF LearnedHasRow
<1>5. CASE UNCHANGED <<rows, taught>>
  BY <1>0, <1>5 DEF LearnedHasRow
<1> QED
  BY <1>1, <1>3, <1>4, <1>5, EveryStep DEF Replicas

(* A repeated report teaches nothing: the ranking replica never learns an  *)
(* outcome twice, RoutingState only one that is older than its retention.  *)
THEOREM LearnedOnce == Spec => LearnOnceWithinRetention
<1>1. Init => LearnedHasRow
  BY DEF Init, LearnedHasRow, Replicas
<1>2. LearningTypeOK /\ LearnedHasRow /\ [Next]_vars => LearnedHasRow'
  BY LearnedHasRowStep
<1>3. LearningTypeOK /\ LearnedHasRow /\ [Next]_vars
        => [\A r \in Replicas, e \in Events :
               (taught'[r][e] > taught[r][e] /\ taught[r][e] > 0)
                   => (r = "state" /\ now - e.completedAt > Retention)]_vars
  <2> SUFFICES ASSUME LearningTypeOK, LearnedHasRow, [Next]_vars,
                      NEW r \in Replicas, NEW e \in Events,
                      taught'[r][e] > taught[r][e], taught[r][e] > 0
               PROVE  r = "state" /\ now - e.completedAt > Retention
    OBVIOUS
  <2>1. taught[r][e] \in Nat /\ ~(taught'[r][e] = taught[r][e])
    BY DEF LearningTypeOK
  <2>2. PICK q \in Replicas, x \in Events : LearningStep(q, x)
    BY <2>1, EveryStep DEF KnownAgain
  <2>3. q = r /\ x = e
    BY <2>1, <2>2, LearningTeaches
  <2>4. r # "coordinator"
    <3> SUFFICES ASSUME r = "coordinator" PROVE FALSE
      OBVIOUS
    <3>1. ~Known("coordinator", e.outcome)
      BY <2>2, <2>3 DEF LearningStep, recordLearningOutcome, recordWorkflowLearning
    <3>2. e \in rows["coordinator"]
      BY DEF LearnedHasRow
    <3> QED
      BY <3>1, <3>2 DEF Known
  <2>5. r = "state" /\ e \notin KeptRows
    <3>1. r = "state" /\ Recorded(e)
      BY <2>2, <2>3, <2>4 DEF LearningStep, recordCallOutcome, recordWorkflowOutcome, Replicas
    <3> QED
      BY <3>1 DEF Recorded
  <2>6. CASE now - e.completedAt > Retention
    BY <2>5, <2>6
  <2>7. CASE e \in rows["state"]
    <3>1. e.completedAt < now - Retention
      BY <2>5, <2>7 DEF KeptRows, Expired
    <3>2. now \in Nat /\ e.completedAt \in Nat
      BY EventIs DEF LearningTypeOK
    <3> QED
      BY <2>5, <3>1, <3>2
  <2> QED
    BY <2>5, <2>6, <2>7 DEF LearnedHasRow
<1> QED
  BY <1>1, <1>2, <1>3, LearningTypes, PTL DEF Spec, LearnOnceWithinRetention
-----------------------------------------------------------------------------
(* Counting.                                                               *)

(* What a sum becomes when one summand appears or changes.                 *)
LEMMA SumMoves ==
    ASSUME NEW f, NEW g, NEW A, IsFiniteSet(A), NEW B, NEW e, B \ {e} = A \ {e},
           \A x \in A : f[x] \in Int, \A x \in B : g[x] \in Int,
           \A x \in A \ {e} : f[x] = g[x]
    PROVE  /\ SumFunctionOnSet(f, A) \in Int
           /\ SumFunctionOnSet(g, B) = SumFunctionOnSet(f, A)
                                         + (IF e \in B THEN g[e] ELSE 0)
                                         - (IF e \in A THEN f[e] ELSE 0)
<1> DEFINE rest == A \ {e}
<1>1. IsFiniteSet(rest) /\ IsFiniteSet(B)
  <2>1. IsFiniteSet(rest)
    BY FS_Subset
  <2>2. B = rest \/ B = rest \cup {e}
    OBVIOUS
  <2>3. IsFiniteSet(rest \cup {e})
    BY <2>1, FS_AddElement
  <2> QED
    BY <2>1, <2>2, <2>3
<1>2. /\ SumFunctionOnSet(f, A) \in Int /\ SumFunctionOnSet(g, rest) \in Int
      /\ SumFunctionOnSet(f, rest) = SumFunctionOnSet(g, rest)
  <2>1. SumFunctionOnSet(f, A) \in Int
    BY SumType
  <2>2. \A x \in rest : g[x] \in Int /\ f[x] = g[x]
    OBVIOUS
  <2> HIDE DEF rest
  <2>3. SumFunctionOnSet(g, rest) \in Int
    BY <1>1, <2>2, SumType
  <2> QED
    BY <1>1, <2>1, <2>2, <2>3, SumAgree
<1>3. SumFunctionOnSet(f, A) = (IF e \in A THEN f[e] ELSE 0) + SumFunctionOnSet(f, rest)
  <2>1. CASE e \in A
    BY <2>1, SumRemove
  <2>2. CASE e \notin A
    <3>1. rest = A
      BY <2>2
    <3> HIDE DEF rest
    <3> QED
      BY <1>2, <2>2, <3>1
  <2> QED
    BY <2>1, <2>2
<1>4. SumFunctionOnSet(g, B) = (IF e \in B THEN g[e] ELSE 0) + SumFunctionOnSet(g, rest)
  <2>1. rest = B \ {e}
    OBVIOUS
  <2> HIDE DEF rest
  <2>2. CASE e \in B
    BY <1>1, <2>1, <2>2, SumRemove
  <2>3. CASE e \notin B
    <3>1. rest = B
      BY <2>1, <2>3
    <3> QED
      BY <1>2, <2>3, <3>1
  <2> QED
    BY <2>2, <2>3
<1> HIDE DEF rest
<1>5. (IF e \in A THEN f[e] ELSE 0) \in Int /\ (IF e \in B THEN g[e] ELSE 0) \in Int
  OBVIOUS
<1> QED
  BY <1>2, <1>3, <1>4, <1>5

(* What a learning step does to the events learned.                        *)
LEMMA LearnedMoves ==
    ASSUME LearningTypeOK, NEW r \in Replicas, NEW e \in Events, LearningStep(r, e)
    PROVE  /\ Learned(r)' = Learned(r) \cup {e}
           /\ \A q \in Replicas \ {r} : taught'[q] = taught[q]
           /\ \A x \in Events : taught[r][x] \in Nat /\ taught'[r][x] \in Nat
<1>1. /\ taught'[r][e] = taught[r][e] + 1
      /\ \A q \in Replicas, x \in Events : ~(q = r /\ x = e) => taught'[q][x] = taught[q][x]
      /\ taught \in [Replicas -> [Events -> 0..MaxTaught]]
      /\ taught' \in [Replicas -> [Events -> 0..MaxTaught]]
  BY LearningTeaches DEF LearningTypeOK
<1>2. \A x \in Events : taught[r][x] \in Nat /\ taught'[r][x] \in Nat
  BY <1>1
<1>3. Learned(r)' = Learned(r) \cup {e}
  BY <1>1, <1>2 DEF Learned
<1>4. ASSUME NEW q \in Replicas \ {r} PROVE taught'[q] = taught[q]
  BY <1>1
<1> QED
  BY <1>2, <1>3, <1>4

(* Of the events chosen, a learning step adds one to how often they were   *)
(* learned if it is one of them.                                           *)
LEMMA TimesMove ==
    ASSUME LearningTypeOK, NEW r \in Replicas, NEW e \in Events, LearningStep(r, e),
           IsFiniteSet(Learned(r)), NEW chosen \in SUBSET Events
    PROVE  /\ Times(r, chosen \cap Learned(r)) \in Nat
           /\ SumFunctionOnSet(taught'[r], chosen \cap Learned(r)')
                = Times(r, chosen \cap Learned(r)) + One(e \in chosen)
<1> DEFINE A == chosen \cap Learned(r)  B == chosen \cap Learned(r)'
           f == taught[r]  g == taught'[r]
<1>1. /\ Learned(r)' = Learned(r) \cup {e} /\ Learned(r) \subseteq Events
      /\ \A x \in Events : f[x] \in Nat /\ g[x] \in Nat
      /\ g[e] = f[e] + 1 /\ \A x \in Events \ {e} : g[x] = f[x]
      /\ e \notin Learned(r) => f[e] = 0
  BY LearnedMoves, LearningTeaches DEF Learned
<1>2. /\ IsFiniteSet(A) /\ B \ {e} = A \ {e}
      /\ e \in chosen <=> e \in B
      /\ e \in A <=> e \in chosen /\ e \in Learned(r)
  BY <1>1, FS_Subset
<1>3. (\A x \in A : f[x] \in Nat /\ f[x] \in Int) /\ \A x \in B : g[x] \in Int
  BY <1>1
<1>4. \A x \in A \ {e} : f[x] = g[x]
  BY <1>1
<1> HIDE DEF A, B, f, g
<1>5. SumFunctionOnSet(f, A) \in Nat
  BY <1>2, <1>3, SumType
<1>6. SumFunctionOnSet(g, B) = SumFunctionOnSet(f, A) + (IF e \in B THEN g[e] ELSE 0)
                                                      - (IF e \in A THEN f[e] ELSE 0)
  BY <1>2, <1>3, <1>4, SumMoves
<1>7. SumFunctionOnSet(g, B) = SumFunctionOnSet(f, A) + One(e \in chosen)
  <2>1. CASE e \notin chosen
    BY <1>2, <1>5, <1>6, <2>1 DEF One
  <2>2. CASE e \in chosen /\ e \in Learned(r)
    BY <1>1, <1>2, <1>5, <1>6, <2>2 DEF One
  <2>3. CASE e \in chosen /\ e \notin Learned(r)
    BY <1>1, <1>2, <1>5, <1>6, <2>3 DEF One
  <2> QED
    BY <2>1, <2>2, <2>3
<1> QED
  BY <1>5, <1>7 DEF Times, A, B, f, g

(* What events are worth together, when each counts for its value as often *)
(* as it was learned.                                                      *)
Worth(t, value, events) == SumFunctionOnSet([e \in events |-> t[e] * value[e]], events)

(* What an event adds to the worth of some events.                         *)
ValueIn(value, events, e) == IF e \in events THEN value[e] ELSE 0

(* To what the chosen events are worth it adds its value.                  *)
LEMMA TotalMoves ==
    ASSUME LearningTypeOK, NEW r \in Replicas, NEW e \in Events, LearningStep(r, e),
           IsFiniteSet(Learned(r)), NEW chosen \in SUBSET Events,
           NEW value, \A x \in chosen : value[x] \in Int
    PROVE  /\ Worth(taught[r], value, chosen \cap Learned(r)) \in Int
           /\ Worth(taught'[r], value, chosen \cap Learned(r)')
                = Worth(taught[r], value, chosen \cap Learned(r)) + ValueIn(value, chosen, e)
<1> DEFINE A == chosen \cap Learned(r)  B == chosen \cap Learned(r)'
           f == [x \in A |-> taught[r][x] * value[x]]
           g == [x \in B |-> taught'[r][x] * value[x]]
<1>1. /\ Learned(r)' = Learned(r) \cup {e} /\ Learned(r) \subseteq Events
      /\ \A x \in Events : taught[r][x] \in Nat /\ taught'[r][x] \in Nat
      /\ taught'[r][e] = taught[r][e] + 1
      /\ \A x \in Events \ {e} : taught'[r][x] = taught[r][x]
      /\ e \notin Learned(r) => taught[r][e] = 0
  BY LearnedMoves, LearningTeaches DEF Learned
<1>2. /\ IsFiniteSet(A) /\ B \ {e} = A \ {e} /\ A \subseteq B
      /\ e \in chosen <=> e \in B
      /\ e \in A <=> e \in chosen /\ e \in Learned(r)
  BY <1>1, FS_Subset
<1>3. ASSUME NEW x \in B PROVE g[x] = taught'[r][x] * value[x] /\ g[x] \in Int
  <2>1. taught'[r][x] \in Int /\ value[x] \in Int
    BY <1>1
  <2> HIDE DEF B
  <2> QED
    BY <2>1
<1>4. ASSUME NEW x \in A PROVE f[x] = taught[r][x] * value[x] /\ f[x] \in Int
  <2>1. taught[r][x] \in Int /\ value[x] \in Int
    BY <1>1
  <2> HIDE DEF A
  <2> QED
    BY <2>1
<1>5. \A x \in A \ {e} : f[x] = g[x]
  BY <1>1, <1>2, <1>3, <1>4
<1>6. e \in chosen => value[e] \in Int
  OBVIOUS
<1> HIDE DEF A, B, f, g
<1>7. /\ SumFunctionOnSet(f, A) \in Int
      /\ SumFunctionOnSet(g, B) = SumFunctionOnSet(f, A) + (IF e \in B THEN g[e] ELSE 0)
                                                         - (IF e \in A THEN f[e] ELSE 0)
  <2>1. (\A x \in A : f[x] \in Int) /\ \A x \in B : g[x] \in Int
    BY <1>3, <1>4
  <2>2. SumFunctionOnSet(f, A) \in Int
    BY <1>2, <2>1, SumType
  <2> QED
    BY <1>2, <1>5, <2>1, <2>2, SumMoves
<1>8. SumFunctionOnSet(g, B) = SumFunctionOnSet(f, A) + IF e \in chosen THEN value[e] ELSE 0
  <2>1. CASE e \notin chosen
    BY <1>2, <1>7, <2>1
  <2>2. CASE e \in chosen /\ e \in Learned(r)
    <3> DEFINE n == taught[r][e]  v == value[e]
    <3>1. g[e] = (n + 1) * v /\ f[e] = n * v /\ n \in Int /\ v \in Int
      BY <1>1, <1>2, <1>3, <1>4, <1>6, <2>2
    <3>2. v = value[e]
      OBVIOUS
    <3> HIDE DEF n, v
    <3>3. g[e] = f[e] + v /\ f[e] \in Int
      BY <3>1
    <3> QED
      BY <1>2, <1>7, <2>2, <3>1, <3>2, <3>3
  <2>3. CASE e \in chosen /\ e \notin Learned(r)
    <3>1. g[e] = 1 * value[e]
      BY <1>1, <1>2, <1>3, <2>3
    <3> QED
      BY <1>2, <1>6, <1>7, <2>3, <3>1
  <2> QED
    BY <2>1, <2>2, <2>3
<1> QED
  BY <1>7, <1>8 DEF A, B, f, g, Worth, ValueIn
-----------------------------------------------------------------------------
(* The statistics are counts.                                              *)

(* How an outcome changes a row, and the row of a key.                     *)
NextRow(row, o) == IF IsCall(o) THEN NextCall(row, o) ELSE NextWorkflow(row, o)
RowOf(table, k) == IF k \in DOMAIN table THEN table[k] ELSE NewRow

(* Of a key's outcomes, the calls, the workflows and those with a quality. *)
CallsOf(k) == {e \in Events : k \in Keys(e.outcome) /\ IsCall(e.outcome)}
FlowsOf(k) == {e \in Events : k \in Keys(e.outcome) /\ ~IsCall(e.outcome)}
RatedOf(k) == {e \in FlowsOf(k) : e.outcome.quality # NoQuality}
Good(events) == {e \in events : e.outcome.success}
Refused(events) == {e \in events : e.outcome.rateLimited}
Qualities(k) == [e \in RatedOf(k) |-> e.outcome.quality]

(* The row of a key, when the events L were learned so often as t tells.   *)
CountedRow(t, L, k) ==
    LET times(events) == SumFunctionOnSet(t, events \cap L)
    IN  [observations |-> times(CallsOf(k)),
         successAlpha |-> 1 + times(Good(CallsOf(k))),
         successBeta |-> 1 + times(CallsOf(k) \ Good(CallsOf(k))),
         completionAlpha |-> 1 + times(Good(FlowsOf(k))),
         completionBeta |-> 1 + times(FlowsOf(k) \ Good(FlowsOf(k))),
         rateAlpha |-> 1 + times(Refused(CallsOf(k))),
         rateBeta |-> 9 + times(CallsOf(k) \ Refused(CallsOf(k))),
         qualityTotal |-> Worth(t, Qualities(k), RatedOf(k) \cap L),
         qualityCount |-> times(RatedOf(k))]

(* Before and after a step, the row is counted from the events learned.    *)
LEMMA CountsAre ==
    ASSUME NEW r, NEW k
    PROVE  /\ Counts(r, k) = CountedRow(taught[r], Learned(r), k)
           /\ Counts(r, k)' = CountedRow(taught'[r], Learned(r)', k)
<1>1. ASSUME NEW known, NEW L, L \subseteq Events, known = {e \in L : k \in Keys(e.outcome)}
      PROVE  LET calls == {e \in known : IsCall(e.outcome)}
                 workflows == {e \in known : ~IsCall(e.outcome)}
             IN  /\ calls = CallsOf(k) \cap L
                 /\ workflows = FlowsOf(k) \cap L
                 /\ {e \in calls : e.outcome.success} = Good(CallsOf(k)) \cap L
                 /\ {e \in calls : ~e.outcome.success} = (CallsOf(k) \ Good(CallsOf(k))) \cap L
                 /\ {e \in workflows : e.outcome.success} = Good(FlowsOf(k)) \cap L
                 /\ {e \in workflows : ~e.outcome.success} = (FlowsOf(k) \ Good(FlowsOf(k))) \cap L
                 /\ {e \in calls : e.outcome.rateLimited} = Refused(CallsOf(k)) \cap L
                 /\ {e \in calls : ~e.outcome.rateLimited} = (CallsOf(k) \ Refused(CallsOf(k))) \cap L
                 /\ {e \in workflows : e.outcome.quality # NoQuality} = RatedOf(k) \cap L
  BY <1>1 DEF CallsOf, FlowsOf, Good, Refused, RatedOf
<1>2. Learned(r) \subseteq Events /\ Learned(r)' \subseteq Events
  BY DEF Learned
<1>3. ASSUME NEW t, NEW L, L \subseteq Events
      PROVE  LET known == {e \in L : k \in Keys(e.outcome)}
                 calls == {e \in known : IsCall(e.outcome)}
                 workflows == {e \in known : ~IsCall(e.outcome)}
                 rated == {e \in workflows : e.outcome.quality # NoQuality}
             IN  [observations |-> SumFunctionOnSet(t, calls),
                  successAlpha |-> 1 + SumFunctionOnSet(t, {e \in calls : e.outcome.success}),
                  successBeta |-> 1 + SumFunctionOnSet(t, {e \in calls : ~e.outcome.success}),
                  completionAlpha |-> 1 + SumFunctionOnSet(t, {e \in workflows : e.outcome.success}),
                  completionBeta |-> 1 + SumFunctionOnSet(t, {e \in workflows : ~e.outcome.success}),
                  rateAlpha |-> 1 + SumFunctionOnSet(t, {e \in calls : e.outcome.rateLimited}),
                  rateBeta |-> 9 + SumFunctionOnSet(t, {e \in calls : ~e.outcome.rateLimited}),
                  qualityTotal |-> SumFunctionOnSet(
                      [e \in rated |-> t[e] * [x \in rated |-> x.outcome.quality][e]], rated),
                  qualityCount |-> SumFunctionOnSet(t, rated)] = CountedRow(t, L, k)
  <2> DEFINE known == {e \in L : k \in Keys(e.outcome)}
             calls == {e \in known : IsCall(e.outcome)}
             workflows == {e \in known : ~IsCall(e.outcome)}
             rated == {e \in workflows : e.outcome.quality # NoQuality}
             s1 == {e \in calls : e.outcome.success}
             s2 == {e \in calls : ~e.outcome.success}
             s3 == {e \in workflows : e.outcome.success}
             s4 == {e \in workflows : ~e.outcome.success}
             s5 == {e \in calls : e.outcome.rateLimited}
             s6 == {e \in calls : ~e.outcome.rateLimited}
             f == [e \in rated |-> t[e] * [x \in rated |-> x.outcome.quality][e]]
             g == [e \in RatedOf(k) \cap L |-> t[e] * Qualities(k)[e]]
  <2>1. /\ calls = CallsOf(k) \cap L
        /\ s1 = Good(CallsOf(k)) \cap L
        /\ s2 = (CallsOf(k) \ Good(CallsOf(k))) \cap L
        /\ s3 = Good(FlowsOf(k)) \cap L
        /\ s4 = (FlowsOf(k) \ Good(FlowsOf(k))) \cap L
        /\ s5 = Refused(CallsOf(k)) \cap L
        /\ s6 = (CallsOf(k) \ Refused(CallsOf(k))) \cap L
        /\ rated = RatedOf(k) \cap L
    BY <1>1, <1>3
  <2> HIDE DEF rated
  <2>2. f = g
    <3>1. rated = RatedOf(k) \cap L
      BY <2>1
    <3>2. f = [e \in rated |-> t[e] * Qualities(k)[e]]
      BY <3>1 DEF Qualities
    <3> QED
      BY <3>1, <3>2
  <2> HIDE DEF s1, s2, s3, s4, s5, s6, f, g, calls
  <2>3. CountedRow(t, L, k) =
          [observations |-> SumFunctionOnSet(t, calls),
           successAlpha |-> 1 + SumFunctionOnSet(t, s1), successBeta |-> 1 + SumFunctionOnSet(t, s2),
           completionAlpha |-> 1 + SumFunctionOnSet(t, s3), completionBeta |-> 1 + SumFunctionOnSet(t, s4),
           rateAlpha |-> 1 + SumFunctionOnSet(t, s5), rateBeta |-> 9 + SumFunctionOnSet(t, s6),
           qualityTotal |-> SumFunctionOnSet(g, rated), qualityCount |-> SumFunctionOnSet(t, rated)]
    BY <2>1 DEF CountedRow, Worth, g
  <2> QED
    BY <2>2, <2>3 DEF rated, s1, s2, s3, s4, s5, s6, f, calls
<1>4. Counts(r, k) = CountedRow(taught[r], Learned(r), k)
  BY <1>2, <1>3 DEF Counts, Times, Total
<1>5. Counts(r, k)' = CountedRow(taught'[r], Learned(r)', k)
  BY <1>2, <1>3 DEF Counts, Times, Total
<1> QED
  BY <1>4, <1>5

(* What a call adds to each column of a row.                               *)
LEMMA NextCallIs ==
    ASSUME NEW a1, NEW a2, NEW a3, NEW a4, NEW a5, NEW a6, NEW a7, NEW a8, NEW a9, NEW o
    PROVE  NextCall([observations |-> a1, successAlpha |-> a2, successBeta |-> a3,
                     completionAlpha |-> a4, completionBeta |-> a5,
                     rateAlpha |-> a6, rateBeta |-> a7, qualityTotal |-> a8,
                     qualityCount |-> a9], o)
             = [observations |-> a1 + 1, successAlpha |-> a2 + One(o.success),
                successBeta |-> a3 + One(~o.success), completionAlpha |-> a4,
                completionBeta |-> a5, rateAlpha |-> a6 + One(o.rateLimited),
                rateBeta |-> a7 + One(~o.rateLimited), qualityTotal |-> a8,
                qualityCount |-> a9]
<1> DEFINE r0 == [observations |-> a1, successAlpha |-> a2, successBeta |-> a3,
                  completionAlpha |-> a4, completionBeta |-> a5, rateAlpha |-> a6,
                  rateBeta |-> a7, qualityTotal |-> a8, qualityCount |-> a9]
           v1 == r0.observations + 1
           v2 == r0.successAlpha + One(o.success)
           v3 == r0.successBeta + One(~o.success)
           v4 == r0.rateAlpha + One(o.rateLimited)
           v5 == r0.rateBeta + One(~o.rateLimited)
           r1 == [r0 EXCEPT !.observations = v1]
           r2 == [r1 EXCEPT !.successAlpha = v2]
           r3 == [r2 EXCEPT !.successBeta = v3]
           r4 == [r3 EXCEPT !.rateAlpha = v4]
           r5 == [r4 EXCEPT !.rateBeta = v5]
<1>1. /\ v1 = a1 + 1
      /\ v2 = a2 + One(o.success)
      /\ v3 = a3 + One(~o.success)
      /\ v4 = a6 + One(o.rateLimited)
      /\ v5 = a7 + One(~o.rateLimited)
  OBVIOUS
<1>2. NextCall(r0, o) = r5
  <2> HIDE DEF r0
  <2> QED
    BY Zenon DEF NextCall
<1> HIDE DEF v1, v2, v3, v4, v5
<1>3. r1 = [observations |-> v1, successAlpha |-> a2, successBeta |-> a3,
             completionAlpha |-> a4, completionBeta |-> a5, rateAlpha |-> a6,
             rateBeta |-> a7, qualityTotal |-> a8, qualityCount |-> a9]
  OBVIOUS
<1> HIDE DEF r1
<1>4. r2 = [observations |-> v1, successAlpha |-> v2, successBeta |-> a3,
             completionAlpha |-> a4, completionBeta |-> a5, rateAlpha |-> a6,
             rateBeta |-> a7, qualityTotal |-> a8, qualityCount |-> a9]
  BY <1>3
<1> HIDE DEF r2
<1>5. r3 = [observations |-> v1, successAlpha |-> v2, successBeta |-> v3,
             completionAlpha |-> a4, completionBeta |-> a5, rateAlpha |-> a6,
             rateBeta |-> a7, qualityTotal |-> a8, qualityCount |-> a9]
  BY <1>4
<1> HIDE DEF r3
<1>6. r4 = [observations |-> v1, successAlpha |-> v2, successBeta |-> v3,
             completionAlpha |-> a4, completionBeta |-> a5, rateAlpha |-> v4,
             rateBeta |-> a7, qualityTotal |-> a8, qualityCount |-> a9]
  BY <1>5
<1> HIDE DEF r4
<1>7. r5 = [observations |-> v1, successAlpha |-> v2, successBeta |-> v3,
             completionAlpha |-> a4, completionBeta |-> a5, rateAlpha |-> v4,
             rateBeta |-> v5, qualityTotal |-> a8, qualityCount |-> a9]
  BY <1>6
<1> HIDE DEF r5
<1> QED
  BY <1>1, <1>2, <1>7

(* What a workflow adds.                                                   *)
LEMMA NextWorkflowIs ==
    ASSUME NEW a1, NEW a2, NEW a3, NEW a4, NEW a5, NEW a6, NEW a7, NEW a8, NEW a9, NEW o
    PROVE  NextWorkflow([observations |-> a1, successAlpha |-> a2,
                         successBeta |-> a3, completionAlpha |-> a4,
                         completionBeta |-> a5, rateAlpha |-> a6, rateBeta |-> a7,
                         qualityTotal |-> a8, qualityCount |-> a9], o)
             = [observations |-> a1, successAlpha |-> a2, successBeta |-> a3,
                completionAlpha |-> a4 + One(o.success),
                completionBeta |-> a5 + One(~o.success), rateAlpha |-> a6,
                rateBeta |-> a7,
                qualityTotal |-> IF o.quality = NoQuality THEN a8 ELSE a8 + o.quality,
                qualityCount |-> a9 + One(o.quality # NoQuality)]
<1> DEFINE r0 == [observations |-> a1, successAlpha |-> a2, successBeta |-> a3,
                  completionAlpha |-> a4, completionBeta |-> a5, rateAlpha |-> a6,
                  rateBeta |-> a7, qualityTotal |-> a8, qualityCount |-> a9]
           v1 == r0.completionAlpha + One(o.success)
           v2 == r0.completionBeta + One(~o.success)
           v3 == IF o.quality = NoQuality THEN r0.qualityTotal ELSE r0.qualityTotal + o.quality
           v4 == r0.qualityCount + One(o.quality # NoQuality)
           r1 == [r0 EXCEPT !.completionAlpha = v1]
           r2 == [r1 EXCEPT !.completionBeta = v2]
           r3 == [r2 EXCEPT !.qualityTotal = v3]
           r4 == [r3 EXCEPT !.qualityCount = v4]
<1>1. /\ v1 = a4 + One(o.success)
      /\ v2 = a5 + One(~o.success)
      /\ v3 = IF o.quality = NoQuality THEN a8 ELSE a8 + o.quality
      /\ v4 = a9 + One(o.quality # NoQuality)
  OBVIOUS
<1>2. NextWorkflow(r0, o) = r4
  <2> HIDE DEF r0
  <2> QED
    BY Zenon DEF NextWorkflow
<1> HIDE DEF v1, v2, v3, v4
<1>3. r1 = [observations |-> a1, successAlpha |-> a2, successBeta |-> a3,
             completionAlpha |-> v1, completionBeta |-> a5, rateAlpha |-> a6,
             rateBeta |-> a7, qualityTotal |-> a8, qualityCount |-> a9]
  OBVIOUS
<1> HIDE DEF r1
<1>4. r2 = [observations |-> a1, successAlpha |-> a2, successBeta |-> a3,
             completionAlpha |-> v1, completionBeta |-> v2, rateAlpha |-> a6,
             rateBeta |-> a7, qualityTotal |-> a8, qualityCount |-> a9]
  BY <1>3
<1> HIDE DEF r2
<1>5. r3 = [observations |-> a1, successAlpha |-> a2, successBeta |-> a3,
             completionAlpha |-> v1, completionBeta |-> v2, rateAlpha |-> a6,
             rateBeta |-> a7, qualityTotal |-> v3, qualityCount |-> a9]
  BY <1>4
<1> HIDE DEF r3
<1>6. r4 = [observations |-> a1, successAlpha |-> a2, successBeta |-> a3,
             completionAlpha |-> v1, completionBeta |-> v2, rateAlpha |-> a6,
             rateBeta |-> a7, qualityTotal |-> v3, qualityCount |-> v4]
  BY <1>5
<1> HIDE DEF r4
<1> QED
  BY <1>1, <1>2, <1>6

(* Learning an outcome changes the counts of its keys as it changes their  *)
(* rows, and no others.                                                    *)
LEMMA CountsMove ==
    ASSUME LearningTypeOK, NEW r \in Replicas, NEW e \in Events, LearningStep(r, e),
           IsFiniteSet(Learned(r)), NEW k
    PROVE  Counts(r, k)' = IF k \in Keys(e.outcome) THEN NextRow(Counts(r, k), e.outcome)
                           ELSE Counts(r, k)
<1> DEFINE o == e.outcome
           mine == k \in Keys(o)
           call == IsCall(o)
           T(chosen) == SumFunctionOnSet(taught[r], chosen \cap Learned(r))
           N(chosen) == SumFunctionOnSet(taught'[r], chosen \cap Learned(r)')
           q == Worth(taught[r], Qualities(k), RatedOf(k) \cap Learned(r))
           qn == Worth(taught'[r], Qualities(k), RatedOf(k) \cap Learned(r)')
<1>1. /\ o.success \in BOOLEAN /\ mine \in BOOLEAN /\ call \in BOOLEAN
      /\ call => o.rateLimited \in BOOLEAN
      /\ ~call => o.quality \in Nat \cup {NoQuality}
  BY EventIs DEF IsCall
<1>2. ASSUME NEW chosen \in SUBSET Events
      PROVE  T(chosen) \in Nat /\ N(chosen) = T(chosen) + One(e \in chosen)
  BY TimesMove DEF Times
<1>3. /\ T(CallsOf(k)) \in Nat /\ N(CallsOf(k)) = T(CallsOf(k)) + One(mine /\ call)
      /\ T(Good(CallsOf(k))) \in Nat
      /\ N(Good(CallsOf(k))) = T(Good(CallsOf(k))) + One(mine /\ call /\ o.success)
      /\ T(CallsOf(k) \ Good(CallsOf(k))) \in Nat
      /\ N(CallsOf(k) \ Good(CallsOf(k)))
           = T(CallsOf(k) \ Good(CallsOf(k))) + One(mine /\ call /\ ~o.success)
  <2>1. /\ CallsOf(k) \in SUBSET Events /\ Good(CallsOf(k)) \in SUBSET Events
        /\ CallsOf(k) \ Good(CallsOf(k)) \in SUBSET Events
        /\ e \in CallsOf(k) <=> mine /\ call
        /\ e \in Good(CallsOf(k)) <=> mine /\ call /\ o.success
        /\ e \in CallsOf(k) \ Good(CallsOf(k)) <=> mine /\ call /\ ~o.success
    BY DEF CallsOf, Good
  <2> HIDE DEF T, N, mine, call, o
  <2> QED
    BY <1>2, <2>1 DEF One
<1>4. /\ T(Good(FlowsOf(k))) \in Nat
      /\ N(Good(FlowsOf(k))) = T(Good(FlowsOf(k))) + One(mine /\ ~call /\ o.success)
      /\ T(FlowsOf(k) \ Good(FlowsOf(k))) \in Nat
      /\ N(FlowsOf(k) \ Good(FlowsOf(k)))
           = T(FlowsOf(k) \ Good(FlowsOf(k))) + One(mine /\ ~call /\ ~o.success)
      /\ T(RatedOf(k)) \in Nat
      /\ N(RatedOf(k)) = T(RatedOf(k)) + One(mine /\ ~call /\ o.quality # NoQuality)
  <2>1. /\ Good(FlowsOf(k)) \in SUBSET Events /\ RatedOf(k) \in SUBSET Events
        /\ FlowsOf(k) \ Good(FlowsOf(k)) \in SUBSET Events
        /\ e \in Good(FlowsOf(k)) <=> mine /\ ~call /\ o.success
        /\ e \in FlowsOf(k) \ Good(FlowsOf(k)) <=> mine /\ ~call /\ ~o.success
        /\ e \in RatedOf(k) <=> mine /\ ~call /\ o.quality # NoQuality
    BY DEF FlowsOf, Good, RatedOf
  <2> HIDE DEF T, N, mine, call, o
  <2> QED
    BY <1>2, <2>1 DEF One
<1>5. /\ T(Refused(CallsOf(k))) \in Nat
      /\ N(Refused(CallsOf(k))) = T(Refused(CallsOf(k))) + One(mine /\ call /\ o.rateLimited)
      /\ T(CallsOf(k) \ Refused(CallsOf(k))) \in Nat
      /\ N(CallsOf(k) \ Refused(CallsOf(k)))
           = T(CallsOf(k) \ Refused(CallsOf(k))) + One(mine /\ call /\ ~o.rateLimited)
  <2>1. /\ Refused(CallsOf(k)) \in SUBSET Events
        /\ CallsOf(k) \ Refused(CallsOf(k)) \in SUBSET Events
        /\ e \in Refused(CallsOf(k)) <=> mine /\ call /\ o.rateLimited
        /\ e \in CallsOf(k) \ Refused(CallsOf(k)) <=> mine /\ call /\ ~o.rateLimited
    BY DEF CallsOf, Refused
  <2> HIDE DEF T, N, mine, call, o
  <2> QED
    BY <1>2, <2>1 DEF One
<1>6. /\ q \in Int
      /\ qn = q + IF mine /\ ~call /\ o.quality # NoQuality THEN o.quality ELSE 0
  <2> DEFINE value == Qualities(k)
  <2>1. \A x \in RatedOf(k) : value[x] = x.outcome.quality /\ value[x] \in Int
    BY EventIs DEF RatedOf, FlowsOf, Qualities
  <2>2. /\ RatedOf(k) \in SUBSET Events
        /\ e \in RatedOf(k) <=> mine /\ ~call /\ o.quality # NoQuality
    BY DEF FlowsOf, RatedOf
  <2>3. \A x \in RatedOf(k) : value[x] \in Int
    BY <2>1
  <2>4. q \in Int /\ qn = q + IF e \in RatedOf(k) THEN value[e] ELSE 0
    <3> HIDE DEF value
    <3>1. RatedOf(k) \in SUBSET Events
      BY <2>2
    <3>2. /\ Worth(taught[r], value, RatedOf(k) \cap Learned(r)) \in Int
          /\ Worth(taught'[r], value, RatedOf(k) \cap Learned(r)')
               = Worth(taught[r], value, RatedOf(k) \cap Learned(r)) + ValueIn(value, RatedOf(k), e)
      BY <2>3, <3>1, TotalMoves
    <3> QED
      BY <3>2 DEF value, ValueIn
  <2> HIDE DEF q, qn
  <2> QED
    BY <2>1, <2>2, <2>4
<1> DEFINE a1 == T(CallsOf(k))  a2 == T(Good(CallsOf(k)))  a3 == T(CallsOf(k) \ Good(CallsOf(k)))
           a4 == T(Good(FlowsOf(k)))  a5 == T(FlowsOf(k) \ Good(FlowsOf(k)))
           a6 == T(Refused(CallsOf(k)))  a7 == T(CallsOf(k) \ Refused(CallsOf(k)))
           a9 == T(RatedOf(k))
           b1 == N(CallsOf(k))  b2 == N(Good(CallsOf(k)))  b3 == N(CallsOf(k) \ Good(CallsOf(k)))
           b4 == N(Good(FlowsOf(k)))  b5 == N(FlowsOf(k) \ Good(FlowsOf(k)))
           b6 == N(Refused(CallsOf(k)))  b7 == N(CallsOf(k) \ Refused(CallsOf(k)))
           b9 == N(RatedOf(k))
<1>7. /\ Counts(r, k) = [observations |-> a1, successAlpha |-> 1 + a2, successBeta |-> 1 + a3,
                         completionAlpha |-> 1 + a4, completionBeta |-> 1 + a5,
                         rateAlpha |-> 1 + a6, rateBeta |-> 9 + a7,
                         qualityTotal |-> q, qualityCount |-> a9]
      /\ Counts(r, k)' = [observations |-> b1, successAlpha |-> 1 + b2, successBeta |-> 1 + b3,
                          completionAlpha |-> 1 + b4, completionBeta |-> 1 + b5,
                          rateAlpha |-> 1 + b6, rateBeta |-> 9 + b7,
                          qualityTotal |-> qn, qualityCount |-> b9]
  BY CountsAre DEF CountedRow
<1>8. /\ a1 \in Nat /\ a2 \in Nat /\ a3 \in Nat /\ a4 \in Nat /\ a5 \in Nat /\ a6 \in Nat
      /\ a7 \in Nat /\ q \in Int /\ a9 \in Nat
      /\ b1 = a1 + One(mine /\ call)
      /\ b2 = a2 + One(mine /\ call /\ o.success) /\ b3 = a3 + One(mine /\ call /\ ~o.success)
      /\ b4 = a4 + One(mine /\ ~call /\ o.success) /\ b5 = a5 + One(mine /\ ~call /\ ~o.success)
      /\ b6 = a6 + One(mine /\ call /\ o.rateLimited)
      /\ b7 = a7 + One(mine /\ call /\ ~o.rateLimited)
      /\ b9 = a9 + One(mine /\ ~call /\ o.quality # NoQuality)
      /\ qn = q + IF mine /\ ~call /\ o.quality # NoQuality THEN o.quality ELSE 0
  BY <1>3, <1>4, <1>5, <1>6
<1> HIDE DEF T, N, q, qn, a1, a2, a3, a4, a5, a6, a7, a9, b1, b2, b3, b4, b5, b6, b7, b9
<1>9. CASE ~mine
  <2>1. /\ b1 = a1 /\ b2 = a2 /\ b3 = a3 /\ b4 = a4 /\ b5 = a5 /\ b6 = a6 /\ b7 = a7
        /\ b9 = a9 /\ qn = q
    BY <1>8, <1>9 DEF One
  <2> QED
    BY <1>7, <1>9, <2>1
<1>10. CASE mine /\ call
  <2>1. /\ b1 = a1 + 1 /\ b2 = a2 + One(o.success) /\ b3 = a3 + One(~o.success)
        /\ b4 = a4 /\ b5 = a5
        /\ b6 = a6 + One(o.rateLimited) /\ b7 = a7 + One(~o.rateLimited)
        /\ b9 = a9 /\ qn = q
    BY <1>1, <1>8, <1>10 DEF One
  <2>2. /\ 1 + b2 = (1 + a2) + One(o.success) /\ 1 + b3 = (1 + a3) + One(~o.success)
        /\ 1 + b6 = (1 + a6) + One(o.rateLimited) /\ 9 + b7 = (9 + a7) + One(~o.rateLimited)
    BY <1>8, <2>1 DEF One
  <2>3. Counts(r, k)' = NextCall(Counts(r, k), o)
    BY <1>7, <2>1, <2>2, NextCallIs
  <2> QED
    BY <1>10, <2>3 DEF NextRow
<1>11. CASE mine /\ ~call
  <2>1. /\ b1 = a1 /\ b2 = a2 /\ b3 = a3 /\ b6 = a6 /\ b7 = a7
        /\ b4 = a4 + One(o.success) /\ b5 = a5 + One(~o.success)
        /\ b9 = a9 + One(o.quality # NoQuality)
        /\ qn = IF o.quality = NoQuality THEN q ELSE q + o.quality
    BY <1>1, <1>8, <1>11 DEF One
  <2>2. 1 + b4 = (1 + a4) + One(o.success) /\ 1 + b5 = (1 + a5) + One(~o.success)
    BY <1>8, <2>1 DEF One
  <2>3. Counts(r, k)' = NextWorkflow(Counts(r, k), o)
    BY <1>7, <2>1, <2>2, NextWorkflowIs
  <2> QED
    BY <1>11, <2>3 DEF NextRow
<1> QED
  BY <1>1, <1>9, <1>10, <1>11

(* A replica that learned nothing counts what it counted.                  *)
LEMMA CountsStay ==
    ASSUME NEW r, NEW k, taught'[r] = taught[r]
    PROVE  Learned(r)' = Learned(r) /\ Counts(r, k)' = Counts(r, k)
<1>1. Learned(r)' = Learned(r)
  BY DEF Learned
<1> QED
  BY <1>1, CountsAre

(* The first outcome of a row is an update of the prior.                   *)
LEMMA FirstIsNext ==
    ASSUME NEW o, o.success \in BOOLEAN
    PROVE  /\ o.rateLimited \in BOOLEAN => FirstCall(o) = NextCall(NewRow, o)
           /\ o.quality \in Nat \cup {NoQuality} => FirstWorkflow(o) = NextWorkflow(NewRow, o)
<1> DEFINE v2 == IF o.success THEN 2 ELSE 1
           v3 == IF o.success THEN 1 ELSE 2
           v6 == IF o.rateLimited THEN 2 ELSE 1
           v7 == IF o.rateLimited THEN 9 ELSE 10
           v8 == IF o.quality = NoQuality THEN 0 ELSE o.quality
           v9 == One(o.quality # NoQuality)
<1>1. ASSUME o.rateLimited \in BOOLEAN PROVE FirstCall(o) = NextCall(NewRow, o)
  <2> DEFINE r1 == [NewRow EXCEPT !.observations = 1]
             r2 == [r1 EXCEPT !.successAlpha = v2]
             r3 == [r2 EXCEPT !.successBeta = v3]
             r4 == [r3 EXCEPT !.rateAlpha = v6]
             r5 == [r4 EXCEPT !.rateBeta = v7]
  <2>1. FirstCall(o) = r5
    BY Zenon DEF FirstCall
  <2>2. /\ v2 = 1 + One(o.success) /\ v3 = 1 + One(~o.success)
        /\ v6 = 1 + One(o.rateLimited) /\ v7 = 9 + One(~o.rateLimited)
        /\ 1 = 0 + 1
    BY <1>1 DEF One
  <2> HIDE DEF v2, v3, v6, v7
  <2>3. r1 = [observations |-> 1, successAlpha |-> 1, successBeta |-> 1,
              completionAlpha |-> 1, completionBeta |-> 1, rateAlpha |-> 1, rateBeta |-> 9,
              qualityTotal |-> 0, qualityCount |-> 0]
    BY DEF NewRow
  <2> HIDE DEF r1
  <2>4. r2 = [observations |-> 1, successAlpha |-> v2, successBeta |-> 1,
              completionAlpha |-> 1, completionBeta |-> 1, rateAlpha |-> 1, rateBeta |-> 9,
              qualityTotal |-> 0, qualityCount |-> 0]
    BY <2>3
  <2> HIDE DEF r2
  <2>5. r3 = [observations |-> 1, successAlpha |-> v2, successBeta |-> v3,
              completionAlpha |-> 1, completionBeta |-> 1, rateAlpha |-> 1, rateBeta |-> 9,
              qualityTotal |-> 0, qualityCount |-> 0]
    BY <2>4
  <2> HIDE DEF r3
  <2>6. r4 = [observations |-> 1, successAlpha |-> v2, successBeta |-> v3,
              completionAlpha |-> 1, completionBeta |-> 1, rateAlpha |-> v6, rateBeta |-> 9,
              qualityTotal |-> 0, qualityCount |-> 0]
    BY <2>5
  <2> HIDE DEF r4
  <2>7. r5 = [observations |-> 1, successAlpha |-> v2, successBeta |-> v3,
              completionAlpha |-> 1, completionBeta |-> 1, rateAlpha |-> v6, rateBeta |-> v7,
              qualityTotal |-> 0, qualityCount |-> 0]
    BY <2>6
  <2> HIDE DEF r5
  <2> QED
    BY <2>1, <2>2, <2>7, NextCallIs DEF NewRow
<1>2. ASSUME o.quality \in Nat \cup {NoQuality} PROVE FirstWorkflow(o) = NextWorkflow(NewRow, o)
  <2> DEFINE r1 == [NewRow EXCEPT !.completionAlpha = v2]
             r2 == [r1 EXCEPT !.completionBeta = v3]
             r3 == [r2 EXCEPT !.qualityTotal = v8]
             r4 == [r3 EXCEPT !.qualityCount = v9]
  <2>1. FirstWorkflow(o) = r4
    BY Zenon DEF FirstWorkflow
  <2>2. /\ v2 = 1 + One(o.success) /\ v3 = 1 + One(~o.success)
        /\ v8 = IF o.quality = NoQuality THEN 0 ELSE 0 + o.quality
        /\ v9 = 0 + One(o.quality # NoQuality)
    BY <1>2 DEF One
  <2>3. r1 = [observations |-> 0, successAlpha |-> 1, successBeta |-> 1,
              completionAlpha |-> v2, completionBeta |-> 1, rateAlpha |-> 1, rateBeta |-> 9,
              qualityTotal |-> 0, qualityCount |-> 0]
    BY DEF NewRow
  <2> HIDE DEF r1, v2, v3, v8, v9
  <2>4. r2 = [observations |-> 0, successAlpha |-> 1, successBeta |-> 1,
              completionAlpha |-> v2, completionBeta |-> v3, rateAlpha |-> 1, rateBeta |-> 9,
              qualityTotal |-> 0, qualityCount |-> 0]
    BY <2>3
  <2> HIDE DEF r2
  <2>5. r3 = [observations |-> 0, successAlpha |-> 1, successBeta |-> 1,
              completionAlpha |-> v2, completionBeta |-> v3, rateAlpha |-> 1, rateBeta |-> 9,
              qualityTotal |-> v8, qualityCount |-> 0]
    BY <2>4
  <2> HIDE DEF r3
  <2>6. r4 = [observations |-> 0, successAlpha |-> 1, successBeta |-> 1,
              completionAlpha |-> v2, completionBeta |-> v3, rateAlpha |-> 1, rateBeta |-> 9,
              qualityTotal |-> v8, qualityCount |-> v9]
    BY <2>5
  <2> HIDE DEF r4
  <2> QED
    BY <2>1, <2>2, <2>6, NextWorkflowIs DEF NewRow
<1> QED
  BY <1>1, <1>2

(* A table that learned an outcome has its keys, and its rows updated.     *)
LearnedBy(table, o) ==
    [k \in DOMAIN table \cup Keys(o) |->
        IF k \in Keys(o) THEN NextRow(RowOf(table, k), o) ELSE table[k]]

(* The SQL upserts and LearnedBy are the same update: inserting the first  *)
(* row and updating a row of the prior give the same.                      *)
LEMMA TableLearns ==
    ASSUME NEW table, NEW e \in Events
    PROVE  /\ IsCall(e.outcome) => CallLearned(table, e.outcome) = LearnedBy(table, e.outcome)
           /\ ~IsCall(e.outcome) /\ e.outcome.model # NoModel
                 => WorkflowLearned(table, e.outcome) = LearnedBy(table, e.outcome)
           /\ ~IsCall(e.outcome) /\ e.outcome.model = NoModel
                 => WorkflowLearned(table, e.outcome) = table
<1>1. /\ e.outcome.success \in BOOLEAN
      /\ IsCall(e.outcome) => e.outcome.rateLimited \in BOOLEAN
      /\ ~IsCall(e.outcome) => e.outcome.quality \in Nat \cup {NoQuality}
  BY EventIs
<1>2. /\ IsCall(e.outcome) => FirstCall(e.outcome) = NextCall(NewRow, e.outcome)
      /\ ~IsCall(e.outcome) => FirstWorkflow(e.outcome) = NextWorkflow(NewRow, e.outcome)
  BY <1>1, FirstIsNext
<1>3. ASSUME IsCall(e.outcome) PROVE CallLearned(table, e.outcome) = LearnedBy(table, e.outcome)
  BY <1>2, <1>3 DEF CallLearned, Upserted, LearnedBy, RowOf, NextRow
<1>4. ASSUME ~IsCall(e.outcome), e.outcome.model # NoModel
      PROVE  WorkflowLearned(table, e.outcome) = LearnedBy(table, e.outcome)
  BY <1>2, <1>4 DEF WorkflowLearned, Upserted, LearnedBy, RowOf, NextRow
<1> QED
  BY <1>3, <1>4 DEF WorkflowLearned

(* What a learning step does to the statistics.                            *)
LEMMA StatsMove ==
    ASSUME DOMAIN stats = Replicas, NEW r \in Replicas, NEW e \in Events, LearningStep(r, e)
    PROVE  /\ DOMAIN stats' = Replicas
           /\ stats'[r] = IF e.outcome.model = NoModel THEN stats[r]
                          ELSE LearnedBy(stats[r], e.outcome)
           /\ \A q \in Replicas \ {r} : stats'[q] = stats[q]
<1>1. IsCall(e.outcome) => e.outcome.model # NoModel
  BY EventIs
<1>2. ASSUME IsCall(e.outcome), stats' = [stats EXCEPT ![r] = CallLearned(@, e.outcome)]
      PROVE  /\ DOMAIN stats' = Replicas
             /\ stats'[r] = LearnedBy(stats[r], e.outcome)
             /\ \A q \in Replicas \ {r} : stats'[q] = stats[q]
  <2>1. CallLearned(stats[r], e.outcome) = LearnedBy(stats[r], e.outcome)
    BY <1>2, TableLearns
  <2> QED
    BY <1>2, <2>1
<1>3. ASSUME ~IsCall(e.outcome), stats' = [stats EXCEPT ![r] = WorkflowLearned(@, e.outcome)]
      PROVE  /\ DOMAIN stats' = Replicas
             /\ stats'[r] = IF e.outcome.model = NoModel THEN stats[r]
                            ELSE LearnedBy(stats[r], e.outcome)
             /\ \A q \in Replicas \ {r} : stats'[q] = stats[q]
  <2>1. WorkflowLearned(stats[r], e.outcome)
          = IF e.outcome.model = NoModel THEN stats[r] ELSE LearnedBy(stats[r], e.outcome)
    BY <1>3, TableLearns
  <2> QED
    BY <1>3, <2>1
<1>4. \/ IsCall(e.outcome) /\ stats' = [stats EXCEPT ![r] = CallLearned(@, e.outcome)]
      \/ ~IsCall(e.outcome) /\ stats' = [stats EXCEPT ![r] = WorkflowLearned(@, e.outcome)]
  BY DEF LearningStep, recordLearningOutcome, recordWorkflowLearning, recordCallOutcome,
         recordWorkflowOutcome
<1> QED
  BY <1>1, <1>2, <1>3, <1>4

(* A key of which nothing was learned counts its prior.                    *)
LEMMA NothingCounted ==
    ASSUME NEW r, NEW k, \A e \in Learned(r) : k \notin Keys(e.outcome)
    PROVE  Counts(r, k) = NewRow
<1> DEFINE L == Learned(r)
<1>1. /\ CallsOf(k) \cap L = {} /\ FlowsOf(k) \cap L = {} /\ RatedOf(k) \cap L = {}
      /\ Good(CallsOf(k)) \cap L = {} /\ Good(FlowsOf(k)) \cap L = {}
      /\ Refused(CallsOf(k)) \cap L = {}
      /\ (CallsOf(k) \ Good(CallsOf(k))) \cap L = {}
      /\ (FlowsOf(k) \ Good(FlowsOf(k))) \cap L = {}
      /\ (CallsOf(k) \ Refused(CallsOf(k))) \cap L = {}
  BY DEF CallsOf, FlowsOf, RatedOf, Good, Refused
<1>2. SumFunctionOnSet(taught[r], {}) = 0 /\ Worth(taught[r], Qualities(k), {}) = 0
  BY SumEmpty, Zenon DEF Worth
<1>3. CountedRow(taught[r], L, k) = NewRow
  <2> HIDE DEF L
  <2> DEFINE z == SumFunctionOnSet(taught[r], {})
  <2>1. CountedRow(taught[r], L, k) =
          [observations |-> z, successAlpha |-> 1 + z, successBeta |-> 1 + z,
           completionAlpha |-> 1 + z, completionBeta |-> 1 + z, rateAlpha |-> 1 + z,
           rateBeta |-> 9 + z, qualityTotal |-> Worth(taught[r], Qualities(k), {}),
           qualityCount |-> z]
    BY <1>1 DEF CountedRow
  <2>2. z = 0
    BY <1>2
  <2> HIDE DEF z
  <2> QED
    BY <1>2, <2>1, <2>2 DEF NewRow
<1> QED
  BY <1>3, CountsAre

(* Every replica learned finitely many events.                             *)
FinitelyLearned == DOMAIN stats = Replicas /\ \A r \in Replicas : IsFiniteSet(Learned(r))

(* A step adds one event at most.                                          *)
LEMMA FinitelyLearnedStep ==
    ASSUME LearningTypeOK, FinitelyLearned, [Next]_vars
    PROVE  FinitelyLearned'
<1>1. ASSUME NEW r \in Replicas, NEW e \in Events, LearningStep(r, e)
      PROVE  FinitelyLearned'
  <2>1. Learned(r)' = Learned(r) \cup {e} /\ \A q \in Replicas \ {r} : taught'[q] = taught[q]
    BY <1>1, LearnedMoves
  <2>2. IsFiniteSet(Learned(r)')
    BY <2>1, FS_AddElement DEF FinitelyLearned
  <2>3. \A q \in Replicas \ {r} : Learned(q)' = Learned(q)
    BY <2>1, CountsStay
  <2>4. DOMAIN stats' = Replicas
    BY <1>1, StatsMove DEF FinitelyLearned
  <2> QED
    BY <2>2, <2>3, <2>4 DEF FinitelyLearned
<1>2. CASE UNCHANGED <<stats, taught>>
  BY <1>2 DEF FinitelyLearned, Learned
<1> QED
  BY <1>1, <1>2, EveryStep DEF KnownAgain

(* Every step keeps the rows the counts of what was learned.               *)
LEMMA CountsStep ==
    ASSUME LearningTypeOK, FinitelyLearned, PosteriorsAreCounts, [Next]_vars
    PROVE  PosteriorsAreCounts'
<1>1. ASSUME NEW r \in Replicas, NEW e \in Events, LearningStep(r, e)
      PROVE  PosteriorsAreCounts'
  <2>1. /\ DOMAIN stats = Replicas /\ IsFiniteSet(Learned(r))
        /\ Learned(r)' = Learned(r) \cup {e}
        /\ \A q \in Replicas \ {r} : taught'[q] = taught[q]
    BY <1>1, LearnedMoves DEF FinitelyLearned
  <2>2. /\ stats'[r] = IF e.outcome.model = NoModel THEN stats[r]
                       ELSE LearnedBy(stats[r], e.outcome)
        /\ \A q \in Replicas \ {r} : stats'[q] = stats[q]
    BY <1>1, <2>1, StatsMove
  <2>3. \A k : Counts(r, k)' = IF k \in Keys(e.outcome) THEN NextRow(Counts(r, k), e.outcome)
                               ELSE Counts(r, k)
    BY <1>1, <2>1, CountsMove
  <2>4. \A x \in Events : \A k \in Keys(x.outcome) : k[2] = x.outcome.model
    BY DEF Keys
  <2>5. \A k \in Keys(e.outcome) : e.outcome.model # NoModel => RowOf(stats[r], k) = Counts(r, k)
    <3> SUFFICES ASSUME NEW k \in Keys(e.outcome), e.outcome.model # NoModel
                 PROVE  RowOf(stats[r], k) = Counts(r, k)
      OBVIOUS
    <3>1. CASE k \in DOMAIN stats[r]
      BY <3>1 DEF RowOf, PosteriorsAreCounts
    <3>2. CASE k \notin DOMAIN stats[r]
      <4>1. \A x \in Learned(r) : k \notin Keys(x.outcome)
        <5> SUFFICES ASSUME NEW x \in Learned(r), k \in Keys(x.outcome) PROVE FALSE
          OBVIOUS
        <5>1. x.outcome.model # NoModel
          BY <2>4 DEF Learned
        <5> QED
          BY <3>2, <5>1 DEF PosteriorsAreCounts
      <4> QED
        BY <3>2, <4>1, NothingCounted DEF RowOf
    <3> QED
      BY <3>1, <3>2
  <2>6. \A k \in DOMAIN stats[r] : stats[r][k] = Counts(r, k)
    BY DEF PosteriorsAreCounts
  <2>7. DOMAIN stats'[r] = UNION {Keys(x.outcome) : x \in {y \in Learned(r)' : y.outcome.model # NoModel}}
    BY <2>1, <2>2 DEF LearnedBy, PosteriorsAreCounts
  <2>8. \A k \in DOMAIN stats'[r] : stats'[r][k] = Counts(r, k)'
    <3>1. CASE e.outcome.model = NoModel
      <4>1. \A k \in DOMAIN stats[r] : k \notin Keys(e.outcome)
        BY <2>4, <3>1 DEF PosteriorsAreCounts, Learned
      <4> QED
        BY <2>2, <2>3, <2>6, <3>1, <4>1
    <3>2. CASE e.outcome.model # NoModel
      BY <2>2, <2>3, <2>5, <2>6, <3>2 DEF LearnedBy
    <3> QED
      BY <3>1, <3>2
  <2>9. ASSUME NEW q \in Replicas \ {r}
        PROVE  /\ DOMAIN stats'[q]
                    = UNION {Keys(x.outcome) : x \in {y \in Learned(q)' : y.outcome.model # NoModel}}
               /\ \A k \in DOMAIN stats'[q] : stats'[q][k] = Counts(q, k)'
    <3>1. Learned(q)' = Learned(q) /\ \A k : Counts(q, k)' = Counts(q, k)
      BY <2>1, CountsStay
    <3> QED
      BY <2>2, <3>1 DEF PosteriorsAreCounts
  <2> QED
    BY <2>7, <2>8, <2>9 DEF PosteriorsAreCounts
<1>2. CASE UNCHANGED <<stats, taught>>
  <2>1. \A q \in Replicas : Learned(q)' = Learned(q) /\ \A k : Counts(q, k)' = Counts(q, k)
    BY <1>2, CountsStay
  <2> QED
    BY <1>2, <2>1 DEF PosteriorsAreCounts
<1> QED
  BY <1>1, <1>2, EveryStep DEF KnownAgain

(* Both hold of the empty tables.                                          *)
LEMMA NothingLearned == Init => FinitelyLearned /\ PosteriorsAreCounts
<1> SUFFICES ASSUME Init PROVE FinitelyLearned /\ PosteriorsAreCounts
  OBVIOUS
<1>1. \A r \in Replicas : Learned(r) = {} /\ stats[r] = << >>
  BY DEF Init, Learned
<1>2. \A r \in Replicas : DOMAIN stats[r] = {}
  BY <1>1
<1> QED
  BY <1>1, <1>2, FS_EmptySet DEF Init, FinitelyLearned, PosteriorsAreCounts

(* A row of the policy statistics is its prior plus one count for each     *)
(* outcome its replica learned in that scope, whichever way the reports    *)
(* were ordered, repeated or lost and whichever outcome created the row.   *)
THEOREM StatisticsAreCounts == Spec => []PosteriorsAreCounts
<1>1. Init => FinitelyLearned /\ PosteriorsAreCounts
  BY NothingLearned
<1>2. LearningTypeOK /\ FinitelyLearned /\ PosteriorsAreCounts /\ [Next]_vars
        => FinitelyLearned' /\ PosteriorsAreCounts'
  BY FinitelyLearnedStep, CountsStep
<1> QED
  BY <1>1, <1>2, LearningTypes, PTL DEF Spec

-----------------------------------------------------------------------------
(* The estimates follow the outcomes.                                      *)

(* The rows counting can reach: no column is below its prior.              *)
PolicyRows ==
    [observations : Nat, successAlpha : Nat \ {0}, successBeta : Nat \ {0},
     completionAlpha : Nat \ {0}, completionBeta : Nat \ {0},
     rateAlpha : Nat \ {0}, rateBeta : Nat \ 0..8, qualityTotal : Int, qualityCount : Nat]

(* What is counted from the events is such a row.                          *)
LEMMA CountsTyped ==
    ASSUME LearningTypeOK, FinitelyLearned, NEW r \in Replicas, NEW k
    PROVE  Counts(r, k) \in PolicyRows
<1> DEFINE L == Learned(r)
           T(events) == SumFunctionOnSet(taught[r], events \cap L)
<1>1. /\ IsFiniteSet(L) /\ L \subseteq Events
      /\ \A e \in Events : taught[r][e] \in Nat
  BY DEF FinitelyLearned, Learned, LearningTypeOK
<1>2. ASSUME NEW events PROVE T(events) \in Nat
  <2>1. IsFiniteSet(events \cap L)
    BY <1>1, FS_Subset
  <2>2. \A e \in events \cap L : taught[r][e] \in Nat
    BY <1>1
  <2> HIDE DEF L
  <2> QED
    BY <2>1, <2>2, SumType
<1>3. Worth(taught[r], Qualities(k), RatedOf(k) \cap L) \in Int
  <2> DEFINE S == RatedOf(k) \cap L
             f == [e \in S |-> taught[r][e] * Qualities(k)[e]]
  <2>1. IsFiniteSet(S)
    BY <1>1, FS_Subset
  <2>2. \A e \in S : taught[r][e] \in Int /\ Qualities(k)[e] \in Int
    BY <1>1, EventIs DEF RatedOf, FlowsOf, Qualities
  <2>3. SumFunctionOnSet(f, S) \in Int
    <3> HIDE DEF S
    <3>1. \A e \in S : f[e] \in Int
      BY <2>2
    <3> HIDE DEF f
    <3> QED
      BY <2>1, <3>1, SumType
  <2> QED
    BY <2>3 DEF Worth
<1> HIDE DEF L
<1>4. CountedRow(taught[r], L, k) \in PolicyRows
  <2> DEFINE w == Worth(taught[r], Qualities(k), RatedOf(k) \cap L)
  <2>1. CountedRow(taught[r], L, k) =
          [observations |-> T(CallsOf(k)), successAlpha |-> 1 + T(Good(CallsOf(k))),
           successBeta |-> 1 + T(CallsOf(k) \ Good(CallsOf(k))),
           completionAlpha |-> 1 + T(Good(FlowsOf(k))),
           completionBeta |-> 1 + T(FlowsOf(k) \ Good(FlowsOf(k))),
           rateAlpha |-> 1 + T(Refused(CallsOf(k))),
           rateBeta |-> 9 + T(CallsOf(k) \ Refused(CallsOf(k))),
           qualityTotal |-> w, qualityCount |-> T(RatedOf(k))]
    BY DEF CountedRow
  <2>2. w \in Int
    BY <1>3
  <2> HIDE DEF w, T
  <2>3. \A n \in Nat : 1 + n \in Nat \ {0} /\ 9 + n \in Nat \ 0..8
    OBVIOUS
  <2> QED
    BY <1>2, <2>1, <2>2, <2>3 DEF PolicyRows
<1> QED
  BY <1>4, CountsAre DEF L

(* What an outcome adds to the columns of an estimate.                     *)
LEMMA ColumnsMove ==
    ASSUME NEW row \in PolicyRows, NEW o
    PROVE  /\ IsCall(o) =>
                 /\ NextRow(row, o)["successAlpha"] = row["successAlpha"] + One(o.success)
                 /\ NextRow(row, o)["successBeta"] = row["successBeta"] + One(~o.success)
                 /\ NextRow(row, o)["rateAlpha"] = row["rateAlpha"] + One(o.rateLimited)
                 /\ NextRow(row, o)["rateBeta"] = row["rateBeta"] + One(~o.rateLimited)
           /\ ~IsCall(o) =>
                 /\ NextRow(row, o)["completionAlpha"] = row["completionAlpha"] + One(o.success)
                 /\ NextRow(row, o)["completionBeta"] = row["completionBeta"] + One(~o.success)
<1> DEFINE a1 == row.observations  a2 == row.successAlpha  a3 == row.successBeta
           a4 == row.completionAlpha  a5 == row.completionBeta  a6 == row.rateAlpha
           a7 == row.rateBeta  a8 == row.qualityTotal  a9 == row.qualityCount
<1>1. row = [observations |-> a1, successAlpha |-> a2, successBeta |-> a3,
             completionAlpha |-> a4, completionBeta |-> a5, rateAlpha |-> a6,
             rateBeta |-> a7, qualityTotal |-> a8, qualityCount |-> a9]
  BY DEF PolicyRows
<1>2. /\ row["successAlpha"] = a2 /\ row["successBeta"] = a3
      /\ row["completionAlpha"] = a4 /\ row["completionBeta"] = a5
      /\ row["rateAlpha"] = a6 /\ row["rateBeta"] = a7
  OBVIOUS
<1> HIDE DEF a1, a2, a3, a4, a5, a6, a7, a8, a9
<1>3. NextCall(row, o) =
        [observations |-> a1 + 1, successAlpha |-> a2 + One(o.success),
         successBeta |-> a3 + One(~o.success), completionAlpha |-> a4,
         completionBeta |-> a5, rateAlpha |-> a6 + One(o.rateLimited),
         rateBeta |-> a7 + One(~o.rateLimited), qualityTotal |-> a8, qualityCount |-> a9]
  BY <1>1, NextCallIs
<1>4. NextWorkflow(row, o) =
        [observations |-> a1, successAlpha |-> a2, successBeta |-> a3,
         completionAlpha |-> a4 + One(o.success), completionBeta |-> a5 + One(~o.success),
         rateAlpha |-> a6, rateBeta |-> a7,
         qualityTotal |-> IF o.quality = NoQuality THEN a8 ELSE a8 + o.quality,
         qualityCount |-> a9 + One(o.quality # NoQuality)]
  BY <1>1, NextWorkflowIs
<1> QED
  BY <1>2, <1>3, <1>4 DEF NextRow

(* A posterior of h hits and m misses over a prior of a and b.             *)
Post(h, m, a, b) == <<h * (a + b) + Strength * a, (a + b) * (h + m + Strength)>>

(* A product grows with its factor.                                        *)
LEMMA TimesGrow ==
    ASSUME NEW x \in Int, NEW y \in Int, NEW c \in Nat, x <= y
    PROVE  x * c <= y * c
<1>1. (y - x) * c >= 0
  OBVIOUS
<1> QED
  BY <1>1

(* Fractions with positive denominators are ordered transitively.          *)
LEMMA AtMostTransitive ==
    ASSUME NEW a \in Nat, NEW b \in Nat \ {0}, NEW c \in Nat, NEW d \in Nat \ {0},
           NEW e \in Nat, NEW f \in Nat \ {0},
           a * d <= c * b, c * f <= e * d
    PROVE  a * f <= e * b
<1>1. (a * d) * f <= (c * b) * f /\ (c * f) * b <= (e * d) * b
  <2>1. a * d \in Int /\ c * b \in Int /\ c * f \in Int /\ e * d \in Int
    OBVIOUS
  <2> QED
    BY <2>1, TimesGrow
<1>2. (a * f) * d <= (e * b) * d
  <2>1. (a * d) * f = (a * f) * d /\ (c * b) * f = (c * f) * b /\ (e * d) * b = (e * b) * d
    OBVIOUS
  <2> QED
    BY <1>1, <2>1
<1>3. a * f \in Int /\ e * b \in Int
  OBVIOUS
<1> DEFINE x == a * f  y == e * b
<1>4. x \in Int /\ y \in Int /\ x * d <= y * d
  BY <1>2, <1>3
<1>5. x <= y
  <2> HIDE DEF x, y
  <2> QED
    BY <1>4
<1> QED
  BY <1>5

(* What a posterior is made of.                                            *)
LEMMA PostTyped ==
    ASSUME NEW h \in Nat, NEW m \in Nat, NEW a \in Nat \ {0}, NEW b \in Nat \ {0}
    PROVE  Post(h, m, a, b)[1] \in Nat /\ Post(h, m, a, b)[2] \in Nat \ {0}
<1> DEFINE p == a + b  d == h + m + Strength
<1>1. p \in Nat \ {0} /\ d \in Nat \ {0} /\ Strength * a \in Nat
  BY DEF Strength
<1>2. Post(h, m, a, b) = <<h * p + Strength * a, p * d>>
  BY DEF Post
<1> HIDE DEF p, d
<1>3. h * p \in Nat /\ p * d \in Nat /\ p * d # 0
  BY <1>1
<1> QED
  BY <1>1, <1>2, <1>3

(* A hit raises it, a miss lowers it.                                      *)
LEMMA OwnEvidence ==
    ASSUME NEW h \in Nat, NEW m \in Nat, NEW a \in Nat \ {0}, NEW b \in Nat \ {0}
    PROVE  /\ AtMost(Post(h, m, a, b), Post(h + 1, m, a, b))
           /\ AtMost(Post(h, m + 1, a, b), Post(h, m, a, b))
<1> DEFINE p == a + b  d == h + m + Strength  n == h * p + Strength * a
<1>1. p \in Nat \ {0} /\ d \in Nat \ {0} /\ Strength * a \in Nat
  BY DEF Strength
<1>2. n \in Nat /\ n <= p * d
  <2>1. h * p \in Nat /\ m * p \in Nat
    BY <1>1
  <2>2. p * d = h * p + m * p + Strength * p
    BY DEF Strength
  <2>3. Strength * a <= Strength * p
    BY DEF Strength
  <2> QED
    BY <1>1, <2>1, <2>2, <2>3 DEF Strength
<1>3. /\ Post(h, m, a, b) = <<n, p * d>>
      /\ Post(h + 1, m, a, b) = <<n + p, p * (d + 1)>>
      /\ Post(h, m + 1, a, b) = <<n, p * (d + 1)>>
  BY DEF Post, Strength
<1> HIDE DEF p, d, n
<1>4. n * (p * (d + 1)) <= (n + p) * (p * d)
  <2> DEFINE x == p * d
  <2>1. x \in Nat /\ p * (d + 1) = x + p
    BY <1>1
  <2>2. n * p <= x * p /\ n * x \in Nat /\ n * p \in Nat
    BY <1>1, <1>2, <2>1, TimesGrow
  <2> HIDE DEF x
  <2>3. n * (x + p) = n * x + n * p /\ (n + p) * x = n * x + x * p
    BY <1>1, <1>2, <2>1
  <2>4. n * (x + p) <= (n + p) * x
    BY <1>1, <2>1, <2>2, <2>3
  <2> QED
    BY <2>1, <2>4 DEF x
<1>5. n * (p * d) <= n * (p * (d + 1))
  <2> DEFINE x == p * d
  <2>1. x \in Nat /\ p * (d + 1) = x + p
    BY <1>1
  <2> HIDE DEF x
  <2>2. n * x \in Nat /\ n * p \in Nat /\ n * (x + p) = n * x + n * p
    BY <1>1, <1>2, <2>1
  <2> QED
    BY <2>1, <2>2 DEF x
<1> QED
  BY <1>3, <1>4, <1>5 DEF AtMost

(* So do hits and misses of the prior.                                     *)
LEMMA PriorEvidence ==
    ASSUME NEW h \in Nat, NEW m \in Nat, NEW a \in Nat \ {0}, NEW b \in Nat \ {0}
    PROVE  /\ AtMost(Post(h, m, a, b), Post(h, m, a + 1, b))
           /\ AtMost(Post(h, m, a, b + 1), Post(h, m, a, b))
<1> DEFINE p == a + b  d == h + m + Strength  n == h * p + Strength * a
<1>1. p \in Nat \ {0} /\ d \in Nat \ {0} /\ Strength * a \in Nat
  BY DEF Strength
<1>2. h * p \in Nat /\ n \in Nat /\ n <= (h + Strength) * p /\ h * p <= n
  <2>1. h * p \in Nat
    BY <1>1
  <2>2. (h + Strength) * p = h * p + Strength * p
    BY DEF Strength
  <2>3. Strength * a <= Strength * p
    BY DEF Strength
  <2> QED
    BY <1>1, <2>1, <2>2, <2>3 DEF Strength
<1>3. /\ Post(h, m, a, b) = <<n, p * d>>
      /\ Post(h, m, a + 1, b) = <<n + (h + Strength), (p + 1) * d>>
      /\ Post(h, m, a, b + 1) = <<n + h, (p + 1) * d>>
  BY DEF Post, Strength
<1>4. Strength \in Nat
  BY DEF Strength
<1> HIDE DEF p, d, n
<1>5. ASSUME NEW c \in Nat PROVE n * ((p + 1) * d) = (n * p + n) * d /\ (n + c) * (p * d) = (n * p + c * p) * d
  BY <1>1, <1>2, <1>5
<1>6. n * ((p + 1) * d) <= (n + (h + Strength)) * (p * d)
  <2> DEFINE c == h + Strength  x == n * p
  <2>1. c \in Nat /\ x \in Nat /\ n <= c * p /\ c * p \in Nat
    BY <1>1, <1>2, <1>4
  <2>2. n * ((p + 1) * d) = (x + n) * d /\ (n + c) * (p * d) = (x + c * p) * d
    BY <1>5, <2>1
  <2>3. x + n <= x + c * p /\ x + n \in Int /\ x + c * p \in Int
    BY <1>2, <2>1
  <2> HIDE DEF x, c
  <2>4. (x + n) * d <= (x + c * p) * d
    BY <1>1, <2>3, TimesGrow
  <2> QED
    BY <2>2, <2>4 DEF c
<1>7. (n + h) * (p * d) <= n * ((p + 1) * d)
  <2> DEFINE x == n * p  y == h * p
  <2>1. x \in Nat /\ y \in Nat /\ y <= n
    BY <1>1, <1>2
  <2>2. n * ((p + 1) * d) = (x + n) * d /\ (n + h) * (p * d) = (x + y) * d
    BY <1>5
  <2>3. x + y <= x + n /\ x + n \in Int /\ x + y \in Int
    BY <1>2, <2>1
  <2> HIDE DEF x, y
  <2>4. (x + y) * d <= (x + n) * d
    BY <1>1, <2>3, TimesGrow
  <2> QED
    BY <2>2, <2>4
<1> QED
  BY <1>3, <1>6, <1>7 DEF AtMost

(* Hits of both only raise it, and misses of both only lower it.           *)
LEMMA EvidenceMoves ==
    ASSUME NEW h \in Nat, NEW m \in Nat, NEW a \in Nat \ {0}, NEW b \in Nat \ {0},
           NEW c \in {0, 1}, NEW d \in {0, 1}
    PROVE  /\ AtMost(Post(h, m, a, b), Post(h + c, m, a + d, b))
           /\ AtMost(Post(h, m + c, a, b + d), Post(h, m, a, b))
<1>1. ASSUME NEW f, NEW g, NEW k,
             f[1] \in Nat, f[2] \in Nat \ {0}, g[1] \in Nat, g[2] \in Nat \ {0},
             k[1] \in Nat, k[2] \in Nat \ {0}, AtMost(f, g), AtMost(g, k)
      PROVE  AtMost(f, k)
  BY <1>1, AtMostTransitive DEF AtMost
<1>0. ASSUME NEW f, f[1] \in Nat, f[2] \in Nat \ {0} PROVE AtMost(f, f)
  <2>1. f[1] * f[2] \in Int
    BY <1>0
  <2> QED
    BY <2>1 DEF AtMost
<1>2. /\ AtMost(Post(h, m, a, b), Post(h + c, m, a, b))
      /\ AtMost(Post(h, m + c, a, b), Post(h, m, a, b))
  <2>1. CASE c = 0
    <3>1. h + c = h /\ m + c = m
      BY <2>1
    <3> QED
      BY <1>0, <3>1, PostTyped
  <2>2. CASE c = 1
    BY <2>2, OwnEvidence
  <2> QED
    BY <2>1, <2>2
<1>3. h + c \in Nat /\ m + c \in Nat /\ a + d \in Nat \ {0} /\ b + d \in Nat \ {0}
  OBVIOUS
<1>4. /\ AtMost(Post(h + c, m, a, b), Post(h + c, m, a + d, b))
      /\ AtMost(Post(h, m + c, a, b + d), Post(h, m + c, a, b))
  <2>1. CASE d = 0
    <3>1. a + d = a /\ b + d = b
      BY <2>1
    <3> QED
      BY <1>0, <1>3, <3>1, PostTyped
  <2>2. CASE d = 1
    BY <1>3, <2>2, PriorEvidence
  <2> QED
    BY <2>1, <2>2
<1>5. AtMost(Post(h, m, a, b), Post(h + c, m, a + d, b))
  BY <1>1, <1>2, <1>3, <1>4, PostTyped
<1>6. AtMost(Post(h, m + c, a, b + d), Post(h, m, a, b))
  BY <1>1, <1>2, <1>3, <1>4, PostTyped
<1> QED
  BY <1>5, <1>6

(* What a table that learned an outcome tells the ranking, compared with   *)
(* what it told before: alpha and beta are the columns of an estimate, of  *)
(* which the outcome hits the first or the second.                         *)
LEMMA EstimatesMove ==
    ASSUME NEW table, \A k \in DOMAIN table : table[k] \in PolicyRows,
           NEW o, NEW q, NEW alpha, NEW beta, NEW hit \in BOOLEAN,
           \A row \in PolicyRows :
              /\ NextRow(row, o)[alpha] = row[alpha] + One(hit)
              /\ NextRow(row, o)[beta] = row[beta] + One(~hit)
              /\ row[alpha] \in Nat \ {0} /\ row[beta] \in Nat \ {0}
              /\ row[alpha] >= NewRow[alpha] /\ row[beta] >= NewRow[beta],
           q.context # o.context \/ <<<<"context", q.context>>, q.model>> \in DOMAIN table
    PROVE  LET before == posterior(table, q, alpha, beta)
               after == posterior(LearnedBy(table, o), q, alpha, beta)
           IN  IF hit THEN AtMost(before, after) ELSE AtMost(after, before)
<1> DEFINE next == LearnedBy(table, o)
           key(scope) == <<scope, q.model>>
           row(t, scope) == IF key(scope) \in DOMAIN t THEN t[key(scope)] ELSE NewRow
           context == <<"context", q.context>>
           source == IF key(context) \in DOMAIN table THEN context ELSE <<"global">>
           caller == <<"caller", q.caller, q.context>>
           learns(scope) == One(key(scope) \in Keys(o))
<1>1. NewRow \in PolicyRows
  BY DEF NewRow, PolicyRows
<1>2. ASSUME NEW scope
      PROVE  /\ row(table, scope) \in PolicyRows
             /\ row(next, scope) = IF key(scope) \in Keys(o) THEN NextRow(row(table, scope), o)
                                   ELSE row(table, scope)
  BY <1>1 DEF LearnedBy, RowOf
<1>3. key(context) \in DOMAIN next <=> key(context) \in DOMAIN table
  <2>1. CASE key(context) \in DOMAIN table
    BY <2>1 DEF LearnedBy
  <2>2. CASE q.context # o.context
    <3>1. key(context) \notin Keys(o)
      BY <2>2 DEF Keys, scopes
    <3> QED
      BY <3>1 DEF LearnedBy
  <2> QED
    BY <2>1, <2>2
<1> DEFINE h == row(table, caller)[alpha] - NewRow[alpha]
           m == row(table, caller)[beta] - NewRow[beta]
           a == row(table, source)[alpha]
           b == row(table, source)[beta]
           h2 == row(next, caller)[alpha] - NewRow[alpha]
           m2 == row(next, caller)[beta] - NewRow[beta]
           a2 == row(next, source)[alpha]
           b2 == row(next, source)[beta]
<1>4. posterior(table, q, alpha, beta) = Post(h, m, a, b)
  BY DEF posterior, Post, Fraction
<1>5. posterior(next, q, alpha, beta) = Post(h2, m2, a2, b2)
  BY <1>3 DEF posterior, Post, Fraction
<1>6. /\ NewRow[alpha] \in Nat /\ NewRow[beta] \in Nat
      /\ \A r \in PolicyRows :
            /\ NextRow(r, o)[alpha] = r[alpha] + One(hit)
            /\ NextRow(r, o)[beta] = r[beta] + One(~hit)
            /\ r[alpha] \in Nat \ {0} /\ r[beta] \in Nat \ {0}
            /\ r[alpha] >= NewRow[alpha] /\ r[beta] >= NewRow[beta]
  BY <1>1
<1>7. /\ h \in Nat /\ m \in Nat /\ a \in Nat \ {0} /\ b \in Nat \ {0}
      /\ learns(caller) \in {0, 1} /\ learns(source) \in {0, 1}
  <2>1. row(table, caller) \in PolicyRows /\ row(table, source) \in PolicyRows
    BY <1>2
  <2> HIDE DEF row
  <2> QED
    BY <1>6, <2>1 DEF One
<1>8. /\ hit => h2 = h + learns(caller) /\ m2 = m /\ a2 = a + learns(source) /\ b2 = b
      /\ ~hit => h2 = h /\ m2 = m + learns(caller) /\ a2 = a /\ b2 = b + learns(source)
  <2>1. ASSUME NEW scope
        PROVE  /\ hit => /\ row(next, scope)[alpha] = row(table, scope)[alpha] + learns(scope)
                         /\ row(next, scope)[beta] = row(table, scope)[beta]
               /\ ~hit => /\ row(next, scope)[alpha] = row(table, scope)[alpha]
                          /\ row(next, scope)[beta] = row(table, scope)[beta] + learns(scope)
    <3>1. /\ row(table, scope) \in PolicyRows
          /\ row(next, scope) = IF key(scope) \in Keys(o) THEN NextRow(row(table, scope), o)
                                ELSE row(table, scope)
      BY <1>2
    <3> HIDE DEF row, next, key
    <3> QED
      BY <1>6, <3>1 DEF One
  <2>2. /\ row(table, caller)[alpha] \in Int /\ row(table, caller)[beta] \in Int
        /\ NewRow[alpha] \in Int /\ NewRow[beta] \in Int
    <3>1. row(table, caller) \in PolicyRows
      BY <1>2
    <3> HIDE DEF row
    <3> QED
      BY <1>6, <3>1
  <2>3. learns(caller) \in {0, 1} /\ learns(source) \in {0, 1}
    BY DEF One
  <2> HIDE DEF row, next, key, learns, source, caller
  <2> QED
    BY <2>1, <2>2, <2>3
<1> DEFINE c == learns(caller)  d == learns(source)
           before == posterior(table, q, alpha, beta)
           after == posterior(next, q, alpha, beta)
<1> HIDE DEF h, m, a, b, h2, m2, a2, b2, learns, next, source, caller
<1>9. c \in {0, 1} /\ d \in {0, 1}
  BY <1>7
<1>10. /\ hit => h2 = h + c /\ m2 = m /\ a2 = a + d /\ b2 = b
       /\ ~hit => h2 = h /\ m2 = m + c /\ a2 = a /\ b2 = b + d
  BY <1>8
<1>11. before = Post(h, m, a, b) /\ after = Post(h2, m2, a2, b2)
  BY <1>4, <1>5
<1> HIDE DEF c, d, before, after
<1>12. /\ AtMost(Post(h, m, a, b), Post(h + c, m, a + d, b))
       /\ AtMost(Post(h, m + c, a, b + d), Post(h, m, a, b))
  BY <1>7, <1>9, EvidenceMoves
<1>13. IF hit THEN AtMost(before, after) ELSE AtMost(after, before)
  BY <1>10, <1>11, <1>12
<1> QED
  BY <1>13 DEF before, after, next

(* Evidence moves the estimates that rank a model one way only: a success  *)
(* lowers no caller's estimate in any context, a failure raises none, and  *)
(* so for completions and refusals; the first outcome of a context is the  *)
(* exception.                                                              *)
THEOREM EstimatesFollow == Spec => EstimatesFollowOutcomes
<1>1. LearningTypeOK /\ FinitelyLearned /\ PosteriorsAreCounts /\ [Next]_vars
        => [\A e \in Events : (Learns(e) /\ e.outcome.model # NoModel) =>
              \A q \in Queries(e.outcome.model) :
                 (q.context # e.outcome.context
                    \/ <<<<"context", q.context>>, q.model>> \in DOMAIN stats["coordinator"])
                 => IF IsCall(e.outcome)
                    THEN /\ Moved(q, "successAlpha", "successBeta", e.outcome.success)
                         /\ Moved(q, "rateAlpha", "rateBeta", e.outcome.rateLimited)
                    ELSE Moved(q, "completionAlpha", "completionBeta", e.outcome.success)]_vars
  <2> SUFFICES ASSUME LearningTypeOK, FinitelyLearned, PosteriorsAreCounts, [Next]_vars,
                      NEW e \in Events, Learns(e), e.outcome.model # NoModel,
                      NEW q \in Queries(e.outcome.model),
                      \/ q.context # e.outcome.context
                      \/ <<<<"context", q.context>>, q.model>> \in DOMAIN stats["coordinator"]
               PROVE  IF IsCall(e.outcome)
                      THEN /\ Moved(q, "successAlpha", "successBeta", e.outcome.success)
                           /\ Moved(q, "rateAlpha", "rateBeta", e.outcome.rateLimited)
                      ELSE Moved(q, "completionAlpha", "completionBeta", e.outcome.success)
    OBVIOUS
  <2> DEFINE table == stats["coordinator"]
             o == e.outcome
  <2>1. "coordinator" \in Replicas
    BY DEF Replicas
  <2>2. LearningStep("coordinator", e)
    <3>1. taught["coordinator"][e] \in Nat /\ ~(taught'["coordinator"][e] = taught["coordinator"][e])
      BY <2>1 DEF LearningTypeOK, Learns
    <3>2. PICK r \in Replicas, x \in Events : LearningStep(r, x)
      BY <3>1, EveryStep DEF KnownAgain
    <3>3. r = "coordinator" /\ x = e
      BY <2>1, <3>1, <3>2, LearningTeaches
    <3> QED
      BY <3>2, <3>3
  <2>3. stats'["coordinator"] = LearnedBy(table, o)
    BY <2>1, <2>2, StatsMove DEF FinitelyLearned
  <2>4. \A k \in DOMAIN table : table[k] \in PolicyRows
    BY <2>1, CountsTyped DEF PosteriorsAreCounts
  <2>5. \/ q.context # o.context
        \/ <<<<"context", q.context>>, q.model>> \in DOMAIN table
    OBVIOUS
  <2>6. \A row \in PolicyRows :
           /\ row["successAlpha"] \in Nat \ {0} /\ row["successBeta"] \in Nat \ {0}
           /\ row["completionAlpha"] \in Nat \ {0} /\ row["completionBeta"] \in Nat \ {0}
           /\ row["rateAlpha"] \in Nat \ {0} /\ row["rateBeta"] \in Nat \ {0}
           /\ row["successAlpha"] >= NewRow["successAlpha"]
           /\ row["successBeta"] >= NewRow["successBeta"]
           /\ row["completionAlpha"] >= NewRow["completionAlpha"]
           /\ row["completionBeta"] >= NewRow["completionBeta"]
           /\ row["rateAlpha"] >= NewRow["rateAlpha"] /\ row["rateBeta"] >= NewRow["rateBeta"]
    BY DEF PolicyRows, NewRow
  <2>7. o.success \in BOOLEAN /\ (IsCall(o) => o.rateLimited \in BOOLEAN)
    BY EventIs
  <2> HIDE DEF table, o
  <2>8. CASE IsCall(o)
    <3>1. \A row \in PolicyRows :
             /\ NextRow(row, o)["successAlpha"] = row["successAlpha"] + One(o.success)
             /\ NextRow(row, o)["successBeta"] = row["successBeta"] + One(~o.success)
             /\ NextRow(row, o)["rateAlpha"] = row["rateAlpha"] + One(o.rateLimited)
             /\ NextRow(row, o)["rateBeta"] = row["rateBeta"] + One(~o.rateLimited)
      BY <2>8, ColumnsMove
    <3>2. IF o.success
          THEN AtMost(posterior(table, q, "successAlpha", "successBeta"),
                      posterior(LearnedBy(table, o), q, "successAlpha", "successBeta"))
          ELSE AtMost(posterior(LearnedBy(table, o), q, "successAlpha", "successBeta"),
                      posterior(table, q, "successAlpha", "successBeta"))
      BY <2>4, <2>5, <2>6, <2>7, <3>1, EstimatesMove
    <3>3. IF o.rateLimited
          THEN AtMost(posterior(table, q, "rateAlpha", "rateBeta"),
                      posterior(LearnedBy(table, o), q, "rateAlpha", "rateBeta"))
          ELSE AtMost(posterior(LearnedBy(table, o), q, "rateAlpha", "rateBeta"),
                      posterior(table, q, "rateAlpha", "rateBeta"))
      BY <2>4, <2>5, <2>6, <2>7, <2>8, <3>1, EstimatesMove
    <3> QED
      BY <2>3, <2>8, <3>2, <3>3 DEF Moved, table, o
  <2>9. CASE ~IsCall(o)
    <3>1. \A row \in PolicyRows :
             /\ NextRow(row, o)["completionAlpha"] = row["completionAlpha"] + One(o.success)
             /\ NextRow(row, o)["completionBeta"] = row["completionBeta"] + One(~o.success)
      BY <2>9, ColumnsMove
    <3>2. IF o.success
          THEN AtMost(posterior(table, q, "completionAlpha", "completionBeta"),
                      posterior(LearnedBy(table, o), q, "completionAlpha", "completionBeta"))
          ELSE AtMost(posterior(LearnedBy(table, o), q, "completionAlpha", "completionBeta"),
                      posterior(table, q, "completionAlpha", "completionBeta"))
      BY <2>4, <2>5, <2>6, <2>7, <3>1, EstimatesMove
    <3> QED
      BY <2>3, <2>9, <3>2 DEF Moved, table, o
  <2> QED
    BY <2>8, <2>9 DEF o
<1>2. Init => FinitelyLearned /\ PosteriorsAreCounts
  BY NothingLearned
<1>3. LearningTypeOK /\ FinitelyLearned /\ PosteriorsAreCounts /\ [Next]_vars
        => FinitelyLearned' /\ PosteriorsAreCounts'
  BY FinitelyLearnedStep, CountsStep
<1> QED
  BY <1>1, <1>2, <1>3, LearningTypes, PTL DEF Spec, EstimatesFollowOutcomes

-----------------------------------------------------------------------------
(* The forecasts are exact.                                                *)

(* A common factor cancels.                                                *)
LEMMA FactorCancels ==
    ASSUME NEW x \in Int, NEW y \in Int, NEW n \in Nat \ {0}, x * n = y * n
    PROVE  x = y
<1>1. CASE x < y
  <2>1. (x + 1) * n <= y * n /\ (x + 1) * n = x * n + n /\ x * n \in Int
    BY <1>1, TimesGrow
  <2> QED
    BY <2>1
<1>2. CASE y < x
  <2>1. (y + 1) * n <= x * n /\ (y + 1) * n = y * n + n /\ y * n \in Int
    BY <1>2, TimesGrow
  <2> QED
    BY <2>1
<1> QED
  BY <1>1, <1>2

(* Division by a factor is exact.                                          *)
LEMMA FactorDivides ==
    ASSUME NEW x \in Int, NEW n \in Nat \ {0}
    PROVE  (n * x) \div n = x
<1> DEFINE y == n * x  d == y \div n
<1>1. y \in Int /\ y = x * n
  OBVIOUS
<1> HIDE DEF y
<1>2. d \in Int /\ y = n * d + (y % n) /\ y % n \in 0..(n - 1)
  BY <1>1
<1> HIDE DEF d
<1>3. n * (x - d) = y % n
  BY <1>1, <1>2
<1>4. x - d = 0
  <2> DEFINE z == x - d
  <2>1. z \in Int /\ n * z >= 0 /\ n * z < n
    BY <1>1, <1>2, <1>3
  <2> HIDE DEF z
  <2>2. CASE z >= 1
    <3>1. 1 * n <= z * n
      BY <2>1, <2>2, TimesGrow
    <3> QED
      BY <2>1, <3>1
  <2>3. CASE z <= -1
    <3>1. z * n <= (-1) * n
      BY <2>1, <2>3, TimesGrow
    <3> QED
      BY <2>1, <3>1
  <2> QED
    BY <2>1, <2>2, <2>3 DEF z
<1> QED
  BY <1>2, <1>4 DEF d, y

(* The mean and the squares of n workflows, of together s calls and with t *)
(* their squares; and Welford's recurrence, for one of c calls more.       *)
Exact(n, s, t, mean, m2) ==
    /\ mean * n = Units * s
    /\ m2 * n = Units * Units * (n * t - s * s)
NextMean(n, c, mean) == mean + (c * Units - mean) \div (n + 1)
NextSquares(n, c, mean, m2) == m2 + (c * Units - mean) * (c * Units - NextMean(n, c, mean))

(* In units that both counts divide the recurrence is exact.               *)
LEMMA Welford ==
    ASSUME NEW n \in Nat \ {0}, \E a \in Int : Units = a * n, \E b \in Int : Units = b * (n + 1),
           NEW s \in Int, NEW t \in Int, NEW c \in Int, NEW mean \in Int, NEW m2 \in Int,
           Exact(n, s, t, mean, m2)
    PROVE  Exact(n + 1, s + c, t + c * c, NextMean(n, c, mean), NextSquares(n, c, mean, m2))
<1> DEFINE U == Units
<1>1. PICK a \in Int, b \in Int : U = a * n /\ U = b * (n + 1)
  OBVIOUS
<1> DEFINE delta == c * U - mean
           mean2 == mean + delta \div (n + 1)
<1>2. mean * n = U * s /\ m2 * n = U * U * (n * t - s * s)
  BY DEF Exact
<1>3. U \in Nat \ {0} /\ delta \in Int /\ mean2 \in Int
  <2>1. delta \in Int
    OBVIOUS
  <2> HIDE DEF delta
  <2> QED
    BY <2>1
<1>4. delta = c * U - mean /\ mean2 = mean + delta \div (n + 1)
  OBVIOUS
<1>5. NextMean(n, c, mean) = mean2 /\ NextSquares(n, c, mean, m2) = m2 + delta * (c * U - mean2)
  BY DEF NextMean, NextSquares
<1> HIDE DEF U, delta, mean2
<1> USE <1>1, <1>2, <1>3, <1>4
<1> DEFINE v == a - b
           x == n * t - s * s
           y == c * n - s
<1>6. U = n * (n + 1) * v /\ v \in Int /\ x \in Int /\ y \in Int
  <2>1. n * v = b
    OBVIOUS
  <2> HIDE DEF v
  <2>2. v \in Int
    BY DEF v
  <2>3. b * (n + 1) = (n * v) * (n + 1)
    BY <2>1
  <2>4. (n * v) * (n + 1) = n * (n + 1) * v
    BY <2>2
  <2> QED
    BY <2>2, <2>3, <2>4
<1>7. mean = (n + 1) * v * s
  <2> HIDE DEF v
  <2>1. U * s = ((n + 1) * v * s) * n /\ (n + 1) * v * s \in Int
    BY <1>6
  <2> QED
    BY <2>1, FactorCancels
<1>8. delta = (n + 1) * (v * y)
  <2> HIDE DEF v
  <2>1. c * (n * (n + 1) * v) - (n + 1) * v * s = (n + 1) * (v * (c * n - s))
    BY <1>6
  <2> QED
    BY <1>6, <1>7, <2>1
<1>9. mean2 = v * n * (s + c)
  <2> HIDE DEF v
  <2>1. delta \div (n + 1) = v * y
    <3>1. v * y \in Int /\ n + 1 \in Nat \ {0}
      BY <1>6
    <3> HIDE DEF y
    <3> QED
      BY <1>8, <3>1, FactorDivides
  <2>2. (n + 1) * v * s + v * (c * n - s) = v * n * (s + c)
    BY <1>6
  <2> QED
    BY <1>7, <2>1, <2>2
<1>10. mean2 * (n + 1) = U * (s + c)
  <2> HIDE DEF v
  <2>1. (v * n * (s + c)) * (n + 1) = (n * (n + 1) * v) * (s + c)
    BY <1>6
  <2> QED
    BY <1>6, <1>9, <2>1
<1>11. m2 = n * ((n + 1) * (n + 1)) * (v * v) * x
  <2> HIDE DEF v, x
  <2>1. (n * (n + 1) * v) * (n * (n + 1) * v) * x = (n * ((n + 1) * (n + 1)) * (v * v) * x) * n
    BY <1>6
  <2>2. n * ((n + 1) * (n + 1)) * (v * v) * x \in Int
    BY <1>6
  <2>3. m2 * n = (n * ((n + 1) * (n + 1)) * (v * v) * x) * n
    BY <1>6, <2>1 DEF x
  <2> QED
    BY <2>2, <2>3, FactorCancels
<1>12. c * U - mean2 = v * n * y
  <2> HIDE DEF v
  <2>1. c * (n * (n + 1) * v) - v * n * (s + c) = v * n * (c * n - s)
    BY <1>6
  <2> QED
    BY <1>6, <1>9, <2>1
<1>13. (n + 1) * x + y * y = n * ((n + 1) * (t + c * c) - (s + c) * (s + c))
  OBVIOUS
<1> DEFINE z == (n + 1) * (t + c * c) - (s + c) * (s + c)
           w == m2 + delta * (c * U - mean2)
<1>14. w = n * ((n + 1) * (n + 1)) * (v * v) * x + ((n + 1) * (v * y)) * (v * n * y)
  BY <1>8, <1>11, <1>12
<1>15. z \in Int
  OBVIOUS
<1>16. w * (n + 1) = U * U * z
  <2> HIDE DEF v, x, y, z, w
  <2>1. w * (n + 1) = (n * ((n + 1) * (n + 1)) * (v * v)) * ((n + 1) * x + y * y)
    BY <1>6, <1>14
  <2>2. (n * ((n + 1) * (n + 1)) * (v * v)) * (n * z) = (n * (n + 1) * v) * (n * (n + 1) * v) * z
    BY <1>6, <1>15
  <2>3. (n + 1) * x + y * y = n * z
    BY <1>13 DEF z
  <2> QED
    BY <1>6, <2>1, <2>2, <2>3
<1> QED
  BY <1>5, <1>10, <1>16 DEF Exact, U, w, z

(* The workflows of a forecast, with their calls and the squares of those. *)
PlansOf(k) == {e \in Events : ~IsCall(e.outcome) /\ k \in ForecastKeys(e.outcome)}
CallsIn(k) == [e \in PlansOf(k) |-> e.outcome.calls]
SquaresIn(k) == [e \in PlansOf(k) |-> e.outcome.calls * e.outcome.calls]

(* Before and after a step, the sums are those of the workflows learned.   *)
LEMMA ForecastSums ==
    ASSUME NEW k
    PROVE  LET plans == PlansOf(k) \cap Learned("state")
               plansNext == PlansOf(k) \cap Learned("state")'
           IN  /\ Forecasting(k) = plans /\ Forecasting(k)' = plansNext
               /\ Workflows(k) = SumFunctionOnSet(taught["state"], plans)
               /\ CallsMade(k) = Worth(taught["state"], CallsIn(k), plans)
               /\ CallsSquared(k) = Worth(taught["state"], SquaresIn(k), plans)
               /\ Workflows(k)' = SumFunctionOnSet(taught'["state"], plansNext)
               /\ CallsMade(k)' = Worth(taught'["state"], CallsIn(k), plansNext)
               /\ CallsSquared(k)' = Worth(taught'["state"], SquaresIn(k), plansNext)
<1>1. ASSUME NEW t, NEW S \in SUBSET PlansOf(k)
      PROVE  /\ [e \in S |-> t[e] * [x \in S |-> x.outcome.calls][e]]
                  = [e \in S |-> t[e] * CallsIn(k)[e]]
             /\ [e \in S |-> t[e] * [x \in S |-> x.outcome.calls * x.outcome.calls][e]]
                  = [e \in S |-> t[e] * SquaresIn(k)[e]]
  BY DEF CallsIn, SquaresIn
<1>2. /\ Forecasting(k) = PlansOf(k) \cap Learned("state")
      /\ Forecasting(k)' = PlansOf(k) \cap Learned("state")'
  BY DEF Forecasting, PlansOf, Learned
<1>3. Forecasting(k) \in SUBSET PlansOf(k) /\ Forecasting(k)' \in SUBSET PlansOf(k)
  BY <1>2
<1>4. /\ CallsMade(k) = Worth(taught["state"], CallsIn(k), Forecasting(k))
      /\ CallsSquared(k) = Worth(taught["state"], SquaresIn(k), Forecasting(k))
  BY <1>1, <1>3 DEF CallsMade, CallsSquared, Total, Worth
<1>5. /\ CallsMade(k)' = Worth(taught'["state"], CallsIn(k), Forecasting(k)')
      /\ CallsSquared(k)' = Worth(taught'["state"], SquaresIn(k), Forecasting(k)')
  BY <1>1, <1>3 DEF CallsMade, CallsSquared, Total, Worth
<1> QED
  BY <1>2, <1>4, <1>5 DEF Workflows, Times

(* A learned workflow of the forecast adds itself to the three sums.       *)
LEMMA ForecastSumsMove ==
    ASSUME LearningTypeOK, FinitelyLearned, NEW k, NEW e \in Events, LearningStep("state", e)
    PROVE  LET mine == e \in PlansOf(k)
           IN  /\ Workflows(k) \in Nat /\ CallsMade(k) \in Int /\ CallsSquared(k) \in Int
               /\ Workflows(k)' = Workflows(k) + One(mine)
               /\ CallsMade(k)' = CallsMade(k) + ValueIn(CallsIn(k), PlansOf(k), e)
               /\ CallsSquared(k)' = CallsSquared(k) + ValueIn(SquaresIn(k), PlansOf(k), e)
<1> DEFINE r == "state"
<1>1. r \in Replicas /\ IsFiniteSet(Learned(r)) /\ PlansOf(k) \in SUBSET Events
  BY DEF Replicas, FinitelyLearned, PlansOf
<1>2. /\ \A x \in PlansOf(k) : CallsIn(k)[x] \in Int
      /\ \A x \in PlansOf(k) : SquaresIn(k)[x] \in Int
  <2>1. \A x \in PlansOf(k) : x.outcome.calls \in Int
    BY EventIs DEF PlansOf
  <2> QED
    BY <2>1 DEF CallsIn, SquaresIn
<1> HIDE DEF r
<1>3. LearningStep(r, e)
  BY DEF r
<1>4. /\ Times(r, PlansOf(k) \cap Learned(r)) \in Nat
      /\ SumFunctionOnSet(taught'[r], PlansOf(k) \cap Learned(r)')
           = Times(r, PlansOf(k) \cap Learned(r)) + One(e \in PlansOf(k))
  BY <1>1, <1>3, TimesMove
<1>5. /\ Worth(taught[r], CallsIn(k), PlansOf(k) \cap Learned(r)) \in Int
      /\ Worth(taught'[r], CallsIn(k), PlansOf(k) \cap Learned(r)')
           = Worth(taught[r], CallsIn(k), PlansOf(k) \cap Learned(r))
               + ValueIn(CallsIn(k), PlansOf(k), e)
  BY <1>1, <1>2, <1>3, TotalMoves
<1>6. /\ Worth(taught[r], SquaresIn(k), PlansOf(k) \cap Learned(r)) \in Int
      /\ Worth(taught'[r], SquaresIn(k), PlansOf(k) \cap Learned(r)')
           = Worth(taught[r], SquaresIn(k), PlansOf(k) \cap Learned(r))
               + ValueIn(SquaresIn(k), PlansOf(k), e)
  BY <1>1, <1>2, <1>3, TotalMoves
<1> QED
  BY <1>4, <1>5, <1>6, ForecastSums DEF r, Times

(* Every forecast has learned a workflow, and every workflow its forecasts.*)
ForecastsKnown ==
    /\ \A e \in Learned("state") : ~IsCall(e.outcome) => ForecastKeys(e.outcome) \subseteq DOMAIN forecasts
    /\ \A k \in DOMAIN forecasts :
           /\ Workflows(k) \in Nat \ {0}
           /\ forecasts[k].callsMean \in Int /\ forecasts[k].callsM2 \in Int

(* The unit of the forecasts is a multiple of every count.                 *)
CountsDivide == \A k \in DOMAIN forecasts : \E a \in Int : Units = a * forecasts[k].observations

(* What a forecast is after its first workflow, and after another.         *)
LEMMA FirstForecast ==
    ASSUME NEW o, o.calls \in Nat, NEW k \in ForecastKeys(o), k \notin DOMAIN forecasts
    PROVE  /\ ForecastAfter(o, k[1]).observations = 1
           /\ ForecastAfter(o, k[1]).callsMean = Units * o.calls
           /\ ForecastAfter(o, k[1]).callsM2 = 0
<1> DEFINE delta == o.calls * Units - 0
           mean == 0 + delta \div 1
<1>1. <<k[1], o.type>> = k
  BY DEF ForecastKeys
<1>2. /\ Prior(o, k[1]).observations = 0 /\ Prior(o, k[1]).callsMean = 0
      /\ Prior(o, k[1]).callsM2 = 0
  BY <1>1 DEF Prior
<1>3. /\ ForecastAfter(o, k[1]).observations = 1
      /\ ForecastAfter(o, k[1]).callsMean = 0 + (o.calls * Units - 0) \div (0 + 1)
      /\ ForecastAfter(o, k[1]).callsM2
           = 0 + (o.calls * Units - 0) * (o.calls * Units - (0 + (o.calls * Units - 0) \div (0 + 1)))
  BY <1>2 DEF ForecastAfter
<1>4. delta \in Int /\ mean = delta /\ delta = o.calls * Units /\ delta = Units * o.calls
  <2>1. delta \in Int /\ delta = o.calls * Units /\ delta = Units * o.calls
    OBVIOUS
  <2> HIDE DEF delta
  <2>2. (1 * delta) \div 1 = delta /\ 1 * delta = delta
    BY <2>1, FactorDivides
  <2> QED
    BY <2>1, <2>2
<1>5. 0 + 1 = 1
  OBVIOUS
<1>6. delta * (o.calls * Units - mean) = 0
  BY <1>4
<1> QED
  BY <1>3, <1>4, <1>5, <1>6

(* The update of a forecast that exists is one step of the recurrence.     *)
LEMMA LaterForecast ==
    ASSUME ForecastsKnown, ForecastIsExact, CountsDivide,
           NEW o, o.calls \in Nat, NEW k \in ForecastKeys(o), k \in DOMAIN forecasts,
           \E b \in Int : Units = b * (forecasts[k].observations + 1),
           CallsMade(k) \in Int, CallsSquared(k) \in Int
    PROVE  LET after == ForecastAfter(o, k[1])
           IN  /\ after.observations = Workflows(k) + 1
               /\ after.callsMean \in Int /\ after.callsM2 \in Int
               /\ Exact(Workflows(k) + 1, CallsMade(k) + o.calls,
                        CallsSquared(k) + o.calls * o.calls, after.callsMean, after.callsM2)
<1> DEFINE n == Workflows(k)  s == CallsMade(k)  t == CallsSquared(k)  c == o.calls
           mean == forecasts[k].callsMean  m2 == forecasts[k].callsM2
           after == ForecastAfter(o, k[1])
<1>1. <<k[1], o.type>> = k
  BY DEF ForecastKeys
<1>2. Prior(o, k[1]) = forecasts[k]
  BY <1>1 DEF Prior
<1>3. /\ n \in Nat \ {0} /\ s \in Int /\ t \in Int /\ c \in Int /\ mean \in Int /\ m2 \in Int
      /\ forecasts[k].observations = n
      /\ Exact(n, s, t, mean, m2)
  BY DEF ForecastsKnown, ForecastIsExact, Exact
<1>4. (\E a \in Int : Units = a * n) /\ \E b \in Int : Units = b * (n + 1)
  BY <1>3 DEF CountsDivide
<1>5. /\ after.observations = n + 1 /\ after.callsMean = NextMean(n, c, mean)
      /\ after.callsM2 = NextSquares(n, c, mean, m2)
  BY <1>2, <1>3 DEF ForecastAfter, NextMean, NextSquares
<1> HIDE DEF n, s, t, c, mean, m2, after
<1>6. Exact(n + 1, s + c, t + c * c, NextMean(n, c, mean), NextSquares(n, c, mean, m2))
  BY <1>3, <1>4, Welford
<1>7. NextMean(n, c, mean) \in Int /\ NextSquares(n, c, mean, m2) \in Int
  <2> DEFINE x == c * Units - mean  y == mean + x \div (n + 1)
  <2>1. x \in Int
    BY <1>3
  <2>2. NextMean(n, c, mean) = y /\ NextSquares(n, c, mean, m2) = m2 + x * (c * Units - y)
    BY DEF NextMean, NextSquares
  <2>3. y \in Int
    <3> HIDE DEF x
    <3> QED
      BY <1>3, <2>1
  <2> HIDE DEF x, y
  <2> QED
    BY <1>3, <2>1, <2>2, <2>3
<1> QED
  BY <1>5, <1>6, <1>7 DEF n, s, t, c, after

(* A workflow that is learned leaves every forecast exact.                 *)
LEMMA ForecastLearns ==
    ASSUME LearningTypeOK, FinitelyLearned, ForecastsKnown, ForecastIsExact,
           CountsDivide, CountsDivide',
           NEW e \in Events, recordWorkflowOutcome(e), LearningStep("state", e)
    PROVE  ForecastsKnown' /\ ForecastIsExact'
<1> DEFINE o == e.outcome
<1>1. /\ ~IsCall(o) /\ forecasts' = updateWorkflowForecast(o)
      /\ "state" \in Replicas
      /\ o.calls \in Nat
  BY EventIs DEF recordWorkflowOutcome, Replicas
<1>2. Learned("state")' = Learned("state") \cup {e}
  BY <1>1, LearnedMoves
<1>3. /\ DOMAIN forecasts' = DOMAIN forecasts \cup ForecastKeys(o)
      /\ \A k \in DOMAIN forecasts' :
            forecasts'[k] = IF k \in ForecastKeys(o) THEN ForecastAfter(o, k[1]) ELSE forecasts[k]
  BY <1>1 DEF updateWorkflowForecast
<1>4. \A k : e \in PlansOf(k) <=> k \in ForecastKeys(o)
  BY <1>1 DEF PlansOf
<1>5. ASSUME NEW k
      PROVE  /\ Workflows(k) \in Nat /\ CallsMade(k) \in Int /\ CallsSquared(k) \in Int
             /\ k \in ForecastKeys(o) =>
                   /\ Workflows(k)' = Workflows(k) + 1
                   /\ CallsMade(k)' = CallsMade(k) + o.calls
                   /\ CallsSquared(k)' = CallsSquared(k) + o.calls * o.calls
             /\ k \notin ForecastKeys(o) =>
                   /\ Workflows(k)' = Workflows(k)
                   /\ CallsMade(k)' = CallsMade(k)
                   /\ CallsSquared(k)' = CallsSquared(k)
  <2>1. /\ Workflows(k) \in Nat /\ CallsMade(k) \in Int /\ CallsSquared(k) \in Int
        /\ Workflows(k)' = Workflows(k) + One(e \in PlansOf(k))
        /\ CallsMade(k)' = CallsMade(k) + ValueIn(CallsIn(k), PlansOf(k), e)
        /\ CallsSquared(k)' = CallsSquared(k) + ValueIn(SquaresIn(k), PlansOf(k), e)
    BY ForecastSumsMove
  <2>2. CASE k \in ForecastKeys(o)
    <3>1. /\ One(e \in PlansOf(k)) = 1 /\ ValueIn(CallsIn(k), PlansOf(k), e) = o.calls
          /\ ValueIn(SquaresIn(k), PlansOf(k), e) = o.calls * o.calls
      BY <1>4, <2>2 DEF One, ValueIn, CallsIn, SquaresIn
    <3> QED
      BY <2>1, <2>2, <3>1
  <2>3. CASE k \notin ForecastKeys(o)
    <3>1. /\ One(e \in PlansOf(k)) = 0 /\ ValueIn(CallsIn(k), PlansOf(k), e) = 0
          /\ ValueIn(SquaresIn(k), PlansOf(k), e) = 0
      BY <1>4, <2>3 DEF One, ValueIn
    <3> QED
      BY <2>1, <2>3, <3>1
  <2> QED
    BY <2>2, <2>3
<1>6. ASSUME NEW k \in DOMAIN forecasts'
      PROVE  /\ Workflows(k)' \in Nat \ {0}
             /\ forecasts'[k].callsMean \in Int /\ forecasts'[k].callsM2 \in Int
             /\ forecasts'[k].observations = Workflows(k)'
             /\ forecasts'[k].callsMean * Workflows(k)' = Units * CallsMade(k)'
             /\ forecasts'[k].callsM2 * Workflows(k)'
                  = Units * Units * (Workflows(k)' * CallsSquared(k)' - CallsMade(k)' * CallsMade(k)')
  <2>1. CASE k \notin ForecastKeys(o)
    <3>1. k \in DOMAIN forecasts /\ forecasts'[k] = forecasts[k]
      BY <1>3, <2>1
    <3>2. /\ Workflows(k) \in Nat \ {0}
          /\ forecasts[k].callsMean \in Int /\ forecasts[k].callsM2 \in Int
          /\ forecasts[k].observations = Workflows(k)
          /\ forecasts[k].callsMean * Workflows(k) = Units * CallsMade(k)
          /\ forecasts[k].callsM2 * Workflows(k)
               = Units * Units * (Workflows(k) * CallsSquared(k) - CallsMade(k) * CallsMade(k))
      BY <3>1 DEF ForecastsKnown, ForecastIsExact
    <3> QED
      BY <1>5, <2>1, <3>1, <3>2
  <2>2. CASE k \in ForecastKeys(o) /\ k \notin DOMAIN forecasts
    <3>1. Forecasting(k) = {}
      <4> SUFFICES ASSUME NEW x \in Forecasting(k) PROVE FALSE
        OBVIOUS
      <4>1. x \in Learned("state") /\ ~IsCall(x.outcome) /\ k \in ForecastKeys(x.outcome)
        BY DEF Forecasting
      <4> QED
        BY <2>2, <4>1 DEF ForecastsKnown
    <3>2. Workflows(k) = 0 /\ CallsMade(k) = 0 /\ CallsSquared(k) = 0
      BY <3>1, SumEmpty, Zenon DEF Workflows, Times, CallsMade, CallsSquared, Total
    <3> DEFINE c == o.calls
    <3>3. /\ forecasts'[k].observations = 1 /\ forecasts'[k].callsMean = Units * c
          /\ forecasts'[k].callsM2 = 0
      BY <1>1, <1>3, <2>2, FirstForecast
    <3>4. Workflows(k)' = 1 /\ CallsMade(k)' = c /\ CallsSquared(k)' = c * c
      <4>1. c \in Nat /\ c * c \in Nat
        BY <1>1
      <4>2. Workflows(k)' = 0 + 1 /\ CallsMade(k)' = 0 + c /\ CallsSquared(k)' = 0 + c * c
        BY <1>5, <2>2, <3>2
      <4> HIDE DEF c
      <4> QED
        BY <4>1, <4>2
    <3>5. c \in Nat
      BY <1>1
    <3> HIDE DEF c
    <3>6. /\ (Units * c) * 1 = Units * c /\ Units * c \in Int
          /\ Units * Units * (1 * (c * c) - c * c) = 0 /\ 0 * 1 = 0
      BY <3>5
    <3> QED
      BY <3>3, <3>4, <3>6
  <2>3. CASE k \in ForecastKeys(o) /\ k \in DOMAIN forecasts
    <3> DEFINE n == Workflows(k)  s == CallsMade(k)  t == CallsSquared(k)  c == o.calls
               after == ForecastAfter(o, k[1])
    <3>1. /\ n \in Nat \ {0} /\ forecasts[k].observations = n /\ s \in Int /\ t \in Int
      BY <1>5, <2>3 DEF ForecastsKnown, ForecastIsExact
    <3>2. forecasts'[k] = after /\ after.observations = n + 1
      <4>1. <<k[1], o.type>> = k
        BY <2>3 DEF ForecastKeys
      <4>2. forecasts'[k] = after
        BY <1>3, <2>3
      <4>3. after.observations = forecasts[<<k[1], o.type>>].observations + 1
        BY <2>3, <4>1 DEF ForecastAfter, Prior
      <4> HIDE DEF after, n
      <4> QED
        BY <3>1, <4>1, <4>2, <4>3
    <3>3. \E b \in Int : Units = b * (forecasts[k].observations + 1)
      <4>1. \E b \in Int : Units = b * forecasts'[k].observations
        BY DEF CountsDivide
      <4> QED
        BY <3>1, <3>2, <4>1
    <3>4. /\ after.callsMean \in Int /\ after.callsM2 \in Int
          /\ Exact(n + 1, s + c, t + c * c, after.callsMean, after.callsM2)
      BY <1>1, <2>3, <3>1, <3>3, LaterForecast
    <3>5. Workflows(k)' = n + 1 /\ CallsMade(k)' = s + c /\ CallsSquared(k)' = t + c * c
      BY <1>5, <2>3
    <3> HIDE DEF n, s, t, c, after
    <3> QED
      BY <3>1, <3>2, <3>4, <3>5 DEF Exact
  <2> QED
    BY <2>1, <2>2, <2>3
<1>7. \A x \in Learned("state")' : ~IsCall(x.outcome) => ForecastKeys(x.outcome) \subseteq DOMAIN forecasts'
  BY <1>2, <1>3 DEF ForecastsKnown
<1> QED
  BY <1>6, <1>7 DEF ForecastsKnown, ForecastIsExact

(* Every other step leaves the forecasts and their workflows alone.        *)
LEMMA ForecastStays ==
    ASSUME LearningTypeOK, FinitelyLearned, ForecastsKnown, ForecastIsExact,
           forecasts' = forecasts,
           \/ taught'["state"] = taught["state"]
           \/ \E e \in Events : IsCall(e.outcome) /\ LearningStep("state", e)
    PROVE  ForecastsKnown' /\ ForecastIsExact'
<1>1. /\ \A k : /\ Workflows(k)' = Workflows(k)
                /\ CallsMade(k)' = CallsMade(k) /\ CallsSquared(k)' = CallsSquared(k)
      /\ \A x \in Learned("state")' : x \in Learned("state") \/ IsCall(x.outcome)
  <2>1. CASE taught'["state"] = taught["state"]
    <3>1. Learned("state")' = Learned("state")
      BY <2>1 DEF Learned
    <3> QED
      BY <2>1, <3>1, ForecastSums
  <2>2. ASSUME NEW e \in Events, IsCall(e.outcome), LearningStep("state", e)
        PROVE  /\ \A k : /\ Workflows(k)' = Workflows(k)
                         /\ CallsMade(k)' = CallsMade(k) /\ CallsSquared(k)' = CallsSquared(k)
               /\ \A x \in Learned("state")' : x \in Learned("state") \/ IsCall(x.outcome)
    <3>1. Learned("state")' = Learned("state") \cup {e}
      BY <2>2, LearnedMoves DEF Replicas
    <3>2. ASSUME NEW k
          PROVE  /\ Workflows(k)' = Workflows(k)
                 /\ CallsMade(k)' = CallsMade(k) /\ CallsSquared(k)' = CallsSquared(k)
      <4>1. /\ Workflows(k) \in Nat /\ CallsMade(k) \in Int /\ CallsSquared(k) \in Int
            /\ Workflows(k)' = Workflows(k) + One(e \in PlansOf(k))
            /\ CallsMade(k)' = CallsMade(k) + ValueIn(CallsIn(k), PlansOf(k), e)
            /\ CallsSquared(k)' = CallsSquared(k) + ValueIn(SquaresIn(k), PlansOf(k), e)
        BY <2>2, ForecastSumsMove
      <4>2. e \notin PlansOf(k)
        BY <2>2 DEF PlansOf
      <4>3. /\ One(e \in PlansOf(k)) = 0 /\ ValueIn(CallsIn(k), PlansOf(k), e) = 0
            /\ ValueIn(SquaresIn(k), PlansOf(k), e) = 0
        BY <4>2 DEF One, ValueIn
      <4> QED
        BY <4>1, <4>3
    <3> QED
      BY <2>2, <3>1, <3>2
  <2> QED
    BY <2>1, <2>2
<1>2. ForecastsKnown'
  BY <1>1 DEF ForecastsKnown
<1>3. ForecastIsExact'
  BY <1>1 DEF ForecastIsExact
<1> QED
  BY <1>2, <1>3

(* The forecast's running mean and variance of calls per workflow are the  *)
(* mean and the variance of the workflows learned, in whatever order they  *)
(* were reported, as long as the unit is a multiple of the counts.         *)
THEOREM ForecastsAreExact == Spec /\ []CountsDivide => []ForecastIsExact
<1>1. Init => ForecastsKnown /\ ForecastIsExact
  <2> SUFFICES ASSUME Init PROVE ForecastsKnown /\ ForecastIsExact
    OBVIOUS
  <2>1. Learned("state") = {} /\ DOMAIN forecasts = {}
    BY DEF Init, Learned, Replicas
  <2> QED
    BY <2>1 DEF ForecastsKnown, ForecastIsExact
<1>2. LearningTypeOK /\ FinitelyLearned /\ ForecastsKnown /\ ForecastIsExact
        /\ CountsDivide /\ CountsDivide' /\ [Next]_vars
        => ForecastsKnown' /\ ForecastIsExact'
  <2> SUFFICES ASSUME LearningTypeOK, FinitelyLearned, ForecastsKnown, ForecastIsExact,
                      CountsDivide, CountsDivide', [Next]_vars
               PROVE  ForecastsKnown' /\ ForecastIsExact'
    OBVIOUS
  <2>1. ASSUME NEW e \in Events, LearningStep("state", e)
        PROVE  ForecastsKnown' /\ ForecastIsExact'
    <3>1. CASE recordWorkflowOutcome(e)
      BY <2>1, <3>1, ForecastLearns
    <3>2. CASE recordCallOutcome(e)
      <4>1. IsCall(e.outcome) /\ forecasts' = forecasts
        BY <3>2 DEF recordCallOutcome
      <4> QED
        BY <2>1, <4>1, ForecastStays
    <3> QED
      BY <2>1, <3>1, <3>2 DEF LearningStep
  <2>2. ASSUME NEW e \in Events, LearningStep("coordinator", e)
        PROVE  ForecastsKnown' /\ ForecastIsExact'
    <3>1. forecasts' = forecasts
      BY <2>2 DEF LearningStep, recordLearningOutcome, recordWorkflowLearning
    <3>2. taught'["state"] = taught["state"]
      BY <2>2, LearnedMoves DEF Replicas
    <3> QED
      BY <3>1, <3>2, ForecastStays
  <2>3. CASE UNCHANGED <<forecasts, taught>>
    BY <2>3, ForecastStays
  <2> QED
    BY <2>1, <2>2, <2>3, EveryStep DEF Replicas, KnownAgain
<1>3. Init => FinitelyLearned
  BY NothingLearned
<1>4. LearningTypeOK /\ FinitelyLearned /\ [Next]_vars => FinitelyLearned'
  BY FinitelyLearnedStep
<1> QED
  BY <1>1, <1>2, <1>3, <1>4, LearningTypes, PTL DEF Spec
=============================================================================
