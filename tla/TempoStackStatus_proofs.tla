----------------------- MODULE TempoStackStatus_proofs -----------------------
(***************************************************************************)
(* Proofs about TempoStackStatus: its type invariant, that at most one     *)
(* condition is true, and that the condition agrees with the pod status    *)
(* maps stored beside it.                                                  *)
(***************************************************************************)
EXTENDS TempoStackStatus, FiniteSetTheorems, TLAPS

\* Writing to a CR gives a CR.
LEMMA BumpedStatusCR ==
  ASSUME NEW c \in CRs
  PROVE  /\ Bumped(c) \in CRs /\ Bumped(c).generator = c.generator
         /\ Bumped(c).conditions = c.conditions /\ Bumped(c).components = c.components
  <1>1. (c.rv + 1) % RVs \in 0..RVs-1
    BY StatusBoundsAssumption DEF CRs
  <1> QED BY <1>1 DEF CRs, Bumped

\* The status of a workload is a pair of numbers.
LEMMA ViewType == \A c \in Components : View(c) \in Nat \X Nat
  <1> TAKE c \in Components
  <1>1. IsFiniteSet(Active(c)) /\ IsFiniteSet({p \in Active(c) : pods[p].ready})
    <2>1. Active(c) \subseteq Pods /\ {p \in Active(c) : pods[p].ready} \subseteq Pods
      BY DEF Active
    <2> QED BY <2>1, FS_Subset, ComponentsAssumption
  <1>2. /\ Cardinality(Active(c)) \in Nat
        /\ Cardinality({p \in Active(c) : pods[p].ready}) \in Nat
    BY <1>1, FS_CardinalityType
  <1> QED BY <1>2 DEF View

\* UpdateCondition returns a list of conditions ...
LEMMA UpdateConditionType ==
  ASSUME NEW cs \in ConditionLists, NEW type \in Types, NEW reason \in Reasons
  PROVE  UpdateCondition(cs, type, reason) \in ConditionLists
  BY DEF UpdateCondition, ConditionLists

\* ... in which the condition it was asked for is the only true one.
LEMMA UpdateConditionOne ==
  ASSUME NEW cs \in ConditionLists, NEW type \in Types, NEW reason \in Reasons,
         AtMostOne(TrueTypes(cs))
  PROVE  LET new == UpdateCondition(cs, type, reason)
         IN /\ new[type] = [status |-> "True", reason |-> reason]
            /\ \A t \in Types : t # type => new[t].status # "True"
            /\ AtMostOne(TrueTypes(new))
  <1> DEFINE new == UpdateCondition(cs, type, reason)
  <1>1. new[type] = [status |-> "True", reason |-> reason]
    BY DEF UpdateCondition, ConditionLists
  <1>2. ASSUME NEW t \in Types, t # type PROVE new[t].status # "True"
    <2>1. CASE cs[type] = [status |-> "True", reason |-> reason]
      BY <1>2, <2>1 DEF UpdateCondition, AtMostOne, TrueTypes
    <2>2. CASE cs[type] # [status |-> "True", reason |-> reason]
      BY <1>2, <2>2 DEF UpdateCondition
    <2> QED BY <2>1, <2>2
  <1>3. AtMostOne(TrueTypes(new))
    BY <1>2 DEF AtMostOne, TrueTypes
  <1> QED BY <1>1, <1>2, <1>3

----------------------------------------------------------------------------
(* What a pass writes.                                                     *)

AtRefresh == TypeOK /\ pc \in {"refresh", "refreshEmpty"}

\* The conditions a pass writes have their type.
LEMMA NewConditionsType ==
  ASSUME AtRefresh
  PROVE  NewConditions \in ConditionLists
  <1>1. tempo \in CRs /\ tempo.conditions \in ConditionLists
    BY DEF AtRefresh, TypeOK, CRs
  <1>2. /\ outcome \in ConfigErrors \cup OtherErrors => outcome \in Reasons
        /\ {"Ready", "FailedComponents", "PendingComponents"} \subseteq Reasons
        /\ {"Ready", "Failed", "Pending", "ConfigurationError"} \subseteq Types
    BY DEF Reasons, Types
  <1>3. NoConditions \in ConditionLists
    BY DEF NoConditions, ConditionLists, Reasons
  <1> QED BY <1>1, <1>2, <1>3, UpdateConditionType DEF NewConditions, ComponentConditions

\* At most one of them is true, and they agree with the maps.
LEMMA NewConditionsOne ==
  ASSUME AtRefresh, AtMostOne(TrueTypes(tempo.conditions)), NEW c,
         c.conditions = NewConditions, c.components = found
  PROVE  AtMostOne(TrueTypes(NewConditions)) /\ Agrees(c)
  <1>1. tempo \in CRs /\ tempo.conditions \in ConditionLists
    BY DEF AtRefresh, TypeOK, CRs
  <1> DEFINE cs == tempo.conditions
             Only(type, reason) ==
               /\ NewConditions[type] = [status |-> "True", reason |-> reason]
               /\ \A t \in Types : t # type => NewConditions[t].status # "True"
               /\ AtMostOne(TrueTypes(NewConditions))
  <1>2. CASE outcome \in ConfigErrors
    <2>1. Only("ConfigurationError", outcome)
      <3>1. outcome \in Reasons /\ "ConfigurationError" \in Types
        BY <1>2 DEF Reasons, Types
      <3>2. NewConditions = UpdateCondition(cs, "ConfigurationError", outcome)
        BY <1>2 DEF NewConditions
      <3> QED BY <1>1, <3>1, <3>2, UpdateConditionOne
    <2> QED BY <2>1 DEF Agrees, Types
  <1>3. CASE outcome \notin ConfigErrors /\ outcome \in OtherErrors
    <2>1. Only("Failed", outcome)
      <3>1. outcome \in Reasons /\ "Failed" \in Types
        BY <1>3 DEF Reasons, Types
      <3>2. NewConditions = UpdateCondition(cs, "Failed", outcome)
        BY <1>3 DEF NewConditions
      <3> QED BY <1>1, <3>1, <3>2, UpdateConditionOne
    <2>2. outcome # "FailedComponents"
      BY <1>3, ErrorsAssumption
    <2> QED BY <2>1, <2>2 DEF Agrees, Types
  <1>4. CASE outcome \notin ConfigErrors \cup OtherErrors /\ pc = "refreshEmpty"
    <2>1. NewConditions = NoConditions
      BY <1>4 DEF NewConditions
    <2>2. \A t \in Types : NoConditions[t].status # "True" /\ NoConditions[t].reason = "none"
      BY DEF NoConditions
    <2>3. TrueTypes(NewConditions) = {}
      BY <2>1, <2>2 DEF TrueTypes
    <2>4. Agrees(c)
      BY <2>1, <2>2 DEF Agrees, Types
    <2> QED BY <2>3, <2>4 DEF AtMostOne
  <1>5. CASE outcome \notin ConfigErrors \cup OtherErrors /\ pc # "refreshEmpty"
    <2>1. NewConditions = ComponentConditions(cs, found)
      BY <1>5 DEF NewConditions
    <2>2. CASE anyFailed(found)
      <3>1. Only("Failed", "FailedComponents")
        BY <1>1, <2>1, <2>2, UpdateConditionOne DEF ComponentConditions, Reasons, Types
      <3> QED BY <2>2, <3>1 DEF Agrees, Types, anyFailed
    <2>3. CASE ~anyFailed(found) /\ Some(found, {"Pending", "Running"})
      <3>1. Only("Pending", "PendingComponents")
        BY <1>1, <2>1, <2>3, UpdateConditionOne DEF ComponentConditions, Reasons, Types
      <3> QED BY <2>3, <3>1 DEF Agrees, Types, anyFailed
    <2>4. CASE ~anyFailed(found) /\ ~Some(found, {"Pending", "Running"})
      <3>1. Only("Ready", "Ready")
        BY <1>1, <2>1, <2>4, UpdateConditionOne DEF ComponentConditions, Reasons, Types
      <3>2. ~Some(found, {"Failed", "Unknown", "Pending", "Running"})
        BY <2>4 DEF anyFailed, Some
      <3> QED BY <3>1, <3>2 DEF Agrees, Types
    <2> QED BY <2>2, <2>3, <2>4
  <1> QED BY <1>2, <1>3, <1>4, <1>5

----------------------------------------------------------------------------
(* The type invariant.                                                     *)

\* What Release leaves behind has its type.
LEMMA ReleaseType ==
  ASSUME TypeOK, Release
  PROVE  /\ pc' = "idle" /\ tempo' = NoObj /\ outcome' = "ok" /\ next' \in Nat \ {0}
         /\ found' \in PodMaps /\ found' = NoPods /\ \A p \in Pods : found'[p] = "none"
  BY DEF Release, NoPods, PodMaps

LEMMA InitType == Init => TypeOK
  <1> SUFFICES ASSUME Init PROVE TypeOK
    OBVIOUS
  <1>1. cr \in CRs
    <2>1. NoConditions \in ConditionLists /\ NoPods \in PodMaps
      BY DEF NoConditions, ConditionLists, Reasons, NoPods, PodMaps
    <2>2. 0 \in 0..RVs-1
      BY StatusBoundsAssumption
    <2> QED BY <2>1, <2>2 DEF Init, CRs
  <1>2. found \in PodMaps /\ found = NoPods /\ \A p \in Pods : found[p] = "none"
    BY DEF Init, NoPods, PodMaps
  <1> QED BY <1>1, <1>2 DEF Init, TypeOK

\* Users, pods and informers keep the types.
LEMMA OutsideType ==
  ASSUME TypeOK,
         \/ UserEdit \/ (\E p \in Pods, s \in PodStates \cup {NoObj} : PodChange(p, s))
         \/ SyncPods \/ SyncCR \/ (\E c \in Components : SyncWorkload(c)) \/ Restart
  PROVE  TypeOK'
  <1> USE DEF TypeOK
  <1>1. CASE UserEdit
    <2>1. [cr EXCEPT !.generator = ~@] \in CRs
      BY DEF CRs
    <2>2. cr' \in CRs
      BY <1>1, <2>1, BumpedStatusCR DEF UserEdit
    <2> QED BY <1>1, <2>2 DEF UserEdit, Change, caches, worker
  <1>2. CASE \E p \in Pods, s \in PodStates \cup {NoObj} : PodChange(p, s)
    BY <1>2 DEF PodChange, Change, caches, worker
  <1>3. CASE SyncPods
    BY <1>3 DEF SyncPods, worker, bounds
  <1>4. CASE SyncCR
    BY <1>4 DEF SyncCR, worker, bounds
  <1>5. CASE \E c \in Components : SyncWorkload(c)
    BY <1>5, ViewType DEF SyncWorkload, statusDifferent, worker, bounds
  <1>6. CASE Restart
    <2>1. reported' \in [Components -> Nat \X Nat]
      BY <1>6, ViewType DEF Restart
    <2> QED BY <1>6, <2>1, ReleaseType DEF Restart, Fault
  <1> QED BY <1>1, <1>2, <1>3, <1>4, <1>5, <1>6

\* So does a pass.
LEMMA PassType ==
  ASSUME TypeOK, Reconcile
  PROVE  TypeOK'
  <1> USE DEF TypeOK
  <1>1. CASE StartReconcile
    <2>1. tempo' \in CRs /\ tempo' # NoObj
      BY <1>1, StatusAbsenceAssumption DEF StartReconcile
    <2>2. \A p \in Pods : found'[p] = "none"
      BY <1>1 DEF StartReconcile, NoPods
    <2>3. faults' \in Nat /\ outcome' \in {"ok"} \cup ConfigErrors \cup OtherErrors
      BY <1>1 DEF StartReconcile, Fault
    <2>4. /\ pc' = "list" /\ queued' = FALSE /\ found' = found /\ next' = next
          /\ UNCHANGED <<cr, pods, crCache, podCache, reported, metrics, changes>>
      BY <1>1 DEF StartReconcile, caches
    <2> QED BY <2>1, <2>2, <2>3, <2>4
  <1>2. CASE listComponent
    <2>1. CASE found' = NoPods /\ pc' = "refreshEmpty" /\ next' = next /\ faults' \in Nat
      BY <1>2, <2>1 DEF listComponent, NoPods, PodMaps, caches
    <2>2. CASE /\ found' = [p \in Pods |->
                       IF Component[p] = ListOrder[next] /\ lists(ListOrder[next])
                       THEN appendPodStatus(p) ELSE found[p]]
               /\ next' = next + 1 /\ pc' = pc /\ faults' = faults
      <3>1. \A p \in Pods : appendPodStatus(p) \in PodStatuses \cup {"none"}
        BY DEF appendPodStatus, podStatus, PodStates, Phases, PodStatuses
      <3>2. found' \in PodMaps
        BY <2>2, <3>1 DEF PodMaps
      <3>3. \A p \in Pods : found'[p] # "none" => (Component[p] = Generator => tempo.generator)
        BY <2>2 DEF lists
      <3> QED BY <1>2, <2>2, <3>2, <3>3 DEF listComponent, caches
    <2> QED BY <1>2, <2>1, <2>2 DEF listComponent, Fault
  <1>3. CASE Listed
    BY <1>3 DEF Listed, caches, bounds
  <1>4. CASE Refresh
    <2>1. NewConditions \in ConditionLists
      BY <1>4, NewConditionsType DEF AtRefresh, Refresh
    <2>2. metrics' \subseteq Types
      BY <1>4 DEF Refresh, TrueTypes
    <2>3. cr' \in CRs
      <3>1. [generator |-> cr.generator, conditions |-> NewConditions,
             components |-> found, rv |-> cr.rv] \in CRs
        BY <2>1 DEF CRs
      <3> QED BY <1>4, <3>1, BumpedStatusCR DEF Refresh
    <2>4. faults' \in Nat
      BY <1>4 DEF Refresh, Fault
    <2>5. queued' \in BOOLEAN
      BY <1>4, Zenon DEF Refresh
    <2> QED BY <1>4, <2>2, <2>3, <2>4, <2>5, ReleaseType DEF Refresh, caches
  <1> QED BY <1>1, <1>2, <1>3, <1>4 DEF Reconcile

LEMMA NextType == TypeOK /\ [Next]_vars => TypeOK'
  <1>1. TypeOK /\ Next => TypeOK'
    BY OutsideType, PassType DEF Next
  <1>2. TypeOK /\ UNCHANGED vars => TypeOK'
    BY DEF TypeOK, vars, caches, worker, bounds
  <1> QED BY <1>1, <1>2

\* Every variable of the status model keeps its type, and a disabled metrics
\* generator never has pods in the status maps a pass collects, for any pods,
\* components, errors and bounds.
THEOREM StatusTypeCorrect == Spec => []TypeOK
  BY InitType, NextType, PTL DEF Spec

----------------------------------------------------------------------------
(* One condition, which agrees with the maps.                              *)

StatusInv == OneCondition /\ MapsAgree /\ CopiesHaveOne

\* Nothing is true in a new CR.
LEMMA InitStatusInv == Init => StatusInv
  <1> SUFFICES ASSUME Init PROVE StatusInv
    OBVIOUS
  <1>1. \A t \in Types : NoConditions[t].status # "True"
    BY DEF NoConditions
  <1>2. TrueTypes(NoConditions) = {}
    BY <1>1 DEF TrueTypes
  <1>3. cr.conditions = NoConditions /\ crCache.conditions = NoConditions
    BY DEF Init
  <1>4. Agrees(cr)
    BY <1>1, <1>3 DEF Agrees, Types
  <1>5. metrics = {} /\ pc = "idle"
    BY DEF Init
  <1> QED BY <1>2, <1>3, <1>4, <1>5
          DEF StatusInv, OneCondition, MapsAgree, CopiesHaveOne, AtMostOne

LEMMA NextStatusInv ==
  ASSUME TypeOK, StatusInv, Next
  PROVE  StatusInv'
  <1> USE DEF StatusInv, OneCondition, MapsAgree, CopiesHaveOne
  <1>1. CASE UserEdit
    <2>1. [cr EXCEPT !.generator = ~@] \in CRs
      BY DEF TypeOK, CRs
    <2>2. cr'.conditions = cr.conditions /\ cr'.components = cr.components
      BY <1>1, <2>1, BumpedStatusCR DEF UserEdit, TypeOK, CRs
    <2> QED BY <1>1, <2>2 DEF UserEdit, caches, worker, Agrees, Some
  <1>2. CASE \E p \in Pods, s \in PodStates \cup {NoObj} : PodChange(p, s)
    BY <1>2 DEF PodChange, caches, worker, Agrees, Some
  <1>3. CASE SyncPods \/ \E c \in Components : SyncWorkload(c)
    BY <1>3 DEF SyncPods, SyncWorkload, worker, Agrees, Some
  <1>4. CASE SyncCR
    BY <1>4 DEF SyncCR, worker, Agrees, Some
  <1>5. CASE StartReconcile
    BY <1>5 DEF StartReconcile, caches, Agrees, Some
  <1>6. CASE listComponent \/ Listed
    BY <1>6 DEF listComponent, Listed, caches, bounds, Agrees, Some
  <1>7. CASE Refresh
    <2>1. AtRefresh /\ AtMostOne(TrueTypes(tempo.conditions))
      BY <1>7 DEF Refresh, AtRefresh
    <2> DEFINE new == [generator |-> cr.generator, conditions |-> NewConditions,
                       components |-> found, rv |-> cr.rv]
    <2>2. new \in CRs
      BY <2>1, NewConditionsType DEF TypeOK, CRs
    <2>3. AtMostOne(TrueTypes(NewConditions)) /\ Agrees(new) /\ Agrees(Bumped(new))
      BY <2>1, <2>2, NewConditionsOne, BumpedStatusCR
    <2>4. cr' = cr \/ cr' = Bumped(new)
      BY <1>7 DEF Refresh
    <2>5. Bumped(new).conditions = NewConditions
      BY <2>2, BumpedStatusCR
    <2>6. AtMostOne(TrueTypes(cr'.conditions)) /\ Agrees(cr')
      BY <2>3, <2>4, <2>5
    <2>7. metrics' = TrueTypes(NewConditions) /\ pc' = "idle" /\ crCache' = crCache
      BY <1>7 DEF Refresh, Release, caches
    <2> HIDE DEF new
    <2> QED BY <2>3, <2>6, <2>7
  <1>8. CASE Restart
    BY <1>8 DEF Restart, Release, AtMostOne, Agrees, Some
  <1> QED BY <1>1, <1>2, <1>3, <1>4, <1>5, <1>6, <1>7, <1>8 DEF Next, Reconcile

LEMMA StatusInvariant == Spec => []StatusInv
  <1>1. TypeOK /\ StatusInv /\ [Next]_vars => StatusInv'
    <2>1. StatusInv /\ UNCHANGED vars => StatusInv'
      BY DEF StatusInv, OneCondition, MapsAgree, CopiesHaveOne, Agrees, Some,
             vars, caches, worker, bounds
    <2> QED BY <2>1, NextStatusInv
  <1> QED BY <1>1, InitStatusInv, StatusTypeCorrect, PTL DEF Spec

\* UpdateCondition and Refresh leave at most one condition true in the CR, and
\* at most one gauge set, whatever copies the passes start from and whichever
\* requests fail.
THEOREM ConditionsExclusive == Spec => []OneCondition
  <1>1. StatusInv => OneCondition
    BY DEF StatusInv
  <1> QED BY <1>1, StatusInvariant, PTL

\* The condition GetComponentsStatus chose agrees with the pod status maps
\* stored beside it, in every state of the CR.
THEOREM ConditionMatchesMaps == Spec => []MapsAgree
  <1>1. StatusInv => MapsAgree
    BY DEF StatusInv
  <1> QED BY <1>1, StatusInvariant, PTL
============================================================================
