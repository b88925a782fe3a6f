------------------------------ MODULE Pages_proofs ------------------------------
(* The pages, for any data the engine may hold and any catalogue: what a visit of  *)
(* the router keeps is what its page keeps.                                        *)
EXTENDS Pages, ListFacts

--------------------------------------------------------------------------------
(* The router: whatever page is visited, every page takes a step of its own or     *)
(* none.                                                                           *)

pagesVars == <<page, listVars, compareVars, tableVars, inspectVars, gradingVars, launchVars,
               tapeVars, detailVars>>

LEMMA GradingPlays == PagesSpec => Grading!Spec
<1>1. PagesInit => Grading!Init
    BY DEF PagesInit
<1>2. [PagesNext]_pagesVars => [Grading!Next]_Grading!gradingVars
    BY DEF PagesNext, On, pagesVars, gradingVars, Grading!gradingVars
<1> QED BY <1>1, <1>2, PTL DEF PagesSpec, Grading!Spec, pagesVars

LEMMA InspectPlays == PagesSpec => Spec
<1>1. PagesInit => Init
    BY DEF PagesInit
<1>2. [PagesNext]_pagesVars => [Next]_inspectVars
    BY DEF PagesNext, On, pagesVars
<1> QED BY <1>1, <1>2, PTL DEF PagesSpec, Spec, pagesVars

--------------------------------------------------------------------------------
(* The experiment list.                                                            *)

LEMMA ListPlays == PagesSpec => List!Spec
<1>1. PagesInit => List!Init
    BY DEF PagesInit
<1>2. [PagesNext]_pagesVars => [List!Next]_List!listVars
    BY DEF PagesNext, On, pagesVars, listVars, List!listVars
<1> QED BY <1>1, <1>2, PTL DEF PagesSpec, List!Spec, pagesVars

BulkDelete == [left : SUBSET Experiments,
               phase : {"sending", "refreshing", "done"}, failed : BOOLEAN]

\* A bulk delete that has settled without a failure has no request left.
SettlesInTime(d) == d.phase # "sending" /\ ~d.failed => d.left = {}
\* Every bulk delete has succeeded and asked for the list.
AllDeleted == \A d \in DOMAIN deletes : ~deletes[d].failed /\ deletes[d].phase # "sending"

ListRowsInv ==
    /\ deletes \in Seq(BulkDelete)
    /\ DOMAIN experiments \subseteq Experiments
    /\ listFetch.at = "read" => DOMAIN listFetch.list \subseteq Experiments
    /\ DOMAIN existing \subseteq Experiments
    /\ \A d \in DOMAIN deletes : SettlesInTime(deletes[d])
    /\ AllDeleted => 
           /\ listFetch = List!NoFetch /\ ~listError => DOMAIN experiments \subseteq DOMAIN existing
           /\ listFetch.at = "read" => DOMAIN listFetch.list \subseteq DOMAIN existing

LEMMA FetchPhases == List!NoFetch.at = "none" /\ List!Sent.at = "sent" /\ List!NoFetch # List!Sent
<1>1. List!NoFetch.at = "none" /\ List!Sent.at = "sent"
    BY DEF List!NoFetch, List!Sent
<1> QED BY <1>1

LEMMA ListRowsInit == List!Init => ListRowsInv
<1> SUFFICES ASSUME List!Init PROVE ListRowsInv
    OBVIOUS
<1>1. deletes = <<>> /\ DOMAIN deletes = {} /\ listFetch = List!Sent
    BY DEF List!Init
<1>2. DOMAIN experiments = {} /\ DOMAIN existing = Experiments
    BY DEF List!Init, List!NoList
<1> QED BY <1>1, <1>2, FetchPhases DEF ListRowsInv

\* A step of the user: what is listed and what exists stay.
LEMMA ListUserStep ==
    ASSUME ListRowsInv, UNCHANGED <<existing, experiments, listFetch, listError, deletes>>
    PROVE  ListRowsInv'
BY DEF ListRowsInv, AllDeleted

LEMMA ListDelete ==
    ASSUME ListRowsInv, List!HandleDelete
    PROVE  ListRowsInv'
<1> DEFINE ids == List!filteredIds \cap picked
           new == [left |-> ids, phase |-> "sending", failed |-> FALSE]
<1>1. /\ deletes' = Append(deletes, new)
      /\ UNCHANGED <<existing, experiments, listFetch, listError>>
    BY DEF List!HandleDelete
<1>2. new \in BulkDelete
    BY DEF ListRowsInv, BulkDelete, List!filteredIds, List!FilteredIds
<1> HIDE DEF new
<1>3. /\ deletes' \in Seq(BulkDelete) /\ Len(deletes') = Len(deletes) + 1
      /\ \A d \in 1..Len(deletes) : deletes'[d] = deletes[d]
      /\ deletes'[Len(deletes) + 1] = new
      /\ DOMAIN deletes = 1..Len(deletes) /\ DOMAIN deletes' = 1..(Len(deletes) + 1)
      /\ Len(deletes) \in Nat
    BY <1>1, <1>2 DEF ListRowsInv
<1>4. ~AllDeleted'
    BY <1>3 DEF AllDeleted, new
<1>5. SettlesInTime(new)
    BY DEF SettlesInTime, new
<1>6. \A d \in DOMAIN deletes' : SettlesInTime(deletes'[d])
    BY <1>3, <1>5 DEF ListRowsInv
<1> QED BY <1>1, <1>3, <1>4, <1>6 DEF ListRowsInv

LEMMA ListDeleteEnds ==
    ASSUME ListRowsInv, NEW d \in DOMAIN deletes, NEW e \in Experiments, NEW ok \in BOOLEAN,
           List!DeleteEnds(d, e, ok)
    PROVE  ListRowsInv'
<1> DEFINE left == deletes[d].left \ {e}
           settles == deletes[d].phase = "sending" /\ (~ok \/ left = {})
           new == [deletes[d] EXCEPT !.left = left, !.failed = @ \/ ~ok,
                                     !.phase = IF settles THEN "refreshing" ELSE @]
<1>1. /\ e \in deletes[d].left
      /\ existing' = IF ok THEN [x \in DOMAIN existing \ {e} |-> existing[x]] ELSE existing
      /\ deletes' = [deletes EXCEPT ![d] = new]
      /\ listFetch' = IF settles THEN List!Sent ELSE listFetch
      /\ UNCHANGED experiments
    BY DEF List!DeleteEnds, List!Refetch
<1>2. deletes[d] \in BulkDelete /\ SettlesInTime(deletes[d])
    BY DEF ListRowsInv
<1>3. new \in BulkDelete
    BY <1>2 DEF BulkDelete
<1>4. /\ new.left = left /\ new.failed = (deletes[d].failed \/ ~ok)
      /\ new.phase = IF settles THEN "refreshing" ELSE deletes[d].phase
    BY <1>2 DEF BulkDelete
<1> HIDE DEF new
<1>5. /\ deletes' \in Seq(BulkDelete) /\ DOMAIN deletes' = DOMAIN deletes
      /\ deletes'[d] = new
      /\ \A x \in DOMAIN deletes \ {d} : deletes'[x] = deletes[x]
    BY <1>1, <1>3 DEF ListRowsInv
<1>6. DOMAIN existing' \subseteq DOMAIN existing
    BY <1>1
<1>7. SettlesInTime(new)
    BY <1>2, <1>4 DEF SettlesInTime, BulkDelete
<1>8. \A x \in DOMAIN deletes' : SettlesInTime(deletes'[x])
    BY <1>5, <1>7 DEF ListRowsInv
<1>9. AllDeleted' => listFetch' = List!Sent
    <2> SUFFICES ASSUME AllDeleted' PROVE settles
        BY <1>1
    <2>1. ~new.failed /\ new.phase # "sending"
        BY <1>5 DEF AllDeleted
    <2>2. CASE deletes[d].phase # "sending"
        BY <1>1, <1>2, <1>4, <2>1, <2>2 DEF SettlesInTime
    <2> QED BY <1>4, <2>1, <2>2
<1>10. DOMAIN experiments' \subseteq Experiments /\ DOMAIN existing' \subseteq Experiments
    BY <1>1, <1>6 DEF ListRowsInv
<1>11. listFetch'.at = "read" => DOMAIN listFetch'.list \subseteq Experiments
    BY <1>1, FetchPhases DEF ListRowsInv
<1> QED BY <1>5, <1>8, <1>9, <1>10, <1>11, FetchPhases DEF ListRowsInv

\* A list request ends: the deletes that waited for it are over.
LEMMA ListEnds ==
    ASSUME ListRowsInv, NEW l, List!FetchEnds(l)
    PROVE  /\ listFetch' = List!NoFetch /\ experiments' = l /\ existing' = existing
           /\ deletes' \in Seq(BulkDelete)
           /\ \A d \in DOMAIN deletes' : SettlesInTime(deletes'[d])
           /\ AllDeleted' => AllDeleted
           /\ DOMAIN deletes' = DOMAIN deletes
<1> DEFINE over == {d \in DOMAIN deletes : deletes[d].phase = "refreshing"}
<1>1. /\ listFetch' = List!NoFetch
      /\ experiments' = l
      /\ existing' = existing
      /\ deletes' = [d \in DOMAIN deletes |->
                        IF d \in over THEN [deletes[d] EXCEPT !.phase = "done"]
                        ELSE deletes[d]]
    BY DEF List!FetchEnds, List!Commit
<1>2. ASSUME NEW d \in DOMAIN deletes
      PROVE  /\ deletes'[d] \in BulkDelete
             /\ SettlesInTime(deletes'[d])
             /\ deletes'[d].failed = deletes[d].failed
             /\ deletes'[d].phase = "sending" <=> deletes[d].phase = "sending"
    <2>1. deletes[d] \in BulkDelete /\ SettlesInTime(deletes[d])
        BY DEF ListRowsInv
    <2>2. deletes'[d] = IF deletes[d].phase = "refreshing" THEN [deletes[d] EXCEPT !.phase = "done"]
                        ELSE deletes[d]
        BY <1>1
    <2> QED BY <2>1, <2>2 DEF BulkDelete, SettlesInTime
<1>3. DOMAIN deletes' = DOMAIN deletes /\ DOMAIN deletes = 1..Len(deletes) /\ Len(deletes) \in Nat
    BY <1>1 DEF ListRowsInv
<1>4. deletes' \in Seq(BulkDelete)
    <2>1. deletes' \in [1..Len(deletes) -> BulkDelete]
        BY <1>1, <1>2, <1>3
    <2> QED BY <1>3, <2>1
<1>5. AllDeleted' => AllDeleted
    BY <1>2, <1>3 DEF AllDeleted
<1> QED BY <1>1, <1>2, <1>3, <1>4, <1>5

LEMMA ListAnswer ==
    ASSUME ListRowsInv, List!FetchAnswer
    PROVE  ListRowsInv'
<1>1. listFetch.at = "read" /\ List!FetchEnds(listFetch.list)
    BY DEF List!FetchAnswer
<1> QED BY <1>1, ListEnds, FetchPhases DEF ListRowsInv

LEMMA ListFails ==
    ASSUME ListRowsInv, List!FetchFails
    PROVE  ListRowsInv'
<1>1. List!FetchEnds(experiments) /\ listError' = TRUE
    BY DEF List!FetchFails
<1> QED BY <1>1, ListEnds, FetchPhases DEF ListRowsInv

LEMMA ListRequestStep ==
    ASSUME ListRowsInv, List!StartFetch \/ List!EngineReads
    PROVE  ListRowsInv'
<1>1. UNCHANGED <<existing, experiments, deletes>>
    BY DEF List!StartFetch, List!EngineReads
<1>2. \/ listFetch' = List!Sent
      \/ listFetch' = [at |-> "read", list |-> existing]
    BY DEF List!StartFetch, List!EngineReads
<1>3. [at |-> "read", list |-> existing].at = "read" /\ [at |-> "read", list |-> existing].list = existing
    OBVIOUS
<1>4. \/ listFetch'.at = "sent"
      \/ listFetch'.at = "read" /\ listFetch'.list = existing
    BY <1>2, <1>3, FetchPhases
<1> QED BY <1>1, <1>4, FetchPhases DEF ListRowsInv, AllDeleted

LEMMA ListCompletes ==
    ASSUME ListRowsInv, NEW e \in Experiments, List!Completes(e)
    PROVE  ListRowsInv'
<1>1. DOMAIN existing' = DOMAIN existing /\ UNCHANGED <<experiments, listFetch, listError, deletes>>
    BY DEF List!Completes
<1> QED BY <1>1 DEF ListRowsInv, AllDeleted

LEMMA ListRowsStep == ListRowsInv /\ [List!Next]_List!listVars => ListRowsInv'
<1> SUFFICES ASSUME ListRowsInv, [List!Next]_List!listVars PROVE ListRowsInv'
    OBVIOUS
<1> DEFINE same == UNCHANGED <<existing, experiments, listFetch, listError, deletes>>
<1>1. ASSUME NEW q, List!TypeQuery(q) \/ List!PickStatus(q) PROVE same
    BY <1>1 DEF List!TypeQuery, List!PickStatus, List!Commit
<1>2. ASSUME NEW e, List!ToggleOne(e) \/ List!SetMany(e) \/ List!ToggleGroup(e) \/ List!ClearSelection
      PROVE  same
    BY <1>2 DEF List!ToggleOne, List!SetMany, List!ToggleGroup, List!ClearSelection, List!Tick
<1>3. CASE UNCHANGED List!listVars
    BY <1>3, ListUserStep DEF List!listVars
<1> QED BY <1>1, <1>2, <1>3, ListUserStep, ListDelete, ListDeleteEnds, ListAnswer, ListFails,
           ListRequestStep, ListCompletes DEF List!Next

\* Whatever was filtered, ticked and fetched meanwhile: once bulk deletes that all succeeded
\* have settled and the last list request has not failed, no deleted row is shown
\* (DeletedRowsGo, onSettled of useDeleteExperiments).
THEOREM DeletedRowsAreGone == PagesSpec => []DeletedRowsGo
<1>1. ListRowsInv => DeletedRowsGo
    <2> SUFFICES ASSUME ListRowsInv, List!Settled, ~listError,
                        \A d \in DOMAIN deletes : ~deletes[d].failed
                 PROVE  DOMAIN experiments \subseteq DOMAIN existing
        BY DEF DeletedRowsGo, List!DeletedRowsGo
    <2>1. AllDeleted
        BY DEF AllDeleted, List!Settled, List!isPending
    <2> QED BY <2>1 DEF ListRowsInv, List!Settled
<1> QED BY <1>1, ListRowsInit, ListRowsStep, ListPlays, PTL DEF List!Spec

LEMMA ListOperators ==
    ASSUME NEW s
    PROVE  List!Cardinality(s) = Cardinality(s) /\ List!FlattenSeq(s) = FlattenSeq(s)
BY DEF List!Cardinality, Cardinality, List!FlattenSeq, FlattenSeq

LEMMA NewestFirstLists ==
    ASSUME NEW ids \in SUBSET Experiments
    PROVE  /\ IsFiniteSet(ids)
           /\ List!NewestFirst(ids) \in Seq(ids) /\ ToSet(List!NewestFirst(ids)) = ids
<1> DEFINE s == List!NewestFirst(ids)
           key == [e \in ids |-> Created[e]]
           above == ByKey(ids, key)
<1>1. IsFiniteSet(ids)
    BY ListAssumption, FS_Subset
<1>2. key \in [ids -> Nat] /\ \A x, y \in ids : key[x] = key[y] => x = y
    BY ListAssumption
<1>3. s = [i \in 1..List!Cardinality(ids) |->
              CHOOSE x \in ids : List!Cardinality({y \in ids : Created[y] > Created[x]}) + 1 = i]
    BY DEF List!NewestFirst, List!Ordered
<1>4. Ranked(ids, above, s)
    <2>1. DOMAIN s = 1..Cardinality(ids) /\ s = [i \in DOMAIN s |-> s[i]]
        BY <1>3, ListOperators
    <2>2. ASSUME NEW i \in DOMAIN s, NEW x \in ids,
                 Cardinality(above[x]) + 1 = i
          PROVE  s[i] \in ids /\ Cardinality(above[s[i]]) + 1 = i
        <3> DEFINE Above(z) == {y \in ids : Created[y] > Created[z]}
        <3>1. ASSUME NEW z \in ids PROVE above[z] = Above(z)
            BY DEF ByKey
        <3>2. s[i] = CHOOSE z \in ids : List!Cardinality(Above(z)) + 1 = i
            BY <1>3
        <3> HIDE DEF Above, s, key, above
        <3>3. Cardinality(Above(x)) + 1 = i
            BY <2>2, <3>1
        <3>4. s[i] \in ids /\ Cardinality(Above(s[i])) + 1 = i
            BY <3>2, <3>3, ListOperators
        <3> QED BY <3>1, <3>4
    <2> HIDE DEF s, above
    <2> QED BY <2>1, <2>2 DEF Ranked
<1> HIDE DEF s, key
<1>5. Ranks(ids, above)
    BY <1>2, KeysRank
<1> HIDE DEF above
<1> QED BY <1>1, <1>4, <1>5, Sorted DEF s

\* The units are the groups and the solos of the ids: they share none and miss none.
LEMMA UnitsLists ==
    ASSUME NEW ids \in SUBSET Experiments
    PROVE  /\ List!Units(ids) \in Seq((SUBSET ids) \ {{}})
           /\ UNION ToSet(List!Units(ids)) = ids
<1> DEFINE batches == {List!GroupMembers(ids, b) : b \in List!GroupedBatches(ids)}
           solos == {{e} : e \in ids \ UNION batches}
           U == batches \cup solos
           s == List!Units(ids)
           key == [u \in U |-> Created[List!NewestFirst(u)[1]]]
           above == ByKey(U, key)
<1>1. U \subseteq (SUBSET ids) \ {{}}
    <2>1. \A b \in List!GroupedBatches(ids) : \E e \in ids : b = Batch[e]
        BY DEF List!GroupedBatches
    <2>2. batches \subseteq (SUBSET ids) \ {{}}
        BY <2>1 DEF List!GroupMembers
    <2> QED BY <2>2
<1>2. UNION U = ids
    BY <1>1
<1>3. \A u, v \in U : u # v => u \cap v = {}
    BY DEF List!GroupMembers
<1>4. IsFiniteSet(U)
    <2>1. IsFiniteSet(ids)
        BY NewestFirstLists
    <2>2. IsFiniteSet(SUBSET ids)
        BY <2>1, FS_SUBSET
    <2> QED BY <1>1, <2>2, FS_Subset
<1>5. s = [i \in 1..List!Cardinality(U) |->
              CHOOSE u \in U : List!Cardinality({v \in U :
                  Created[List!NewestFirst(v)[1]] > Created[List!NewestFirst(u)[1]]}) + 1 = i]
    BY DEF List!Units, List!Ordered
<1> HIDE DEF batches, solos, U, s
<1>6. ASSUME NEW u \in U PROVE List!NewestFirst(u)[1] \in u
    <2>1. u \in SUBSET Experiments /\ u # {}
        BY <1>1, <1>6
    <2>2. List!NewestFirst(u) \in Seq(u) /\ ToSet(List!NewestFirst(u)) = u
        BY <2>1, NewestFirstLists
    <2> QED BY <2>1, <2>2 DEF ToSet
<1>7. key \in [U -> Nat] /\ \A u, v \in U : key[u] = key[v] => u = v
    <2>1. \A u \in U : List!NewestFirst(u)[1] \in Experiments
        BY <1>1, <1>6
    <2>2. \A u \in U : Created[List!NewestFirst(u)[1]] \in Nat
        BY <2>1, ListAssumption
    <2>3. ASSUME NEW u \in U, NEW v \in U, key[u] = key[v] PROVE u = v
        <3>1. List!NewestFirst(u)[1] = List!NewestFirst(v)[1]
            BY <2>1, <2>3, ListAssumption
        <3> QED BY <1>3, <1>6, <3>1
    <2> QED BY <2>2, <2>3
<1>8. Ranked(U, above, s)
    <2>1. DOMAIN s = 1..Cardinality(U) /\ s = [i \in DOMAIN s |-> s[i]]
        <3> DEFINE Chosen(i) == CHOOSE u \in U : List!Cardinality({v \in U :
                Created[List!NewestFirst(v)[1]] > Created[List!NewestFirst(u)[1]]}) + 1 = i
        <3>1. s = [i \in 1..List!Cardinality(U) |-> Chosen(i)]
            BY <1>5
        <3> HIDE DEF Chosen
        <3> QED BY <3>1, ListOperators
    <2>2. ASSUME NEW i \in DOMAIN s, NEW x \in U,
                 Cardinality(above[x]) + 1 = i
          PROVE  s[i] \in U /\ Cardinality(above[s[i]]) + 1 = i
        <3> DEFINE Above(z) == {y \in U : Created[List!NewestFirst(y)[1]] > Created[List!NewestFirst(z)[1]]}
        <3>1. ASSUME NEW z \in U PROVE above[z] = Above(z)
            BY DEF ByKey
        <3>2. s[i] = CHOOSE z \in U : List!Cardinality(Above(z)) + 1 = i
            BY <1>5
        <3> HIDE DEF Above, key, above
        <3>3. Cardinality(Above(x)) + 1 = i
            BY <2>2, <3>1
        <3>4. s[i] \in U /\ Cardinality(Above(s[i])) + 1 = i
            BY <3>2, <3>3, ListOperators
        <3> QED BY <3>1, <3>4
    <2> HIDE DEF above
    <2> QED BY <2>1, <2>2 DEF Ranked
<1> HIDE DEF key
<1>9. Ranks(U, above)
    BY <1>7, KeysRank
<1> HIDE DEF above
<1>10. s \in Seq(U) /\ ToSet(s) = U
    BY <1>4, <1>8, <1>9, Sorted
<1> QED BY <1>1, <1>2, <1>10 DEF s

RowsOver(ids) == [ids : SUBSET ids, header : BOOLEAN,
                  box : {"checked", "indeterminate", "unchecked"}]

\* A unit's rows are about its members, and one has them all under one box.
LEMMA UnitRowsShow ==
    ASSUME NEW unit \in SUBSET Experiments, unit # {}
    PROVE  /\ List!UnitRows(unit) \in Seq(RowsOver(unit))
           /\ \E r \in ToSet(List!UnitRows(unit)) : r.ids = unit /\ r.box = List!Box(unit)
<1> DEFINE members == List!NewestFirst(unit)
           own == [i \in DOMAIN members |-> List!RowOf(members[i])]
           header == [ids |-> unit, header |-> TRUE, box |-> List!Box(unit)]
<1>1. \A S : List!Box(S) \in {"checked", "indeterminate", "unchecked"}
    BY DEF List!Box
<1>2. \A e \in unit : List!RowOf(e) \in Seq(RowsOver(unit)) /\ ToSet(List!RowOf(e)) = {List!RowOf(e)[1]}
                       /\ List!RowOf(e)[1].ids = {e} /\ List!RowOf(e)[1].box = List!Box({e})
    <2> SUFFICES ASSUME NEW e \in unit
                 PROVE  /\ List!RowOf(e) \in Seq(RowsOver(unit))
                        /\ ToSet(List!RowOf(e)) = {List!RowOf(e)[1]}
                        /\ List!RowOf(e)[1].ids = {e} /\ List!RowOf(e)[1].box = List!Box({e})
        OBVIOUS
    <2> DEFINE row == [ids |-> {e}, header |-> FALSE, box |-> List!Box({e})]
    <2>1. List!RowOf(e) = <<row>>
        BY DEF List!RowOf
    <2>2. row \in RowsOver(unit) /\ row.ids = {e} /\ row.box = List!Box({e})
        BY <1>1 DEF RowsOver
    <2> HIDE DEF row
    <2>3. <<row>> \in Seq(RowsOver(unit)) /\ <<row>>[1] = row /\ ToSet(<<row>>) = {row}
        BY <2>2 DEF ToSet
    <2> QED BY <2>1, <2>2, <2>3
<1>3. IsFiniteSet(unit) /\ members \in Seq(unit)
    BY NewestFirstLists
<1>4. CASE List!Cardinality(unit) = 1
    <2>1. PICK e : unit = {e}
        BY <1>3, <1>4, ListOperators, FS_Singleton
    <2>2. List!UnitRows(unit) = List!RowOf(e)
        BY <1>4, <2>1 DEF List!UnitRows
    <2> QED BY <1>2, <2>1, <2>2
<1>5. CASE List!Cardinality(unit) # 1
    <2> HIDE DEF members
    <2>1. own \in Seq(Seq(RowsOver(unit)))
        <3>1. ASSUME NEW i \in DOMAIN members PROVE own[i] \in Seq(RowsOver(unit))
            <4>1. members[i] \in unit /\ own[i] = List!RowOf(members[i])
                BY <1>3
            <4> HIDE DEF own
            <4> QED BY <1>2, <4>1
        <3>2. DOMAIN own = 1..Len(members) /\ Len(members) \in Nat
            BY <1>3
        <3> QED BY <1>3, <3>1, <3>2
    <2>2. List!FlattenSeq(own) \in Seq(RowsOver(unit))
        BY <2>1, Flattened, ListOperators
    <2>3. PICK tail \in Seq(RowsOver(unit)) : List!UnitRows(unit) = <<header>> \o tail
        <3>1. List!UnitRows(unit) = <<header>> \o
                 (IF expandedBatches[Batch[members[1]]] THEN List!FlattenSeq(own) ELSE <<>>)
            BY <1>5 DEF List!UnitRows, members
        <3> HIDE DEF own, header
        <3>2. CASE expandedBatches[Batch[members[1]]]
            BY <2>2, <3>1, <3>2
        <3>3. CASE ~expandedBatches[Batch[members[1]]]
            <4>1. <<>> \in Seq(RowsOver(unit))
                OBVIOUS
            <4> QED BY <3>1, <3>3, <4>1
        <3> QED BY <3>2, <3>3
    <2>4. header \in RowsOver(unit)
        BY <1>1 DEF RowsOver
    <2>5. header.ids = unit /\ header.box = List!Box(unit)
        OBVIOUS
    <2> HIDE DEF header, own
    <2>6. List!UnitRows(unit) \in Seq(RowsOver(unit)) /\ List!UnitRows(unit)[1] = header
          /\ 1 \in DOMAIN List!UnitRows(unit)
        BY <2>3, <2>4
    <2> QED BY <2>5, <2>6 DEF ToSet
<1> QED BY <1>4, <1>5

\* The table's rows are about the visible ids, and a ticked one has a ticked box.
LEMMA RowsShow ==
    ASSUME DOMAIN experiments \subseteq Experiments
    PROVE  /\ List!filteredIds \subseteq Experiments
           /\ \A i \in DOMAIN List!Rows : List!Rows[i].ids \subseteq List!filteredIds
           /\ \A e \in List!filteredIds \cap picked :
                  \E i \in DOMAIN List!Rows :
                      e \in List!Rows[i].ids /\ List!Rows[i].box # "unchecked"
<1> DEFINE ids == List!filteredIds
           units == List!Units(ids)
           pieces == [i \in DOMAIN units |-> List!UnitRows(units[i])]
<1>1. ids \subseteq Experiments
    BY DEF List!filteredIds, List!FilteredIds
<1>2. units \in Seq((SUBSET ids) \ {{}}) /\ UNION ToSet(units) = ids
    BY <1>1, UnitsLists
<1>3. List!Rows = FlattenSeq(pieces)
    BY ListOperators DEF List!Rows
<1> HIDE DEF ids, units
<1>4. \A i \in DOMAIN units : units[i] \in SUBSET Experiments /\ units[i] # {} /\ units[i] \subseteq ids
    BY <1>1, <1>2
<1>5. \A i \in DOMAIN units :
          /\ pieces[i] \in Seq(RowsOver(ids))
          /\ \E r \in ToSet(pieces[i]) : r.ids = units[i] /\ r.box = List!Box(units[i])
    <2> SUFFICES ASSUME NEW i \in DOMAIN units
                 PROVE  /\ pieces[i] \in Seq(RowsOver(ids))
                        /\ \E r \in ToSet(pieces[i]) : r.ids = units[i] /\ r.box = List!Box(units[i])
        OBVIOUS
    <2>1. pieces[i] = List!UnitRows(units[i])
        OBVIOUS
    <2> HIDE DEF pieces
    <2>2. /\ pieces[i] \in Seq(RowsOver(units[i]))
          /\ \E r \in ToSet(pieces[i]) : r.ids = units[i] /\ r.box = List!Box(units[i])
        BY <1>4, <2>1, UnitRowsShow
    <2>3. RowsOver(units[i]) \subseteq RowsOver(ids)
        BY <1>4 DEF RowsOver
    <2> QED BY <2>2, <2>3
<1>6. pieces \in Seq(Seq(RowsOver(ids))) /\ DOMAIN pieces = DOMAIN units
    BY <1>2, <1>5
<1> HIDE DEF pieces
<1>7. /\ FlattenSeq(pieces) \in Seq(RowsOver(ids))
      /\ ToSet(FlattenSeq(pieces)) = UNION {ToSet(pieces[i]) : i \in DOMAIN pieces}
    BY <1>6, Flattened
<1>8. \A i \in DOMAIN List!Rows : List!Rows[i].ids \subseteq ids
    <2>1. \A i \in DOMAIN List!Rows : List!Rows[i] \in RowsOver(ids)
        BY <1>3, <1>7
    <2> QED BY <2>1 DEF RowsOver
<1>9. ASSUME NEW e \in ids \cap picked
      PROVE  \E i \in DOMAIN List!Rows : e \in List!Rows[i].ids /\ List!Rows[i].box # "unchecked"
    <2>1. PICK j \in DOMAIN units : e \in units[j]
        BY <1>2 DEF ToSet
    <2>2. PICK r \in ToSet(pieces[j]) : r.ids = units[j] /\ r.box = List!Box(units[j])
        BY <1>5
    <2>3. r \in ToSet(List!Rows)
        BY <1>3, <1>6, <1>7
    <2>4. List!Box(units[j]) # "unchecked"
        BY <2>1 DEF List!Box
    <2> QED BY <2>1, <2>2, <2>3, <2>4 DEF ToSet
<1> QED BY <1>1, <1>8, <1>9 DEF ids

TicksShown == picked \subseteq List!filteredIds

LEMMA TicksShownStep ==
    ASSUME ListRowsInv, TicksShown, [List!Next]_List!listVars
    PROVE  TicksShown'
<1>1. DOMAIN experiments \subseteq Experiments
    BY DEF ListRowsInv
<1>2. ASSUME NEW l, NEW q, NEW st, NEW ticks, List!Commit(l, q, st, ticks) PROVE TicksShown'
    BY <1>2 DEF List!Commit, TicksShown, List!filteredIds
<1>3. ASSUME UNCHANGED <<experiments, query, status>>, picked' \subseteq List!filteredIds
      PROVE  TicksShown'
    BY <1>3 DEF TicksShown, List!filteredIds, List!FilteredIds
<1>4. ASSUME NEW ticks, List!Tick(ticks), ticks \subseteq List!filteredIds PROVE TicksShown'
    BY <1>3, <1>4 DEF List!Tick
<1>5. ASSUME NEW e, List!ToggleOne(e) PROVE TicksShown'
    <2>1. e \in List!filteredIds
        BY <1>1, <1>5, RowsShow DEF List!ToggleOne
    <2> QED BY <1>4, <1>5, <2>1 DEF List!ToggleOne, TicksShown
<1>6. ASSUME NEW ids, ids \subseteq List!filteredIds, List!SetMany(ids) PROVE TicksShown'
    BY <1>4, <1>6 DEF List!SetMany, TicksShown
<1>7. ASSUME NEW b PROVE List!GroupMembers(List!filteredIds, b) \subseteq List!filteredIds
    BY DEF List!GroupMembers
<1>8. ASSUME UNCHANGED <<experiments, query, status, picked>> PROVE TicksShown'
    BY <1>3, <1>8 DEF TicksShown
<1> QED BY <1>2, <1>4, <1>5, <1>6, <1>7, <1>8 DEF List!Next, List!TypeQuery, List!PickStatus,
    List!ClearSelection, List!ToggleGroup, List!HandleDelete, List!DeleteEnds, List!StartFetch,
    List!EngineReads, List!FetchEnds, List!FetchAnswer, List!FetchFails, List!Completes,
    List!listVars

\* A bulk delete sends exactly the ids the user saw ticked, and each of them is in a
\* row of the table whose box is not empty: the ticks never leave the visible rows
\* (DeletesWhatWasShown, handleDelete of ExperimentsPage).
THEOREM DeletesAreShown == PagesSpec => DeletesWhatWasShown
<1> DEFINE Inv == ListRowsInv /\ TicksShown
           Asked == Len(deletes') > Len(deletes) =>
                        /\ deletes'[Len(deletes')].left = picked
                        /\ \A e \in picked :
                               \E i \in DOMAIN List!Rows :
                                   e \in List!Rows[i].ids /\ List!Rows[i].box # "unchecked"
<1>1. List!Init => Inv
    BY ListRowsInit DEF List!Init, TicksShown
<1>2. Inv /\ [List!Next]_List!listVars => Inv'
    BY ListRowsStep, TicksShownStep
<1>3. ASSUME Inv, [List!Next]_List!listVars PROVE [Asked]_List!listVars
    <2>1. deletes \in Seq(BulkDelete) /\ DOMAIN experiments \subseteq Experiments
        BY <1>3 DEF ListRowsInv
    <2>2. ASSUME List!HandleDelete PROVE Asked
        <3> DEFINE ids == List!filteredIds \cap picked
        <3>1. PICK d : deletes' = Append(deletes, d) /\ d.left = ids
            BY <2>2 DEF List!HandleDelete
        <3>2. ids = picked
            BY <1>3, <2>2 DEF List!HandleDelete, TicksShown
        <3>3. deletes'[Len(deletes')] = d
            BY <2>1, <3>1
        <3> QED BY <2>1, <3>1, <3>2, <3>3, RowsShow
    <2>3. ASSUME NEW d, NEW e, NEW ok, List!DeleteEnds(d, e, ok) PROVE Asked
        <3>1. Len(deletes') = Len(deletes)
            BY <2>1, <2>3 DEF List!DeleteEnds
        <3> QED BY <2>1, <3>1
    <2>4. ASSUME List!FetchAnswer \/ List!FetchFails PROVE Asked
        <3>1. DOMAIN deletes' = DOMAIN deletes
            BY <2>4 DEF List!FetchEnds, List!FetchAnswer, List!FetchFails
        <3>2. Len(deletes') = Len(deletes)
            BY <2>1, <3>1
        <3> QED BY <2>1, <3>2
    <2>5. ASSUME UNCHANGED deletes PROVE Asked
        BY <2>1, <2>5
    <2>6. Asked
        BY <1>3, <2>2, <2>3, <2>4, <2>5 DEF List!Next, List!TypeQuery, List!PickStatus, List!Tick,
           List!ToggleOne, List!SetMany, List!ClearSelection, List!ToggleGroup, List!StartFetch,
           List!EngineReads, List!Completes, List!listVars
    <2> QED BY <2>6
<1> QED BY <1>1, <1>2, <1>3, ListPlays, PTL
        DEF DeletesWhatWasShown, List!DeletesWhatWasShown, List!Spec

--------------------------------------------------------------------------------
(* The compare page.                                                               *)

LEMMA ComparePlays == PagesSpec => Compare2!Spec
<1>1. PagesInit => Compare2!Init
    BY DEF PagesInit
<1>2. [PagesNext]_pagesVars => [Compare2!Next]_Compare2!compareVars
    BY DEF PagesNext, On, pagesVars, compareVars, Compare2!compareVars
<1> QED BY <1>1, <1>2, PTL DEF PagesSpec, Compare2!Spec, pagesVars

LEMMA SameOperators ==
    ASSUME NEW s
    PROVE  /\ Compare2!FlattenSeq(s) = FlattenSeq(s)
           /\ Compare2!ToSet(s) = ToSet(s)
           /\ \A x : Compare2!Contains(s, x) <=> Contains(s, x)
BY DEF Compare2!FlattenSeq, FlattenSeq, Compare2!ToSet, ToSet, Compare2!Contains, Contains

\* Filtering: each element alone in its place, or nothing in its place.
LEMMA Filtering ==
    ASSUME NEW S, NEW s \in Seq(S), NEW pieces,
           pieces = [i \in DOMAIN s |-> pieces[i]],
           \A i \in DOMAIN s : pieces[i] \in {<<s[i]>>, <<>>}
    PROVE  FlattenSeq(pieces) \in Seq(S) /\ ToSet(FlattenSeq(pieces)) \subseteq ToSet(s)
<1>1. DOMAIN s = 1..Len(s) /\ Len(s) \in Nat /\ \A i \in DOMAIN s : s[i] \in S
    OBVIOUS
<1>2. ASSUME NEW i \in DOMAIN s
      PROVE  pieces[i] \in Seq(S) /\ ToSet(pieces[i]) \subseteq {s[i]}
    <2>1. s[i] \in S
        BY <1>1
    <2>2. <<s[i]>> \in Seq(S) /\ ToSet(<<s[i]>>) = {s[i]}
        BY <2>1 DEF ToSet
    <2>3. <<>> \in Seq(S) /\ ToSet(<<>>) = {}
        BY DEF ToSet
    <2> QED BY <2>2, <2>3
<1>3. pieces \in Seq(Seq(S)) /\ DOMAIN pieces = DOMAIN s
    <2>1. pieces \in [1..Len(s) -> Seq(S)]
        BY <1>1, <1>2
    <2> QED BY <1>1, <2>1
<1>4. UNION {ToSet(pieces[i]) : i \in DOMAIN pieces} \subseteq ToSet(s)
    BY <1>2, <1>3 DEF ToSet
<1> QED BY <1>3, <1>4, Flattened

LEMMA Shortened ==
    ASSUME NEW S, NEW s \in Seq(S), NEW n \in Nat
    PROVE  Compare2!UpTo(s, n) \in Seq(S) /\ ToSet(Compare2!UpTo(s, n)) \subseteq ToSet(s)
<1> DEFINE m == IF Len(s) < n THEN Len(s) ELSE n
           t == SubSeq(s, 1, m)
<1>1. m \in Nat /\ m <= Len(s) /\ Len(s) \in Nat
    OBVIOUS
<1> HIDE DEF m
<1>2. /\ t \in Seq(S) /\ Len(t) = m
      /\ \A i \in 1..m : t[i] = s[i]
    BY <1>1
<1>3. DOMAIN t = 1..m /\ 1..m \subseteq DOMAIN s
    BY <1>1, <1>2
<1>4. ToSet(t) \subseteq ToSet(s)
    BY <1>2, <1>3 DEF ToSet
<1> QED BY <1>2, <1>4 DEF Compare2!UpTo, m

RunsOfAll(exps) == UNION {ToSet(RunsIn[e]) : e \in ToSet(exps)}
RunIds == DOMAIN Profile
Params == [exps : Seq(Experiments), runs : Seq(RunIds)]
\* The runs a URL names: those of its experiments and its own.
Named(p) == RunsOfAll(p.exps) \cup ToSet(p.runs)

CompareInv ==
    /\ searchParams \in Params /\ lastParams \in Params
    /\ selected \in Seq(RunIds)
    /\ ToSet(selected) \subseteq Named(searchParams)

LEMMA RunsOffered ==
    ASSUME NEW p \in Params, NEW b
    PROVE  /\ Compare2!ExperimentRuns(p, b) \in Seq(RunIds)
           /\ ToSet(Compare2!ExperimentRuns(p, b)) \subseteq RunsOfAll(p.exps)
           /\ Compare2!Completed(p, b) \in Seq(RunIds)
           /\ ToSet(Compare2!Completed(p, b)) \subseteq RunsOfAll(p.exps)
<1> DEFINE lists == [i \in DOMAIN p.exps |->
                        IF p.exps[i] \in b.answered THEN RunsIn[p.exps[i]] ELSE <<>>]
           runs1 == Compare2!ExperimentRuns(p, b)
<1>1. /\ DOMAIN p.exps = 1..Len(p.exps) /\ Len(p.exps) \in Nat
      /\ \A i \in DOMAIN p.exps : p.exps[i] \in Experiments
    BY DEF Params
<1>2. \A i \in DOMAIN p.exps :
          lists[i] \in Seq(RunIds) /\ ToSet(lists[i]) \subseteq ToSet(RunsIn[p.exps[i]])
    <2>1. \A e \in Experiments : RunsIn[e] \in Seq(RunIds)
        BY CompareAssumption DEF RunIds
    <2>2. <<>> \in Seq(RunIds) /\ ToSet(<<>>) = {}
        BY DEF ToSet
    <2> SUFFICES ASSUME NEW i \in DOMAIN p.exps
                 PROVE  /\ lists[i] \in Seq(RunIds)
                        /\ ToSet(lists[i]) \subseteq ToSet(RunsIn[p.exps[i]])
        OBVIOUS
    <2>3. lists[i] = RunsIn[p.exps[i]] \/ lists[i] = <<>>
        OBVIOUS
    <2>4. RunsIn[p.exps[i]] \in Seq(RunIds)
        BY <1>1, <2>1
    <2> HIDE DEF lists
    <2> QED BY <2>2, <2>3, <2>4
<1>3. lists \in Seq(Seq(RunIds)) /\ DOMAIN lists = DOMAIN p.exps
    <2>1. lists \in [1..Len(p.exps) -> Seq(RunIds)]
        BY <1>1, <1>2
    <2> QED BY <1>1, <2>1
<1>4. UNION {ToSet(lists[i]) : i \in DOMAIN lists} \subseteq RunsOfAll(p.exps)
    <2>1. \A i \in DOMAIN p.exps : p.exps[i] \in ToSet(p.exps)
        BY DEF ToSet
    <2>2. \A i \in DOMAIN p.exps : ToSet(lists[i]) \subseteq RunsOfAll(p.exps)
        BY <1>2, <2>1 DEF RunsOfAll
    <2> HIDE DEF lists
    <2> QED BY <1>3, <2>2
<1> HIDE DEF lists
<1>5. FlattenSeq(lists) \in Seq(RunIds) /\ ToSet(FlattenSeq(lists)) \subseteq RunsOfAll(p.exps)
    BY <1>3, <1>4, Flattened
<1>6. runs1 \in Seq(RunIds) /\ ToSet(runs1) \subseteq RunsOfAll(p.exps)
    <2>1. runs1 = <<>> \/ runs1 = FlattenSeq(lists)
        BY SameOperators DEF Compare2!ExperimentRuns, lists
    <2>2. <<>> \in Seq(RunIds) /\ ToSet(<<>>) = {}
        BY DEF ToSet
    <2> QED BY <1>5, <2>1, <2>2
<1> HIDE DEF runs1
<1>7. Compare2!Completed(p, b) \in Seq(RunIds) /\ ToSet(Compare2!Completed(p, b)) \subseteq ToSet(runs1)
    <2> DEFINE pieces == [i \in DOMAIN runs1 |->
                             IF runs1[i] \in b.completed THEN <<runs1[i]>> ELSE <<>>]
    <2>1. pieces = [i \in DOMAIN runs1 |-> pieces[i]]
        OBVIOUS
    <2>2. \A i \in DOMAIN runs1 : pieces[i] \in {<<runs1[i]>>, <<>>}
        OBVIOUS
    <2>3. Compare2!Completed(p, b) = FlattenSeq(pieces)
        BY SameOperators DEF Compare2!Completed, Compare2!Filter, runs1
    <2> HIDE DEF pieces
    <2>4. FlattenSeq(pieces) \in Seq(RunIds) /\ ToSet(FlattenSeq(pieces)) \subseteq ToSet(runs1)
        BY <1>6, <2>1, <2>2, Filtering
    <2> QED BY <2>3, <2>4
<1> QED BY <1>6, <1>7 DEF runs1

\* A commit leaves ticks the URL names: the automatic ones, those of a URL that is new, or
\* what was ticked before.
LEMMA Committed ==
    ASSUME NEW p \in Params, NEW b, NEW sel \in Seq(RunIds),
           p = searchParams => ToSet(sel) \subseteq Named(p),
           Compare2!Commit(p, b, sel)
    PROVE  /\ searchParams' = p
           /\ selected' \in Seq(RunIds)
           /\ ToSet(selected') \subseteq Named(p)
<1> DEFINE auto == Compare2!AutoSelects(p, b, ~autoSelectedRef)
           done == Compare2!Completed(p, b)
<1>1. /\ searchParams' = p
      /\ selected' = IF auto THEN Compare2!UpTo(done, MaxRuns) ELSE Compare2!TicksOf(p, sel)
    BY DEF Compare2!Commit
<1>2. p.runs \in Seq(RunIds) /\ ToSet(p.runs) \subseteq Named(p)
    BY DEF Params, Named
<1>3. done \in Seq(RunIds) /\ ToSet(done) \subseteq Named(p)
    BY RunsOffered DEF Named
<1> HIDE DEF auto, done
<1>4. /\ Compare2!UpTo(done, MaxRuns) \in Seq(RunIds)
      /\ ToSet(Compare2!UpTo(done, MaxRuns)) \subseteq Named(p)
    BY <1>3, CompareAssumption, Shortened
<1>5. CASE auto
    BY <1>1, <1>4, <1>5
<1>6. CASE ~auto
    BY <1>1, <1>2, <1>6 DEF Compare2!TicksOf
<1> QED BY <1>1, <1>5, <1>6

LEMMA Navigated ==
    ASSUME CompareInv, NEW p \in Params, NEW sel \in Seq(RunIds),
           p = searchParams => ToSet(sel) \subseteq Named(p),
           Compare2!Navigate(p, sel)
    PROVE  CompareInv'
<1>1. PICK b : Compare2!Commit(p, b, sel)
    BY DEF Compare2!Navigate
<1>2. /\ searchParams' = p
      /\ selected' \in Seq(RunIds)
      /\ ToSet(selected') \subseteq Named(p)
    BY <1>1, Committed
<1>3. lastParams' \in {lastParams, searchParams}
    BY DEF Compare2!Navigate
<1> QED BY <1>2, <1>3 DEF CompareInv, Params, Named, RunsOfAll

\* A choice of experiments drops the ticks.
LEMMA Chosen ==
    ASSUME CompareInv, NEW exps \in Seq(Experiments), Compare2!PickExperiments(exps)
    PROVE  CompareInv'
<1> DEFINE p == [exps |-> exps, runs |-> <<>>]
<1>1. <<>> \in Seq(RunIds) /\ ToSet(<<>>) = {}
    BY DEF ToSet
<1>2. p \in Params
    BY <1>1 DEF Params
<1>3. Compare2!Navigate(p, <<>>)
    BY DEF Compare2!PickExperiments
<1> HIDE DEF p
<1> QED BY <1>1, <1>2, <1>3, Navigated

LEMMA FilteredExperiments == Compare2!Filtered \in Seq(Experiments)
<1> DEFINE s == ListOrder
           pieces == [i \in DOMAIN s |-> IF s[i] \in Matches[pickerQuery] THEN <<s[i]>> ELSE <<>>]
<1>1. pieces = [i \in DOMAIN s |-> pieces[i]] /\ \A i \in DOMAIN s : pieces[i] \in {<<s[i]>>, <<>>}
    OBVIOUS
<1>2. Compare2!Filtered = FlattenSeq(pieces)
    BY SameOperators DEF Compare2!Filtered, Compare2!Filter
<1> HIDE DEF pieces
<1> QED BY <1>1, <1>2, Filtering, CompareAssumption

LEMMA ToggledElements ==
    ASSUME NEW S, NEW s \in Seq(S), NEW x \in S
    PROVE  /\ Compare2!Toggled(s, x) \in Seq(S)
           /\ ToSet(Compare2!Toggled(s, x)) \subseteq ToSet(s) \cup {x}
<1> DEFINE pieces == [i \in DOMAIN s |-> IF s[i] # x THEN <<s[i]>> ELSE <<>>]
<1>1. Append(s, x) \in Seq(S) /\ ToSet(Append(s, x)) \subseteq ToSet(s) \cup {x}
    BY DEF ToSet
<1>2. pieces = [i \in DOMAIN s |-> pieces[i]] /\ \A i \in DOMAIN s : pieces[i] \in {<<s[i]>>, <<>>}
    OBVIOUS
<1>3. Compare2!Toggled(s, x) \in {Append(s, x), FlattenSeq(pieces)}
    BY SameOperators DEF Compare2!Toggled, Compare2!Filter
<1> HIDE DEF pieces
<1>4. FlattenSeq(pieces) \in Seq(S) /\ ToSet(FlattenSeq(pieces)) \subseteq ToSet(s)
    BY <1>2, Filtering
<1> QED BY <1>1, <1>3, <1>4

LEMMA PickerStep ==
    ASSUME CompareInv, Compare2!PickerNext
    PROVE  CompareInv'
<1> DEFINE exps == Compare2!experimentIDs
<1>1. exps \in Seq(Experiments)
    BY DEF CompareInv, Params, Compare2!experimentIDs
<1> HIDE DEF exps
<1>2. ASSUME NEW q, Compare2!TypeQuery(q) PROVE CompareInv'
    BY <1>2 DEF Compare2!TypeQuery, CompareInv
<1>3. ASSUME NEW e \in Experiments, Compare2!ToggleExperiment(e) PROVE CompareInv'
    <2>1. Compare2!PickExperiments(Compare2!Toggled(exps, e))
        BY <1>3 DEF Compare2!ToggleExperiment, exps
    <2>2. Compare2!Toggled(exps, e) \in Seq(Experiments)
        BY <1>1, ToggledElements
    <2> QED BY <2>1, <2>2, Chosen
<1>4. ASSUME Compare2!TickVisible PROVE CompareInv'
    <2> DEFINE t == Compare2!Filtered
               others == [i \in DOMAIN exps |->
                             IF ~Compare2!Contains(t, exps[i]) THEN <<exps[i]>> ELSE <<>>]
               added == [i \in DOMAIN t |->
                             IF ~Compare2!Contains(exps, t[i]) THEN <<t[i]>> ELSE <<>>]
    <2>1. \/ Compare2!PickExperiments(FlattenSeq(others))
          \/ Compare2!PickExperiments(exps \o FlattenSeq(added))
        BY <1>4, SameOperators DEF Compare2!TickVisible, Compare2!Merged, Compare2!Filter, exps
    <2>2. /\ others = [i \in DOMAIN exps |-> others[i]]
          /\ \A i \in DOMAIN exps : others[i] \in {<<exps[i]>>, <<>>}
          /\ added = [i \in DOMAIN t |-> added[i]]
          /\ \A i \in DOMAIN t : added[i] \in {<<t[i]>>, <<>>}
        OBVIOUS
    <2>3. t \in Seq(Experiments)
        BY FilteredExperiments
    <2> HIDE DEF t, others, added
    <2>4. FlattenSeq(others) \in Seq(Experiments) /\ FlattenSeq(added) \in Seq(Experiments)
        BY <1>1, <2>2, <2>3, Filtering
    <2>5. exps \o FlattenSeq(added) \in Seq(Experiments)
        BY <1>1, <2>4
    <2> QED BY <2>1, <2>4, <2>5, Chosen
<1>5. ASSUME Compare2!ClearExperiments PROVE CompareInv'
    <2>1. <<>> \in Seq(Experiments) /\ Compare2!PickExperiments(<<>>)
        BY <1>5 DEF Compare2!ClearExperiments
    <2> QED BY <2>1, Chosen
<1> QED BY <1>2, <1>3, <1>4, <1>5 DEF Compare2!PickerNext

LEMMA TicksStep ==
    ASSUME CompareInv,
           \/ \E r \in Compare2!Runs : Compare2!ToggleRun(r)
           \/ Compare2!SelectAllCompleted
           \/ Compare2!ClearSelection
    PROVE  CompareInv'
<1> DEFINE offered == Compare2!ExperimentRuns(searchParams, bundles)
           done == Compare2!Completed(searchParams, bundles)
<1>1. searchParams \in Params
    BY DEF CompareInv
<1>2. /\ ToSet(offered) \subseteq Named(searchParams)
      /\ done \in Seq(RunIds) /\ ToSet(done) \subseteq Named(searchParams)
    BY <1>1, RunsOffered DEF Named
<1> HIDE DEF offered, done
<1>3. ASSUME NEW sel \in Seq(RunIds), ToSet(sel) \subseteq Named(searchParams),
             Compare2!SetSelected(sel)
      PROVE  CompareInv'
    BY <1>3 DEF Compare2!SetSelected, CompareInv, Named, RunsOfAll, Params
<1>4. ASSUME NEW r, Compare2!ToggleRun(r) PROVE CompareInv'
    <2>1. Compare2!Contains(offered, r) /\ Compare2!SetSelected(Compare2!Toggled(selected, r))
        BY <1>4 DEF Compare2!ToggleRun, offered
    <2>2. offered \in Seq(RunIds)
        BY <1>1, RunsOffered DEF offered
    <2>3. r \in ToSet(offered) /\ r \in RunIds
        BY <2>1, <2>2 DEF Compare2!Contains, ToSet
    <2>4. /\ Compare2!Toggled(selected, r) \in Seq(RunIds)
          /\ ToSet(Compare2!Toggled(selected, r)) \subseteq ToSet(selected) \cup {r}
        BY <2>3, ToggledElements DEF CompareInv
    <2>5. ToSet(selected) \cup {r} \subseteq Named(searchParams)
        BY <1>2, <2>3 DEF CompareInv
    <2> QED BY <1>3, <2>1, <2>4, <2>5
<1>5. ASSUME Compare2!SelectAllCompleted PROVE CompareInv'
    <2>1. Compare2!SetSelected(Compare2!UpTo(done, MaxRuns))
        BY <1>5 DEF Compare2!SelectAllCompleted, done
    <2>2. /\ Compare2!UpTo(done, MaxRuns) \in Seq(RunIds)
          /\ ToSet(Compare2!UpTo(done, MaxRuns)) \subseteq ToSet(done)
        BY <1>2, CompareAssumption, Shortened
    <2> QED BY <1>2, <1>3, <2>1, <2>2
<1>6. ASSUME Compare2!ClearSelection PROVE CompareInv'
    <2>1. <<>> \in Seq(RunIds) /\ ToSet(<<>>) = {} /\ Compare2!SetSelected(<<>>)
        BY <1>6 DEF Compare2!ClearSelection, ToSet
    <2> QED BY <1>3, <2>1
<1> QED BY <1>4, <1>5, <1>6

LEMMA CompareStep == CompareInv /\ [Compare2!Next]_Compare2!compareVars => CompareInv'
<1> SUFFICES ASSUME CompareInv, [Compare2!Next]_Compare2!compareVars PROVE CompareInv'
    OBVIOUS
<1>1. selected \in Seq(RunIds) /\ searchParams \in Params
    BY DEF CompareInv
<1>2. ASSUME Compare2!ShareLink PROVE CompareInv'
    <2> DEFINE p == [exps |-> searchParams.exps, runs |-> selected]
    <2>1. Compare2!Navigate(p, selected)
        BY <1>2 DEF Compare2!ShareLink, Compare2!experimentIDs
    <2>2. p \in Params /\ ToSet(selected) \subseteq Named(p)
        BY <1>1 DEF Params, Named
    <2> HIDE DEF p
    <2> QED BY <1>1, <2>1, <2>2, Navigated
<1>3. ASSUME Compare2!Back PROVE CompareInv'
    <2>1. lastParams # searchParams /\ Compare2!Navigate(lastParams, selected)
        BY <1>3 DEF Compare2!Back
    <2>2. lastParams \in Params
        BY DEF CompareInv
    <2> QED BY <1>1, <2>1, <2>2, Navigated
<1>4. ASSUME Compare2!RunsAnswer PROVE CompareInv'
    <2>1. PICK b : Compare2!Commit(searchParams, b, selected)
        BY <1>4 DEF Compare2!RunsAnswer
    <2>2. ToSet(selected) \subseteq Named(searchParams)
        BY DEF CompareInv
    <2>3. /\ searchParams' = searchParams
          /\ selected' \in Seq(RunIds)
          /\ ToSet(selected') \subseteq Named(searchParams)
        BY <1>1, <2>1, <2>2, Committed
    <2>4. lastParams' = lastParams
        BY <1>4 DEF Compare2!RunsAnswer
    <2> QED BY <2>3, <2>4 DEF CompareInv, Named, RunsOfAll, Params
<1>5. ASSUME \/ \E r : Compare2!RunCompletes(r)
             \/ Compare2!DiagnosticsAnswer
             \/ UNCHANGED Compare2!compareVars
      PROVE  CompareInv'
    <2>1. UNCHANGED <<searchParams, lastParams, selected>>
        BY <1>5 DEF Compare2!RunCompletes, Compare2!DiagnosticsAnswer, Compare2!compareVars
    <2> QED BY <2>1 DEF CompareInv, Named, RunsOfAll
<1> QED BY <1>2, <1>3, <1>4, <1>5, PickerStep, TicksStep DEF Compare2!Next

LEMMA CompareInit == Compare2!Init => CompareInv
<1> SUFFICES ASSUME Compare2!Init PROVE CompareInv
    OBVIOUS
<1> DEFINE lists == {<<>>, ListOrder} \cup {<<e>> : e \in Experiments}
<1>1. lists \subseteq Seq(Experiments)
    <2>1. ListOrder \in Seq(Experiments)
        BY CompareAssumption
    <2>2. \A e \in Experiments : <<e>> \in Seq(Experiments)
        OBVIOUS
    <2>3. <<>> \in Seq(Experiments)
        OBVIOUS
    <2> SUFFICES ASSUME NEW s \in lists PROVE s \in Seq(Experiments)
        OBVIOUS
    <2>4. s = <<>> \/ s = ListOrder \/ \E e \in Experiments : s = <<e>>
        OBVIOUS
    <2> HIDE DEF lists
    <2> QED BY <2>1, <2>2, <2>3, <2>4
<1>2. searchParams \in [exps : lists, runs : Pasted]
    BY DEF Compare2!Init
<1> HIDE DEF lists
<1>3. searchParams \in Params
    BY <1>1, <1>2, CompareAssumption DEF Params, RunIds
<1>4. lastParams = searchParams /\ selected = searchParams.runs
    BY DEF Compare2!Init
<1> QED BY <1>3, <1>4 DEF CompareInv, Params, Named

\* However experiments are picked and left with the Back button, whatever ids a pasted
\* URL names and whenever answers arrive, every ticked run is one of an experiment that
\* the URL names or is named by the URL itself (NothingForeign, useEffect on
\* initialRunIds of ComparePage).
THEOREM TicksAreListed == PagesSpec => []NothingForeign
<1>1. CompareInv => NothingForeign
    <2> SUFFICES ASSUME CompareInv, NEW i \in DOMAIN selected
                 PROVE  \/ \E e \in Compare2!ToSet(Compare2!experimentIDs) :
                               Compare2!Contains(RunsIn[e], selected[i])
                        \/ Compare2!Contains(searchParams.runs, selected[i])
        BY DEF NothingForeign, Compare2!NothingForeign
    <2>1. selected[i] \in RunsOfAll(searchParams.exps) \cup ToSet(searchParams.runs)
        BY DEF CompareInv, ToSet, Named
    <2>2. searchParams.exps \in Seq(Experiments) /\ searchParams.runs \in Seq(RunIds)
        BY DEF CompareInv, Params
    <2>3. CASE selected[i] \in ToSet(searchParams.runs)
        BY <2>2, <2>3 DEF Compare2!Contains, ToSet
    <2>4. CASE selected[i] \in RunsOfAll(searchParams.exps)
        <3>1. PICK e \in ToSet(searchParams.exps) : selected[i] \in ToSet(RunsIn[e])
            BY <2>4 DEF RunsOfAll
        <3>2. e \in Experiments /\ RunsIn[e] \in Seq(RunIds)
            BY <2>2, CompareAssumption DEF ToSet, RunIds
        <3>3. Compare2!Contains(RunsIn[e], selected[i])
            BY <3>1, <3>2 DEF Compare2!Contains, ToSet
        <3> QED BY <3>3, SameOperators DEF Compare2!experimentIDs
    <2> QED BY <2>1, <2>3, <2>4
<1> QED BY <1>1, CompareInit, CompareStep, ComparePlays, PTL DEF Compare2!Spec

\* Once the page has selected for the user, no answer of the engine changes the ticks: a
\* selection that was cleared is not made again (AutoSelectsOnce, autoSelectedRef).
THEOREM AnswersKeepTicks == PagesSpec => AutoSelectsOnce
<1>1. ASSUME [Compare2!Next]_Compare2!compareVars, autoSelectedRef,
             searchParams' = searchParams, bundles' # bundles
      PROVE  selected' = selected
    <2>1. ASSUME NEW p, NEW sel, Compare2!Navigate(p, sel) PROVE FALSE
        <3>1. PICK b : Compare2!Commit(p, IF p.exps = searchParams.exps THEN bundles ELSE b, sel)
            BY <2>1 DEF Compare2!Navigate
        <3> QED BY <1>1, <3>1 DEF Compare2!Commit
    <2>2. ASSUME NEW sel, Compare2!SetSelected(sel) PROVE FALSE
        BY <1>1, <2>2 DEF Compare2!SetSelected
    <2>3. ASSUME NEW b, Compare2!Commit(searchParams, b, selected) PROVE selected' = selected
        BY <1>1, <2>3 DEF Compare2!Commit, Compare2!AutoSelects, Compare2!TicksOf
    <2>4. ~Compare2!PickerNext
        BY <1>1, <2>1 DEF Compare2!PickerNext, Compare2!TypeQuery, Compare2!ToggleExperiment,
           Compare2!TickVisible, Compare2!ClearExperiments, Compare2!PickExperiments
    <2>5. /\ \A r : ~Compare2!ToggleRun(r) /\ ~Compare2!RunCompletes(r)
          /\ ~Compare2!SelectAllCompleted /\ ~Compare2!ClearSelection
          /\ ~Compare2!ShareLink /\ ~Compare2!Back /\ ~Compare2!DiagnosticsAnswer
          /\ ~UNCHANGED Compare2!compareVars
        BY <1>1, <2>1, <2>2 DEF Compare2!ToggleRun, Compare2!RunCompletes,
           Compare2!SelectAllCompleted, Compare2!ClearSelection, Compare2!ShareLink,
           Compare2!Back, Compare2!DiagnosticsAnswer, Compare2!compareVars
    <2>6. Compare2!RunsAnswer
        BY <1>1, <2>4, <2>5 DEF Compare2!Next
    <2> QED BY <2>3, <2>6 DEF Compare2!RunsAnswer
<1>2. [Compare2!Next]_Compare2!compareVars =>
      [autoSelectedRef /\ searchParams' = searchParams /\ bundles' # bundles
           => selected' = selected]_Compare2!compareVars
    BY <1>1
<1> QED BY <1>2, ComparePlays, PTL DEF AutoSelectsOnce, Compare2!AutoSelectsOnce, Compare2!Spec

--------------------------------------------------------------------------------
(* The grade table.                                                                *)

LEMMA TablePlays == PagesSpec => Table!Spec
<1>1. PagesInit => Table!Init
    BY DEF PagesInit
<1>2. [PagesNext]_pagesVars => [Table!Next]_Table!tableVars
    BY DEF PagesNext, On, pagesVars, tableVars, Table!tableVars
<1> QED BY <1>1, <1>2, PTL DEF PagesSpec, Table!Spec, pagesVars

\* The pivot is always an order of three dimensions.
TableInv ==
    /\ runIds \in Seq(Columns)
    /\ dimOrder \in [1..3 -> Table!Dims]
    /\ dragging \in 0..3

LEMMA PlainOrder ==
    /\ <<"harness", "agent", "model">> \in [1..3 -> Table!Dims]
    /\ 0 \in 0..3 /\ <<>> \in Seq(Columns)
BY DEF Table!Dims

\* A dimension that is moved leaves the others where they are or shifts them.
LEMMA Moved ==
    ASSUME TableInv, NEW from \in 1..3, NEW to
    PROVE  Table!Move(from, to) \in [1..3 -> Table!Dims]
<1>1. DOMAIN dimOrder = 1..3 /\ dimOrder \in [1..3 -> Table!Dims]
    BY DEF TableInv
<1>2. CASE from = to \/ to \notin DOMAIN dimOrder
    BY <1>1, <1>2 DEF Table!Move
<1>3. CASE ~(from = to \/ to \notin DOMAIN dimOrder)
    <2> DEFINE d == dimOrder
               s == SubSeq(d, 1, from - 1)
               t == SubSeq(d, from + 1, 3)
               r == s \o t
               u == SubSeq(r, 1, to - 1)
               v == SubSeq(r, to, 2)
               e == <<d[from]>>
    <2>1. to \in 1..3 /\ \A i \in 1..3 : d[i] \in Table!Dims
        BY <1>1, <1>3
    <2>2. s \in Seq(Table!Dims) /\ Len(s) = from - 1
        <3>1. \A i \in 1..(from - 1) : d[i] \in Table!Dims
            BY <2>1
        <3> HIDE DEF d
        <3> QED BY <3>1, SubSeqProperties
    <2>3. t \in Seq(Table!Dims) /\ Len(t) = 3 - from
        <3>1. \A i \in (from + 1)..3 : d[i] \in Table!Dims
            BY <2>1
        <3> HIDE DEF d
        <3> QED BY <3>1, SubSeqProperties
    <2> HIDE DEF s, t
    <2>4. r \in Seq(Table!Dims) /\ Len(r) = 2
        BY <2>2, <2>3, ConcatProperties
    <2> HIDE DEF r
    <2>5. \A i \in 1..2 : r[i] \in Table!Dims
        BY <2>4
    <2>6. u \in Seq(Table!Dims) /\ Len(u) = to - 1
        <3>1. \A i \in 1..(to - 1) : r[i] \in Table!Dims
            BY <2>1, <2>5
        <3> QED BY <2>1, <3>1, SubSeqProperties
    <2>7. v \in Seq(Table!Dims) /\ Len(v) = 3 - to
        <3>1. \A i \in to..2 : r[i] \in Table!Dims
            BY <2>1, <2>5
        <3> QED BY <2>1, <3>1, SubSeqProperties
    <2>8. e \in Seq(Table!Dims) /\ Len(e) = 1
        BY <2>1
    <2> HIDE DEF u, v, e
    <2>9. u \o e \in Seq(Table!Dims) /\ Len(u \o e) = to
        <3>1. u \o e \in Seq(Table!Dims) /\ Len(u \o e) = Len(u) + Len(e)
            BY <2>6, <2>8, ConcatProperties
        <3> QED BY <2>1, <2>6, <2>8, <3>1
    <2>10. (u \o e) \o v \in Seq(Table!Dims) /\ Len((u \o e) \o v) = 3
        BY <2>1, <2>7, <2>9, ConcatProperties
    <2>11. Len(d) = 3
        BY <1>1
    <2>12. Table!Move(from, to) = (u \o e) \o v
        BY <1>3, <2>4, <2>11 DEF Table!Move, Table!InsertAt, Table!RemoveAt, r, s, t, u, v, e
    <2>13. \A m : m \in Seq(Table!Dims) /\ Len(m) = 3 => m \in [1..3 -> Table!Dims]
        OBVIOUS
    <2> QED BY <2>10, <2>12, <2>13
<1> QED BY <1>2, <1>3

LEMMA Dropped ==
    ASSUME NEW s \in Seq(Columns), NEW r
    PROVE  Table!Without(s, r) \in Seq(Columns)
<1> DEFINE pieces == [i \in DOMAIN s |-> IF s[i] = r THEN <<>> ELSE <<s[i]>>]
<1>1. Table!Without(s, r) = FlattenSeq(pieces)
    BY DEF Table!Without, Table!FlattenSeq, FlattenSeq
<1>2. \A i \in DOMAIN s : pieces[i] \in {<<s[i]>>, <<>>}
    OBVIOUS
<1>3. pieces = [i \in DOMAIN s |-> pieces[i]]
    OBVIOUS
<1> HIDE DEF pieces
<1> QED BY <1>1, <1>2, <1>3, Filtering

LEMMA TableStep == TableInv /\ [Table!Next]_Table!tableVars => TableInv'
<1> SUFFICES ASSUME TableInv, [Table!Next]_Table!tableVars PROVE TableInv'
    OBVIOUS
<1>1. ASSUME UNCHANGED runIds, dimOrder' \in [1..3 -> Table!Dims], dragging' \in 0..3
      PROVE  TableInv'
    BY <1>1 DEF TableInv
<1>2. runIds \in Seq(Columns) /\ DOMAIN dimOrder = 1..3 /\ dragging \in 0..3
      /\ dimOrder \in [1..3 -> Table!Dims]
    BY DEF TableInv
<1>3. ASSUME NEW r \in Columns, Table!ToggleRun(r) PROVE TableInv'
    <2>1. runIds' \in Seq(Columns)
        <3>1. Table!Without(runIds, r) \in Seq(Columns)
            BY <1>2, Dropped
        <3>2. Append(runIds, r) \in Seq(Columns)
            BY <1>2
        <3> QED BY <1>3, <3>1, <3>2 DEF Table!ToggleRun, Table!SetRuns
    <2>2. dimOrder' \in [1..3 -> Table!Dims] /\ dragging' \in 0..3
        BY <1>2, <1>3, PlainOrder DEF Table!ToggleRun, Table!SetRuns
    <2> QED BY <2>1, <2>2 DEF TableInv
<1>4. ASSUME NEW i \in DOMAIN dimOrder, Table!Arrow(i, 1) \/ Table!Arrow(i, -1) PROVE TableInv'
    <2>1. PICK to : dimOrder' = Table!Move(i, to)
        BY <1>4 DEF Table!Arrow
    <2>2. UNCHANGED <<runIds, dragging>>
        BY <1>4 DEF Table!Arrow
    <2> QED BY <1>1, <1>2, <2>1, <2>2, Moved
<1>5. ASSUME NEW i \in DOMAIN dimOrder, Table!DragStart(i) PROVE TableInv'
    BY <1>1, <1>2, <1>5 DEF Table!DragStart
<1>6. ASSUME NEW i \in DOMAIN dimOrder, Table!Drop(i) PROVE TableInv'
    <2>1. dragging \in 1..3 /\ dimOrder' = Table!Move(dragging, i)
        BY <1>2, <1>6 DEF Table!Drop
    <2>2. dimOrder' \in [1..3 -> Table!Dims]
        BY <2>1, Moved
    <2> QED BY <1>1, <1>6, <2>2 DEF Table!Drop
<1> QED
    BY <1>1, <1>2, <1>3, <1>4, <1>5, <1>6 DEF Table!Next, Table!GradesAnswer, Table!DragEnd,
       Table!ToggleRow, Table!tableVars

\* The lexicographic order, written out.
Value(r, k) == Coords[r][dimOrder[k]]
LEMMA BeforeIs ==
    ASSUME TableInv, NEW r \in Columns, NEW q \in Columns
    PROVE  /\ \A k \in 1..3 : Value(r, k) \in Nat /\ Value(q, k) \in Nat
           /\ Table!BeforeByDims(r, q) <=>
                  \/ Value(r, 1) < Value(q, 1)
                  \/ Value(r, 1) = Value(q, 1) /\ Value(r, 2) < Value(q, 2)
                  \/ /\ Value(r, 1) = Value(q, 1) /\ Value(r, 2) = Value(q, 2)
                     /\ Value(r, 3) < Value(q, 3)
<1>1. DOMAIN dimOrder = 1..3 /\ \A k \in 1..3 : dimOrder[k] \in Table!Dims
    BY DEF TableInv
<1>2. \A k \in 1..3 : Value(r, k) \in Nat /\ Value(q, k) \in Nat
    BY <1>1, TableAssumption DEF Value
<1>3. Table!BeforeByDims(r, q) <=>
          \E k \in 1..3 : /\ Value(r, k) < Value(q, k)
                          /\ \A j \in 1..(k - 1) : Value(r, j) = Value(q, j)
    BY <1>1 DEF Table!BeforeByDims, Value
<1>4. 1..3 = {1, 2, 3} /\ 1..(1 - 1) = {} /\ 1..(2 - 1) = {1} /\ 1..(3 - 1) = {1, 2}
    OBVIOUS
<1> QED BY <1>2, <1>3, <1>4

\* A column stands before another one in the order, and ties keep the order of the ticks.
Precedes(i, j) ==
    \/ Table!BeforeByDims(runIds[i], runIds[j])
    \/ ~Table!BeforeByDims(runIds[j], runIds[i]) /\ i < j
LEMMA PrecedesRanks ==
    ASSUME TableInv
    PROVE  Ranks(DOMAIN runIds, [j \in DOMAIN runIds |-> {i \in DOMAIN runIds : Precedes(i, j)}])
<1> DEFINE D == DOMAIN runIds
           above == [j \in D |-> {i \in D : Precedes(i, j)}]
<1>1. \A i \in D : runIds[i] \in Columns /\ i \in Nat
    BY DEF TableInv
<1>2. \A i, j \in D : i \in above[j] <=> Precedes(i, j)
    OBVIOUS
<1>3. \A j \in D : above[j] \subseteq D
    OBVIOUS
<1> HIDE DEF above
<1>4. ASSUME NEW i \in D PROVE ~Precedes(i, i)
    BY <1>1, BeforeIs DEF Precedes
<1>5. ASSUME NEW i \in D, NEW j \in D, NEW k \in D, Precedes(i, j), Precedes(j, k)
      PROVE  Precedes(i, k)
    <2> DEFINE a == runIds[i]
               b == runIds[j]
               c == runIds[k]
    <2>1. a \in Columns /\ b \in Columns /\ c \in Columns /\ i \in Nat /\ j \in Nat /\ k \in Nat
        BY <1>1
    <2> HIDE DEF a, b, c
    <2>2. /\ \A m \in 1..3 : Value(a, m) \in Nat /\ Value(b, m) \in Nat /\ Value(c, m) \in Nat
        BY <2>1, BeforeIs
    <2> QED BY <1>5, <2>1, <2>2, BeforeIs DEF Precedes, a, b, c
<1>6. ASSUME NEW i \in D, NEW j \in D, i # j PROVE Precedes(i, j) \/ Precedes(j, i)
    BY <1>1, <1>6 DEF Precedes
<1>7. \A x \in D : above[x] \subseteq D /\ x \notin above[x]
    BY <1>2, <1>3, <1>4
<1>8. \A x \in D : \A y \in above[x] : above[y] \subseteq above[x]
    BY <1>2, <1>3, <1>5
<1>9. \A x, y \in D : x = y \/ x \in above[y] \/ y \in above[x]
    BY <1>2, <1>6
<1>10. Ranks(D, above)
    BY <1>7, <1>8, <1>9 DEF Ranks
<1> QED BY <1>10 DEF above

\* The columns are the ticked runs, sorted: Array.sort is stable.
LEMMA ColumnsSorted ==
    ASSUME TableInv
    PROVE  /\ Table!colOrder \in Seq(DOMAIN runIds) /\ ToSet(Table!colOrder) = DOMAIN runIds
           /\ DOMAIN Table!colOrder = DOMAIN runIds
           /\ \A i, j \in DOMAIN runIds :
                  i < j <=> Precedes(Table!colOrder[i], Table!colOrder[j])
<1> DEFINE D == DOMAIN runIds
           above == [j \in D |-> {i \in D : Precedes(i, j)}]
           s == Table!colOrder
<1>1. D = 1..Len(runIds) /\ Len(runIds) \in Nat
    BY DEF TableInv
<1>2. IsFiniteSet(D) /\ Cardinality(D) = Len(runIds)
    <2>1. \A n \in Nat : IsFiniteSet(1..n) /\ Cardinality(1..n) = n
        BY FS_Interval
    <2> QED BY <1>1, <2>1
<1>3. s = [i \in 1..Table!Cardinality(D) |->
              CHOOSE x \in D : Table!Cardinality({y \in D : Precedes(y, x)}) + 1 = i]
    BY DEF Table!colOrder, Table!SortedPositions, Table!Ordered, Precedes
<1>4. \A S : Table!Cardinality(S) = Cardinality(S)
    BY DEF Table!Cardinality, Cardinality
<1>5. \A x \in D : above[x] = {y \in D : Precedes(y, x)}
    OBVIOUS
<1>6. Ranks(D, above)
    BY PrecedesRanks
<1>7. \A i, j \in D : i \in above[j] <=> Precedes(i, j)
    OBVIOUS
<1>8. Ranked(D, above, s)
    <2> DEFINE Above(x) == {y \in D : Precedes(y, x)}
               First(i) == CHOOSE x \in D : Table!Cardinality(Above(x)) + 1 = i
    <2>1. s = [i \in 1..Table!Cardinality(D) |-> First(i)]
        BY <1>3
    <2>2. \A x \in D : Above(x) = above[x]
        BY <1>5
    <2>3. ASSUME NEW i \in DOMAIN s, NEW x \in D, Cardinality(above[x]) + 1 = i
          PROVE  s[i] \in D /\ Cardinality(above[s[i]]) + 1 = i
        <3>1. s[i] = First(i)
            BY <2>1
        <3> HIDE DEF s, Above, above
        <3>2. Table!Cardinality(Above(x)) + 1 = i
            BY <1>4, <2>2, <2>3
        <3>3. s[i] \in D /\ Table!Cardinality(Above(s[i])) + 1 = i
            BY <3>1, <3>2
        <3> QED BY <1>4, <2>2, <3>3
    <2>4. DOMAIN s = 1..Cardinality(D) /\ s = [i \in DOMAIN s |-> s[i]]
        <3> HIDE DEF First, s
        <3> QED BY <1>4, <2>1
    <2> HIDE DEF s, above
    <2> QED BY <2>3, <2>4 DEF Ranked
<1> HIDE DEF s, above
<1>9. /\ s \in Seq(D) /\ ToSet(s) = D /\ DOMAIN s = 1..Cardinality(D)
      /\ \A i, j \in DOMAIN s : i < j <=> s[i] \in above[s[j]]
    BY <1>2, <1>6, <1>8, Sorted
<1>10. \A i \in DOMAIN s : s[i] \in D
    <2>1. \A i \in DOMAIN s : s[i] \in ToSet(s)
        BY DEF ToSet
    <2> QED BY <1>9, <2>1
<1> QED BY <1>1, <1>2, <1>7, <1>9, <1>10 DEF s

\* The value of a column on a dimension, and the columns at which it changes.
Shows(c, k) == Value(runIds[Table!colOrder[c]], k)
Changes(k) == {c \in DOMAIN runIds : c = 1 \/ Shows(c, k) # Shows(c - 1, k)}

LEMMA ColumnsShow ==
    ASSUME TableInv
    PROVE  /\ DOMAIN runIds = 1..Len(runIds) /\ Len(runIds) \in Nat
           /\ \A c \in DOMAIN runIds : /\ Table!colOrder[c] \in DOMAIN runIds
                                       /\ runIds[Table!colOrder[c]] \in Columns
                                       /\ \A k \in 1..3 : Shows(c, k) \in Nat
           /\ \A k \in 1..3 : Table!Starts(dimOrder[k]) = Changes(k)
           /\ \A c : Table!Column(c).run = runIds[Table!colOrder[c]]
           /\ \A c, k : Shows(c, k) = Table!Column(c).coords[dimOrder[k]]
<1>1. DOMAIN runIds = 1..Len(runIds) /\ Len(runIds) \in Nat
      /\ \A i \in DOMAIN runIds : runIds[i] \in Columns
    BY DEF TableInv
<1>2. \A c \in DOMAIN runIds : Table!colOrder[c] \in DOMAIN runIds
    BY ColumnsSorted
<1>3. \A c \in DOMAIN runIds : \A k \in 1..3 : Shows(c, k) \in Nat
    BY <1>1, <1>2, BeforeIs DEF Shows
<1>4. \A c : /\ Table!Column(c).run = runIds[Table!colOrder[c]]
             /\ Table!Column(c).coords = Coords[runIds[Table!colOrder[c]]]
    BY DEF Table!Column
<1>5. \A c, k : Shows(c, k) = Table!Column(c).coords[dimOrder[k]]
    BY <1>4 DEF Shows, Value
<1>6. \A k \in 1..3 : Table!Starts(dimOrder[k]) = Changes(k)
    BY <1>5 DEF Table!Starts, Changes
<1> QED BY <1>1, <1>2, <1>3, <1>4, <1>5, <1>6

\* A cell of a header row spans the columns up to the next change.
LEMMA CellsTile ==
    ASSUME TableInv, NEW k \in 1..3, NEW c \in Changes(k),
           NEW d \in c..(c + Table!PivotRow(dimOrder[k])[c].span - 1)
    PROVE  d \in DOMAIN runIds /\ Shows(d, k) = Shows(c, k)
<1> DEFINE n == Len(runIds)
           later == {e \in Changes(k) \cup {n + 1} : e > c}
           next == Table!Min(later)
<1>1. DOMAIN runIds = 1..n /\ n \in Nat
    BY ColumnsShow
<1>2. c \in 1..n /\ Changes(k) \subseteq 1..n
    BY <1>1 DEF Changes
<1>3. later \in SUBSET Nat /\ n + 1 \in later
    BY <1>1, <1>2
<1>4. Table!PivotRow(dimOrder[k])[c].span = next - c
    BY ColumnsShow DEF Table!PivotRow
<1>5. next \in later /\ \A e \in later : next <= e
    <2> HIDE DEF later
    <2>1. later # {}
        BY <1>3
    <2>2. \E e \in later : \A m \in later : e <= m
        BY <1>3, <2>1, Least
    <2> QED BY <2>2 DEF Table!Min
<1>6. next \in Nat /\ next <= n + 1 /\ next > c
    BY <1>3, <1>5
<1> HIDE DEF next
<1>7. d \in Nat /\ c <= d /\ d < next
    BY <1>2, <1>4, <1>6
<1>8. \A e \in 1..n : c < e /\ e <= d => e \notin Changes(k)
    BY <1>5, <1>6, <1>7
<1> HIDE DEF later
<1>9. d \in 1..n
    BY <1>2, <1>6, <1>7
<1>10. Shows(d, k) = Shows(c, k)
    <2> DEFINE Odd == {e \in c..d : Shows(e, k) # Shows(c, k)}
    <2> SUFFICES ASSUME Shows(d, k) # Shows(c, k) PROVE FALSE
        OBVIOUS
    <2>1. Odd \in SUBSET Nat /\ d \in Odd
        BY <1>2, <1>7
    <2>2. PICK e \in Odd : \A m \in Odd : e <= m
        <3> HIDE DEF Odd
        <3> QED BY <2>1, Least
    <2>3. e \in c..d /\ Shows(e, k) # Shows(c, k) /\ e # c
        BY <2>2
    <2>4. e - 1 \in c..d /\ e - 1 \notin Odd
        BY <1>2, <1>7, <2>2, <2>3
    <2>5. Shows(e - 1, k) = Shows(c, k)
        BY <2>4
    <2>6. e \in Changes(k)
        BY <1>1, <1>2, <1>9, <2>3, <2>5 DEF Changes
    <2>7. e \in 1..n /\ c < e /\ e <= d
        BY <1>2, <1>9, <2>3
    <2> QED BY <1>8, <2>6, <2>7
<1> QED BY <1>1, <1>9, <1>10

\* A later column is never before an earlier one.
LEMMA ColumnsAscend ==
    ASSUME TableInv, NEW c \in DOMAIN runIds, NEW d \in DOMAIN runIds, c < d,
           NEW k \in 1..3, \A j \in 1..(k - 1) : Shows(c, j) = Shows(d, j)
    PROVE  Shows(c, k) <= Shows(d, k)
<1> DEFINE a == runIds[Table!colOrder[c]]
           b == runIds[Table!colOrder[d]]
<1>1. Precedes(Table!colOrder[c], Table!colOrder[d])
    BY ColumnsSorted
<1>2. a \in Columns /\ b \in Columns
    BY ColumnsShow
<1>3. Table!BeforeByDims(a, b) \/ ~Table!BeforeByDims(b, a)
    BY <1>1 DEF Precedes
<1>4. \A j \in 1..3 : Shows(c, j) = Value(a, j) /\ Shows(d, j) = Value(b, j)
    BY DEF Shows
<1> HIDE DEF a, b
<1>5. \A j \in 1..(k - 1) : Value(a, j) = Value(b, j)
    BY <1>4
<1>6. \A j \in 1..3 : Value(a, j) \in Nat /\ Value(b, j) \in Nat
    BY <1>2, BeforeIs
<1>7. Value(a, k) <= Value(b, k)
    <2>1. k = 1 \/ k = 2 \/ k = 3
        OBVIOUS
    <2>2. /\ k = 2 => Value(a, 1) = Value(b, 1)
          /\ k = 3 => Value(a, 1) = Value(b, 1) /\ Value(a, 2) = Value(b, 2)
        BY <1>5
    <2> QED BY <1>2, <1>3, <1>6, <2>1, <2>2, BeforeIs
<1> QED BY <1>4, <1>7

\* A value comes back in a row only where an outer row changes.
LEMMA ValuesComeBack ==
    ASSUME TableInv, NEW k \in 1..3, NEW c \in Changes(k), NEW d \in Changes(k), c < d,
           Shows(c, k) = Shows(d, k)
    PROVE  \E j \in 1..(k - 1), e \in (c + 1)..d : e \in Changes(j)
<1> SUFFICES ASSUME \A j \in 1..(k - 1), e \in (c + 1)..d : e \notin Changes(j) PROVE FALSE
    OBVIOUS
<1>1. /\ DOMAIN runIds = 1..Len(runIds) /\ Len(runIds) \in Nat
      /\ c \in DOMAIN runIds /\ d \in DOMAIN runIds
      /\ \A e \in c..d : e \in DOMAIN runIds
    BY ColumnsShow DEF Changes
<1>2. ASSUME NEW j \in 1..(k - 1), NEW e \in c..d PROVE Shows(e, j) = Shows(c, j)
    <2> DEFINE Odd == {m \in c..d : Shows(m, j) # Shows(c, j)}
    <2> SUFFICES ASSUME Odd # {} PROVE FALSE
        OBVIOUS
    <2>1. Odd \in SUBSET Nat
        BY <1>1
    <2>2. PICK m \in Odd : \A o \in Odd : m <= o
        <3> HIDE DEF Odd
        <3> QED BY <2>1, Least
    <2>3. m \in c..d /\ Shows(m, j) # Shows(c, j) /\ m # c
        BY <2>2
    <2>4. m - 1 \in c..d /\ m - 1 \notin Odd
        BY <1>1, <2>2, <2>3
    <2>5. Shows(m - 1, j) = Shows(c, j)
        BY <2>4
    <2>6. m \in Changes(j) /\ m \in (c + 1)..d
        BY <1>1, <2>3, <2>5 DEF Changes
    <2> QED BY <2>6
<1>3. Shows(d, k) # Shows(d - 1, k) /\ d - 1 \in c..d /\ d - 1 \in DOMAIN runIds /\ d - 1 # c
    BY <1>1 DEF Changes
<1>4. \A j \in 1..(k - 1) : Shows(c, j) = Shows(d - 1, j) /\ Shows(d - 1, j) = Shows(d, j)
    BY <1>1, <1>2, <1>3
<1>5. c < d - 1 /\ d - 1 < d
    BY <1>1, <1>3
<1>6. Shows(c, k) <= Shows(d - 1, k)
    BY <1>1, <1>3, <1>4, <1>5, ColumnsAscend
<1>7. Shows(d - 1, k) <= Shows(d, k)
    BY <1>1, <1>3, <1>4, <1>5, ColumnsAscend
<1>8. Shows(c, k) \in Nat /\ Shows(d - 1, k) \in Nat /\ Shows(d, k) \in Nat
    BY <1>1, <1>3, ColumnsShow
<1> QED BY <1>3, <1>6, <1>7, <1>8

\* For any ticked runs, any names and any pivot the header is a pivot of the columns:
\* each run is a column with its own grade, the cells of a row tile the columns with the value of the run
\* under them, and a value comes back in a row only where an outer row changes
\* (PivotIsFaithful, GradeMatrixTable of compare.tsx).
THEOREM PivotsAreFaithful == PagesSpec => []PivotIsFaithful
<1>1. Table!Init => TableInv
    BY PlainOrder DEF Table!Init, TableInv
<1>2. TableInv => PivotIsFaithful
    <2> SUFFICES ASSUME TableInv PROVE Table!PivotIsFaithful
        BY DEF PivotIsFaithful
    <2>1. {Table!Column(c).run : c \in DOMAIN runIds} = Table!ToSet(runIds)
        <3>1. ToSet(Table!colOrder) = DOMAIN runIds /\ DOMAIN Table!colOrder = DOMAIN runIds
            BY ColumnsSorted
        <3>2. \A i \in DOMAIN runIds : \E c \in DOMAIN runIds : Table!colOrder[c] = i
            BY <3>1 DEF ToSet
        <3>3. \A c \in DOMAIN runIds : Table!colOrder[c] \in DOMAIN runIds
                                       /\ Table!Column(c).run = runIds[Table!colOrder[c]]
            BY ColumnsShow
        <3>4. Table!ToSet(runIds) = {runIds[i] : i \in DOMAIN runIds}
            BY DEF Table!ToSet
        <3>5. ASSUME NEW c \in DOMAIN runIds PROVE Table!Column(c).run \in Table!ToSet(runIds)
            BY <3>3, <3>4
        <3>6. ASSUME NEW r \in Table!ToSet(runIds)
              PROVE  \E c \in DOMAIN runIds : r = Table!Column(c).run
            <4>1. PICK i \in DOMAIN runIds : r = runIds[i]
                BY <3>4
            <4>2. PICK c \in DOMAIN runIds : Table!colOrder[c] = i
                BY <3>2
            <4> QED BY <3>3, <4>1, <4>2
        <3> QED BY <3>5, <3>6
    <2>2. ASSUME NEW k \in DOMAIN dimOrder
          PROVE  LET row == Table!PivotRow(dimOrder[k]) IN
                 /\ \A c \in DOMAIN row : \A d \in c..c + row[c].span - 1 :
                        Coords[Table!Column(d).run][dimOrder[k]] = row[c].value
                 /\ \A c, d \in DOMAIN row :
                        c < d /\ row[c].value = row[d].value =>
                            \E j \in 1..k - 1, e \in c + 1..d : e \in Table!Starts(dimOrder[j])
        <3> DEFINE row == Table!PivotRow(dimOrder[k])
        <3>1. k \in 1..3
            BY <2>2 DEF TableInv
        <3>2. DOMAIN row = Changes(k) /\ \A c \in Changes(k) : row[c].value = Shows(c, k)
            BY <3>1, ColumnsShow DEF Table!PivotRow
        <3>3. \A d : Coords[Table!Column(d).run][dimOrder[k]] = Shows(d, k)
            BY ColumnsShow DEF Shows, Value
        <3>4. \A c \in Changes(k) : \A d \in c..(c + row[c].span - 1) : Shows(d, k) = Shows(c, k)
            BY <3>1, CellsTile
        <3> HIDE DEF row
        <3>5. ASSUME NEW c \in Changes(k), NEW d \in Changes(k), c < d,
                     row[c].value = row[d].value
              PROVE  \E j \in 1..(k - 1), e \in (c + 1)..d : e \in Table!Starts(dimOrder[j])
            <4>1. PICK j \in 1..(k - 1), e \in (c + 1)..d : e \in Changes(j)
                BY <3>1, <3>2, <3>5, ValuesComeBack
            <4>2. Table!Starts(dimOrder[j]) = Changes(j)
                BY <3>1, <4>1, ColumnsShow
            <4> QED BY <4>1, <4>2
        <3>6. \A c \in DOMAIN row : \A d \in c..c + row[c].span - 1 :
                  Coords[Table!Column(d).run][dimOrder[k]] = row[c].value
            BY <3>2, <3>3, <3>4
        <3>7. \A c, d \in DOMAIN row :
                  c < d /\ row[c].value = row[d].value =>
                      \E j \in 1..k - 1, e \in c + 1..d : e \in Table!Starts(dimOrder[j])
            BY <3>2, <3>5
        <3> QED BY <3>6, <3>7 DEF row
    <2>3. ASSUME NEW c \in DOMAIN runIds
          PROVE  Table!Column(c).grade = Table!GradeOf(Table!Column(c).run)
        <3>1. Table!colOrder[c] \in DOMAIN runIds
              /\ Table!Column(c).run = runIds[Table!colOrder[c]]
            BY ColumnsShow
        <3>2. Table!Column(c).grade = Table!grades[Table!colOrder[c]]
            BY DEF Table!Column
        <3> QED BY <3>1, <3>2 DEF Table!grades
    <2> QED BY <2>1, <2>2, <2>3 DEF Table!PivotIsFaithful
<1> QED BY <1>1, <1>2, TableStep, TablePlays, PTL DEF Table!Spec

--------------------------------------------------------------------------------
(* The launcher.                                                                   *)

LEMMA LauncherPlays == PagesSpec => Launcher!Spec
<1>1. PagesInit => Launcher!Init
    BY DEF PagesInit
<1>2. [PagesNext]_pagesVars => [Launcher!Next]_Launcher!launchVars
    BY DEF PagesNext, On, pagesVars, launchVars, Launcher!launchVars
<1> QED BY <1>1, <1>2, PTL DEF PagesSpec, Launcher!Spec, pagesVars

LEMMA LauncherOperators ==
    ASSUME NEW s
    PROVE  /\ Launcher!ToSet(s) = ToSet(s)
           /\ Launcher!Cardinality(s) = Cardinality(s)
           /\ Launcher!SetToSeq(s) = SetToSeq(s)
<1>1. Launcher!ToSet(s) = ToSet(s)
    BY DEF Launcher!ToSet, ToSet
<1>2. \A S : Launcher!Cardinality(S) = Cardinality(S)
    BY DEF Launcher!Cardinality, Cardinality
<1>3. Launcher!SetToSeq(s) = SetToSeq(s)
    BY <1>2 DEF Launcher!SetToSeq, SetToSeq, Launcher!IsInjective, IsInjective
<1> QED BY <1>1, <1>2, <1>3

LEMMA DefaultIsListed ==
    ASSUME NEW c
    PROVE  /\ Launcher!DefaultExecutor(c) \in ToSet(Executors)
           /\ (\E e \in ToSet(Executors) : e \in Enabled) => Launcher!DefaultExecutor(c) \in Enabled
<1> DEFINE I == {i \in 1..Len(Executors) : Executors[i] \in Enabled}
           first == Launcher!SelectInSeq(Executors, LAMBDA e : e \in Enabled)
<1>1. /\ DOMAIN Executors = 1..Len(Executors) /\ Len(Executors) \in Nat /\ 1 \in DOMAIN Executors
    BY LaunchAssumption
<1>2. first = IF I # {} THEN Launcher!Min(I) ELSE 0
    BY DEF Launcher!SelectInSeq
<1>3. I # {} => Launcher!Min(I) \in I
    <2> SUFFICES ASSUME I # {} PROVE Launcher!Min(I) \in I
        OBVIOUS
    <2>1. I \in SUBSET Nat
        BY <1>1
    <2> HIDE DEF I
    <2>2. \E n \in I : \A m \in I : n <= m
        BY <2>1, Least
    <2> QED BY <2>2 DEF Launcher!Min
<1>4. Launcher!DefaultExecutor(c) = Executors[IF first = 0 THEN 1 ELSE first]
    BY DEF Launcher!DefaultExecutor
<1> HIDE DEF first
<1>5. CASE I = {}
    BY <1>1, <1>2, <1>4, <1>5 DEF ToSet
<1>6. CASE I # {}
    <2>1. first \in 1..Len(Executors) /\ Executors[first] \in Enabled /\ first # 0
        BY <1>1, <1>2, <1>3, <1>6
    <2> QED BY <1>1, <1>4, <2>1 DEF ToSet
<1> QED BY <1>5, <1>6

FormFields == {"preset", "tasks", "harnesses", "executors", "models", "size", "instructions",
               "roles", "extensions", "mounted"}
Known == ModelsBefore \cup ModelsAfter
Catalogues == [tasks : BOOLEAN, executors : BOOLEAN, extensions : BOOLEAN, models : SUBSET Known]
FormTyped(f) ==
    /\ DOMAIN f = FormFields /\ f = [x \in FormFields |-> f[x]]
    /\ f.tasks \subseteq ToSet(Tasks)
    /\ f.executors \subseteq ToSet(Executors)
    /\ f.models \subseteq Known
\* The form at rest offers what it has picked.
FormInv ==
    /\ catalogue \in Catalogues
    /\ FormTyped(form)
    /\ form.models \subseteq Launcher!VisibleModels(catalogue, form.executors)

\* The effects pick what is listed and drop the models that are not offered.
LEMMA FormSettles ==
    ASSUME NEW f, FormTyped(f), NEW c
    PROVE  /\ FormTyped(Launcher!Settled(c, f))
           /\ Launcher!Settled(c, f).models
                \subseteq Launcher!VisibleModels(c, Launcher!Settled(c, f).executors)
           /\ Launcher!Settled(c, f).executors
                \in {f.executors, {Launcher!DefaultExecutor(c)}}
<1> DEFINE g == Launcher!Settled(c, f)
           executors == IF f.executors = {} /\ c.executors THEN {Launcher!DefaultExecutor(c)}
                        ELSE f.executors
<1>1. DOMAIN f = FormFields
    BY DEF FormTyped
<1>2. /\ DOMAIN g = FormFields /\ g = [x \in FormFields |-> g[x]]
      /\ g.executors = executors
      /\ g.tasks \in {f.tasks, {Tasks[1]}}
      /\ g.models = f.models \cap Launcher!VisibleModels(c, executors)
    BY <1>1 DEF Launcher!Settled, FormFields
<1>3. Tasks[1] \in ToSet(Tasks)
    BY LaunchAssumption DEF ToSet
<1>4. executors \subseteq ToSet(Executors) /\ executors \in {f.executors, {Launcher!DefaultExecutor(c)}}
    BY DefaultIsListed DEF FormTyped
<1> HIDE DEF g, executors
<1>5. FormTyped(g)
    BY <1>2, <1>3, <1>4 DEF FormTyped
<1> QED BY <1>2, <1>4, <1>5 DEF g

LEMMA FormEdited ==
    ASSUME FormInv, NEW f, FormTyped(f), Launcher!Edit(f)
    PROVE  FormInv'
<1>1. form' = Launcher!Settled(catalogue, f) /\ catalogue' = catalogue
    BY DEF Launcher!Edit
<1>2. /\ FormTyped(form')
      /\ form'.models \subseteq Launcher!VisibleModels(catalogue, form'.executors)
    BY <1>1, FormSettles
<1> QED BY <1>1, <1>2 DEF FormInv, FormTyped, Launcher!VisibleModels

LEMMA FormArrival ==
    ASSUME FormInv, NEW c \in Catalogues, Launcher!Arrive(c)
    PROVE  FormInv'
<1>1. form' = Launcher!Settled(c, form) /\ catalogue' = c
    BY DEF Launcher!Arrive
<1>2. /\ FormTyped(form')
      /\ form'.models \subseteq Launcher!VisibleModels(c, form'.executors)
    BY <1>1, FormSettles DEF FormInv
<1> QED BY <1>1, <1>2 DEF FormInv, FormTyped, Launcher!VisibleModels

\* Every edit touches one field of the form.
LEMMA FormFieldSet ==
    ASSUME NEW f, FormTyped(f), NEW v
    PROVE  /\ v \subseteq ToSet(Tasks) => FormTyped([f EXCEPT !.tasks = v])
           /\ v \subseteq ToSet(Executors) => FormTyped([f EXCEPT !.executors = v])
           /\ v \subseteq Known => FormTyped([f EXCEPT !.models = v])
           /\ FormTyped([f EXCEPT !.harnesses = v]) /\ FormTyped([f EXCEPT !.size = v])
           /\ FormTyped([f EXCEPT !.instructions = v]) /\ FormTyped([f EXCEPT !.roles = v])
           /\ FormTyped([f EXCEPT !.extensions = v])
BY DEF FormTyped, FormFields

LEMMA FormStep ==
    ASSUME FormInv,
           \/ Launcher!EditNext \/ Launcher!TasksArrive \/ Launcher!ExecutorsArrive
           \/ Launcher!ExtensionsArrive \/ Launcher!ModelsArrive \/ Launcher!RefreshModels
    PROVE  FormInv'
<1>1. FormTyped(form) /\ catalogue \in Catalogues
    BY DEF FormInv
<1>2. ASSUME NEW t \in Launcher!ToSet(Tasks), Launcher!ToggleTask(t) PROVE FormInv'
    <2> DEFINE v == Launcher!Flip(form.tasks, t)
    <2>1. Launcher!Edit([form EXCEPT !.tasks = v])
        BY <1>2 DEF Launcher!ToggleTask
    <2>2. v \subseteq ToSet(Tasks)
        BY <1>1, <1>2, LauncherOperators DEF Launcher!Flip, FormTyped
    <2> HIDE DEF v
    <2> QED BY <1>1, <2>1, <2>2, FormFieldSet, FormEdited
<1>3. ASSUME NEW e \in Launcher!ToSet(Executors), Launcher!ToggleExecutor(e) PROVE FormInv'
    <2> DEFINE v == Launcher!Flip(form.executors, e)
    <2>1. Launcher!Edit([form EXCEPT !.executors = v])
        BY <1>3 DEF Launcher!ToggleExecutor
    <2>2. v \subseteq ToSet(Executors)
        BY <1>1, <1>3, LauncherOperators DEF Launcher!Flip, FormTyped
    <2> HIDE DEF v
    <2> QED BY <1>1, <2>1, <2>2, FormFieldSet, FormEdited
<1>4. ASSUME NEW m \in Known, Launcher!ToggleModel(m) PROVE FormInv'
    <2> DEFINE v == Launcher!Flip(form.models, m)
    <2>1. Launcher!Edit([form EXCEPT !.models = v])
        BY <1>4 DEF Launcher!ToggleModel
    <2>2. v \subseteq Known
        BY <1>1 DEF Launcher!Flip, FormTyped
    <2> HIDE DEF v
    <2> QED BY <1>1, <2>1, <2>2, FormFieldSet, FormEdited
<1>5. ASSUME NEW v,
             \/ Launcher!Edit([form EXCEPT !.harnesses = v]) \/ Launcher!Edit([form EXCEPT !.size = v])
             \/ Launcher!Edit([form EXCEPT !.instructions = v])
             \/ Launcher!Edit([form EXCEPT !.roles = v]) \/ Launcher!Edit([form EXCEPT !.extensions = v])
      PROVE  FormInv'
    BY <1>1, <1>5, FormFieldSet, FormEdited
<1>6. ASSUME NEW x,
             \/ Launcher!ToggleHarness(x) \/ Launcher!SetSize(x) \/ Launcher!TypeInstructions(x)
             \/ Launcher!ToggleExtension(x)
      PROVE  FormInv'
    BY <1>5, <1>6 DEF Launcher!ToggleHarness, Launcher!SetSize, Launcher!TypeInstructions,
       Launcher!ToggleExtension
<1>7. ASSUME Launcher!RolesNext PROVE FormInv'
    BY <1>5, <1>7 DEF Launcher!RolesNext, Launcher!EditName, Launcher!EditPrompt,
       Launcher!RemoveRole, Launcher!MoveRole, Launcher!AddRole, Launcher!EditRoles
<1>8. ASSUME Launcher!EditNext PROVE FormInv'
    BY <1>2, <1>3, <1>4, <1>6, <1>7, <1>8 DEF Launcher!EditNext, Known
<1>9. ASSUME \/ Launcher!TasksArrive \/ Launcher!ExecutorsArrive \/ Launcher!ExtensionsArrive
             \/ Launcher!ModelsArrive \/ Launcher!RefreshModels
      PROVE  FormInv'
    <2>1. /\ [catalogue EXCEPT !.tasks = TRUE] \in Catalogues
          /\ [catalogue EXCEPT !.executors = TRUE] \in Catalogues
          /\ [catalogue EXCEPT !.extensions = TRUE] \in Catalogues
          /\ [catalogue EXCEPT !.models = ModelsBefore] \in Catalogues
          /\ [catalogue EXCEPT !.models = ModelsAfter] \in Catalogues
        BY <1>1 DEF Catalogues, Known
    <2> QED BY <1>9, <2>1, FormArrival DEF Launcher!TasksArrive, Launcher!ExecutorsArrive,
               Launcher!ExtensionsArrive, Launcher!ModelsArrive, Launcher!RefreshModels
<1> QED BY <1>8, <1>9

LEMMA FormKept ==
    ASSUME FormInv, Launcher!Launch \/ (\E i, ok : Launcher!Answer(i, ok)) \/ UNCHANGED Launcher!launchVars
    PROVE  FormInv'
<1>1. UNCHANGED <<catalogue, form>>
    BY DEF Launcher!Launch, Launcher!Answer, Launcher!launchVars
<1> QED BY <1>1 DEF FormInv, FormTyped, Launcher!VisibleModels

LEMMA FormInit == Launcher!Init => FormInv
<1> SUFFICES ASSUME NEW preset \in BOOLEAN, Launcher!Mounted(preset) PROVE FormInv
    BY DEF Launcher!Init
<1>1. Tasks[1] \in ToSet(Tasks)
    BY LaunchAssumption DEF ToSet
<1>2. /\ form.tasks \in {{}, {Tasks[1]}} /\ form.executors = {} /\ form.models = {}
      /\ DOMAIN form = FormFields /\ form = [x \in FormFields |-> form[x]]
    BY DEF Launcher!Mounted, FormFields
<1>3. catalogue \in Catalogues
    BY DEF Launcher!Mounted, Catalogues
<1> QED BY <1>1, <1>2, <1>3 DEF FormInv, FormTyped

--------------------------------------------------------------------------------
(* The requests of a launch.                                                       *)

LEMMA CellsAreAll ==
    ASSUME NEW P, IsFiniteSet(P)
    PROVE  /\ SetToSeq(P) \in [1..Cardinality(P) -> P]
           /\ Cardinality(P) \in Nat
<1>1. Cardinality(P) \in Nat /\ ExistsBijection(1..Cardinality(P), P)
    BY FS_CardinalityType
<1>2. PICK f \in [1..Cardinality(P) -> P] : IsInjective(f)
    BY <1>1 DEF ExistsBijection, Bijection, Injection, IsInjective
<1> QED BY <1>1, <1>2 DEF SetToSeq

LEMMA MatrixSize ==
    ASSUME NEW S, IsFiniteSet(S), NEW T, IsFiniteSet(T), NEW U, IsFiniteSet(U)
    PROVE  /\ IsFiniteSet(S \X T \X U)
           /\ Cardinality(S \X T \X U) = Cardinality(S) * Cardinality(T) * Cardinality(U)
<1> DEFINE P == (S \X T) \X U
           Q == S \X T \X U
           f == [p \in P |-> <<p[1][1], p[1][2], p[2]>>]
<1>1. IsFiniteSet(S \X T) /\ Cardinality(S \X T) = Cardinality(S) * Cardinality(T)
    BY FS_Product
<1>2. IsFiniteSet(P) /\ Cardinality(P) = Cardinality(S) * Cardinality(T) * Cardinality(U)
    BY <1>1, FS_Product
<1>3. f \in Bijection(P, Q)
    <2>1. f \in [P -> Q]
        OBVIOUS
    <2>2. \A p, q \in P : f[p] = f[q] => p = q
        OBVIOUS
    <2>3. ASSUME NEW y \in Q PROVE \E p \in P : f[p] = y
        <3>1. <<<<y[1], y[2]>>, y[3]>> \in P /\ f[<<<<y[1], y[2]>>, y[3]>>] = y
            OBVIOUS
        <3> QED BY <3>1
    <2> QED BY <2>1, <2>2, <2>3 DEF Bijection, Injection, Surjection, IsInjective
<1>4. ExistsBijection(P, Q)
    BY <1>3 DEF ExistsBijection
<1> HIDE DEF P, Q, f
<1>5. IsFiniteSet(Q) /\ Cardinality(Q) = Cardinality(P)
    BY <1>2, <1>4, FS_Bijection
<1> QED BY <1>2, <1>5 DEF Q

LEMMA ListedIsFinite ==
    ASSUME NEW s, s \in Seq(ToSet(s))
    PROVE  IsFiniteSet(ToSet(s))
<1>1. s \in Seq(ToSet(s)) /\ DOMAIN s = 1..Len(s)
    OBVIOUS
<1> QED BY <1>1 DEF IsFiniteSet, ToSet

RequestFields == {"launch", "cell", "form", "state"}
\* The requests are told apart by the launch that sent them.
RequestsInv ==
    /\ \E S : requests \in Seq(S)
    /\ \E S : promised \in Seq(S)
    /\ \A i \in DOMAIN requests : DOMAIN requests[i] = RequestFields
                                  /\ requests[i].launch \in 1..Len(promised)

\* What a click with a complete form sends.
LEMMA CellsOfTheForm ==
    ASSUME FormInv
    PROVE  LET cells == Launcher!SetToSeq(Launcher!ExpandLaunchMatrix(form)) IN
           /\ Len(cells) \in Nat /\ DOMAIN cells = 1..Len(cells)
           /\ cells \in Seq(form.tasks \X form.executors \X form.models)
           /\ form.tasks # {} /\ form.executors # {} /\ form.models # {}
                => Launcher!CountExperiments(form) = Len(cells)
<1> DEFINE P == form.tasks \X form.executors \X form.models
           cells == SetToSeq(P)
<1>1. Launcher!SetToSeq(Launcher!ExpandLaunchMatrix(form)) = cells
    BY LauncherOperators DEF Launcher!ExpandLaunchMatrix
<1>2. IsFiniteSet(ToSet(Tasks)) /\ IsFiniteSet(ToSet(Executors)) /\ IsFiniteSet(Known)
    BY LaunchAssumption, ListedIsFinite, FS_Union DEF Known
<1>3. /\ IsFiniteSet(form.tasks) /\ IsFiniteSet(form.executors) /\ IsFiniteSet(form.models)
    BY <1>2, FS_Subset DEF FormInv, FormTyped
<1>4. /\ IsFiniteSet(P)
      /\ Cardinality(P) = Cardinality(form.tasks) * Cardinality(form.executors) * Cardinality(form.models)
    BY <1>3, MatrixSize
<1>5. cells \in [1..Cardinality(P) -> P] /\ Cardinality(P) \in Nat
    BY <1>4, CellsAreAll
<1> HIDE DEF cells
<1>6. cells \in Seq(P) /\ Len(cells) = Cardinality(P) /\ DOMAIN cells = 1..Len(cells)
    <2> DEFINE c == Cardinality(P)
    <2> HIDE DEF c, P
    <2>1. c \in Nat /\ cells \in [1..c -> P]
        BY <1>5 DEF c
    <2> QED BY <2>1 DEF c
<1>7. ASSUME form.tasks # {}, form.executors # {}, form.models # {}
      PROVE  Launcher!CountExperiments(form) = Len(cells)
    <2>1. /\ Cardinality(form.tasks) # 0 /\ Cardinality(form.executors) # 0
          /\ Cardinality(form.models) # 0
        BY <1>3, <1>7, FS_EmptySet
    <2>2. Launcher!CountExperiments(form)
            = Cardinality(form.tasks) * Cardinality(form.executors) * Cardinality(form.models)
        BY <2>1, LauncherOperators DEF Launcher!CountExperiments
    <2> QED BY <1>4, <1>6, <2>2
<1> QED BY <1>1, <1>5, <1>6, <1>7

\* The requests of a click follow the earlier ones, and each carries the form.
LEMMA Sends ==
    ASSUME FormInv, RequestsInv, Launcher!Launch, Launcher!Missing(form) = Launcher!Unset
    PROVE  LET k == Launcher!CountExperiments(form)
               n == Len(promised) + 1 IN
           /\ k \in Nat
           /\ RequestsInv'
           /\ Len(requests) \in Nat /\ DOMAIN requests = 1..Len(requests)
           /\ DOMAIN requests' = 1..(Len(requests) + k)
           /\ \A i \in 1..Len(requests) : requests'[i] = requests[i]
           /\ \A i \in (Len(requests) + 1)..(Len(requests) + k) :
                  /\ requests'[i].launch = n /\ requests'[i].form = form
                  /\ requests'[i].cell \in form.tasks \X form.executors \X form.models
           /\ Len(promised) \in Nat /\ DOMAIN promised = 1..Len(promised) /\ DOMAIN promised' = 1..n
           /\ \A m \in 1..Len(promised) : promised'[m] = promised[m]
           /\ promised'[n] = [experiments |-> k, runs |-> Launcher!TotalRuns(form)]
<1> DEFINE cells == Launcher!SetToSeq(Launcher!ExpandLaunchMatrix(form))
           P == form.tasks \X form.executors \X form.models
           k == Launcher!CountExperiments(form)
           n == Len(promised) + 1
           Sent(i) == [launch |-> n, cell |-> cells[i], form |-> form, state |-> "sent"]
           new == [i \in DOMAIN cells |-> Sent(i)]
           last == [experiments |-> k, runs |-> Launcher!TotalRuns(form)]
<1>1. form.tasks # {} /\ form.executors # {} /\ form.models # {}
    BY DEF Launcher!Launch, Launcher!CanSubmit, Launcher!Missing, Launcher!Unset
<1>2. requests' = requests \o new /\ promised' = Append(promised, last)
    BY DEF Launcher!Launch
<1>3. cells \in Seq(P) /\ DOMAIN cells = 1..k /\ k \in Nat
    BY <1>1, CellsOfTheForm
<1> HIDE DEF cells, k, last
<1>4. PICK S : requests \in Seq(S)
    BY DEF RequestsInv
<1>5. PICK U : promised \in Seq(U)
    BY DEF RequestsInv
<1>6. /\ Len(promised) \in Nat /\ DOMAIN promised = 1..Len(promised) /\ n \in Nat
      /\ promised' \in Seq(U \cup {last}) /\ Len(promised') = n /\ DOMAIN promised' = 1..n
      /\ \A m \in 1..Len(promised) : promised'[m] = promised[m]
      /\ promised'[n] = last
    BY <1>2, <1>5
<1>7. new \in Seq({Sent(i) : i \in 1..k}) /\ Len(new) = k
    <2> DEFINE T == {Sent(i) : i \in 1..k}
    <2>1. \A i \in 1..k : Sent(i) \in T
        OBVIOUS
    <2> HIDE DEF T, Sent
    <2>2. new \in [1..k -> T]
        BY <1>3, <2>1
    <2> HIDE DEF new
    <2>3. new \in Seq(T) /\ Len(new) = k
        BY <1>3, <2>2
    <2> QED BY <2>3 DEF T
<1>8. \A i \in 1..k : new[i] = Sent(i) /\ cells[i] \in P
    BY <1>3
<1> HIDE DEF new, P
<1>9. /\ Len(requests) \in Nat /\ DOMAIN requests = 1..Len(requests)
      /\ requests' \in Seq(S \cup {Sent(i) : i \in 1..k}) /\ DOMAIN requests' = 1..(Len(requests) + k)
      /\ \A i \in 1..Len(requests) : requests'[i] = requests[i]
      /\ \A i \in (Len(requests) + 1)..(Len(requests) + k) : requests'[i] = new[i - Len(requests)]
    <2> DEFINE T == {Sent(i) : i \in 1..k}
    <2> HIDE DEF T, Sent
    <2>1. requests \in Seq(S \cup T) /\ new \in Seq(S \cup T)
        BY <1>4, <1>7 DEF T
    <2> QED BY <1>2, <1>3, <1>7, <2>1 DEF T
<1>10. \A i \in (Len(requests) + 1)..(Len(requests) + k) : requests'[i] = Sent(i - Len(requests))
    <2> SUFFICES ASSUME NEW i \in (Len(requests) + 1)..(Len(requests) + k)
                 PROVE  requests'[i] = Sent(i - Len(requests))
        OBVIOUS
    <2>1. i - Len(requests) \in 1..k
        BY <1>3, <1>9
    <2> QED BY <1>8, <1>9, <2>1
<1>11. \A i \in (Len(requests) + 1)..(Len(requests) + k) :
           /\ requests'[i].launch = n /\ requests'[i].form = form /\ requests'[i].cell \in P
           /\ DOMAIN requests'[i] = RequestFields
    <2> SUFFICES ASSUME NEW i \in (Len(requests) + 1)..(Len(requests) + k)
                 PROVE  /\ requests'[i].launch = n /\ requests'[i].form = form /\ requests'[i].cell \in P
                        /\ DOMAIN requests'[i] = RequestFields
        OBVIOUS
    <2>1. i - Len(requests) \in 1..k
        BY <1>3, <1>9
    <2>2. requests'[i] = Sent(i - Len(requests)) /\ cells[i - Len(requests)] \in P
        BY <1>8, <1>10, <2>1
    <2> QED BY <2>2 DEF RequestFields
<1>12. \A i \in DOMAIN requests' : \/ i \in 1..Len(requests)
                                   \/ i \in (Len(requests) + 1)..(Len(requests) + k)
    BY <1>3, <1>9
<1>13. RequestsInv'
    <2>1. \A i \in DOMAIN requests' : DOMAIN requests'[i] = RequestFields
                                      /\ requests'[i].launch \in 1..Len(promised')
        BY <1>6, <1>9, <1>11, <1>12 DEF RequestsInv
    <2> QED BY <1>6, <1>9, <2>1 DEF RequestsInv
<1> QED BY <1>3, <1>6, <1>9, <1>11, <1>13 DEF k, last, P

\* An answer changes what became of one request, and no other step changes any.
LEMMA LaunchAnswerKeeps ==
    ASSUME RequestsInv, NEW i \in DOMAIN requests, NEW ok, Launcher!Answer(i, ok)
    PROVE  /\ RequestsInv' /\ promised' = promised
           /\ DOMAIN requests' = DOMAIN requests
           /\ \A j \in DOMAIN requests : requests'[j].launch = requests[j].launch
                                         /\ requests'[j].form = requests[j].form
<1>1. PICK v : requests' = [requests EXCEPT ![i] = v]
               /\ v = [requests[i] EXCEPT !.state = IF ok THEN "created" ELSE "failed"]
    BY DEF Launcher!Answer
<1>2. DOMAIN requests[i] = RequestFields /\ promised' = promised
    BY DEF RequestsInv, Launcher!Answer
<1>3. DOMAIN v = RequestFields /\ v.launch = requests[i].launch /\ v.form = requests[i].form
    BY <1>1, <1>2 DEF RequestFields
<1>4. PICK S : requests \in Seq(S)
    BY DEF RequestsInv
<1>5. requests' \in Seq(S \cup {v}) /\ DOMAIN requests' = DOMAIN requests
    BY <1>1, <1>4
<1>6. \A j \in DOMAIN requests : requests'[j] = IF j = i THEN v ELSE requests[j]
    BY <1>1
<1>7. RequestsInv'
    BY <1>2, <1>3, <1>5, <1>6 DEF RequestsInv
<1> QED BY <1>2, <1>3, <1>5, <1>6, <1>7

LEMMA FormKeepsRequests ==
    ASSUME \/ Launcher!EditNext \/ Launcher!TasksArrive \/ Launcher!ExecutorsArrive
           \/ Launcher!ExtensionsArrive \/ Launcher!ModelsArrive \/ Launcher!RefreshModels
           \/ UNCHANGED Launcher!launchVars
    PROVE  UNCHANGED <<requests, promised>>
BY DEF Launcher!EditNext, Launcher!TasksArrive, Launcher!ExecutorsArrive, Launcher!ExtensionsArrive,
   Launcher!ModelsArrive, Launcher!RefreshModels, Launcher!Arrive, Launcher!Edit,
   Launcher!launchVars, Launcher!ToggleTask, Launcher!ToggleHarness, Launcher!ToggleExecutor,
   Launcher!ToggleModel, Launcher!SetSize, Launcher!TypeInstructions, Launcher!ToggleExtension,
   Launcher!RolesNext, Launcher!EditName, Launcher!EditPrompt, Launcher!RemoveRole,
   Launcher!MoveRole, Launcher!AddRole, Launcher!EditRoles

LEMMA RequestsStep ==
    ASSUME FormInv, RequestsInv, [Launcher!Next]_Launcher!launchVars
    PROVE  RequestsInv'
<1>1. ASSUME UNCHANGED <<requests, promised>> PROVE RequestsInv'
    BY <1>1 DEF RequestsInv
<1>2. CASE \E i \in DOMAIN requests, ok \in BOOLEAN : Launcher!Answer(i, ok)
    BY <1>2, LaunchAnswerKeeps
<1>3. CASE Launcher!Launch
    <2>1. Launcher!Missing(form) # Launcher!Unset => UNCHANGED <<requests, promised>>
        BY <1>3 DEF Launcher!Launch
    <2> QED BY <1>1, <1>3, <2>1, Sends
<1> QED BY <1>1, <1>2, <1>3, FormKeepsRequests DEF Launcher!Next

LEMMA ShownStep ==
    ASSUME FormInv, RequestsInv, Launcher!LaunchesWhatWasShown, [Launcher!Next]_Launcher!launchVars
    PROVE  FormInv' /\ RequestsInv' /\ Launcher!LaunchesWhatWasShown'
<1>1. FormInv'
    BY FormStep, FormKept DEF Launcher!Next
<1>2. ASSUME UNCHANGED <<requests, promised>>
      PROVE  RequestsInv' /\ Launcher!LaunchesWhatWasShown'
    BY <1>2 DEF RequestsInv, Launcher!LaunchesWhatWasShown, Launcher!RequestsOf
<1>3. ASSUME NEW i \in DOMAIN requests, NEW ok, Launcher!Answer(i, ok)
      PROVE  RequestsInv' /\ Launcher!LaunchesWhatWasShown'
    <2>1. /\ RequestsInv' /\ promised' = promised /\ DOMAIN requests' = DOMAIN requests
          /\ \A j \in DOMAIN requests : requests'[j].launch = requests[j].launch
                                        /\ requests'[j].form = requests[j].form
        BY <1>3, LaunchAnswerKeeps
    <2>2. ASSUME NEW n PROVE Launcher!RequestsOf(n)' = Launcher!RequestsOf(n)
        BY <2>1 DEF Launcher!RequestsOf
    <2>3. \A n : Launcher!RequestsOf(n) \subseteq DOMAIN requests
        BY DEF Launcher!RequestsOf
    <2>4. ASSUME NEW n \in DOMAIN promised
          PROVE  /\ Launcher!Cardinality(Launcher!RequestsOf(n)) = promised[n].experiments
                 /\ \A j \in Launcher!RequestsOf(n) : promised[n].experiments
                        * Len(Launcher!BuildLaunchVariants(requests'[j].form))
                        * requests'[j].form.size = promised[n].runs
        BY <2>1, <2>3 DEF Launcher!LaunchesWhatWasShown
    <2> QED BY <2>1, <2>2, <2>4 DEF Launcher!LaunchesWhatWasShown
<1>4. ASSUME Launcher!Launch, Launcher!Missing(form) = Launcher!Unset
      PROVE  RequestsInv' /\ Launcher!LaunchesWhatWasShown'
    <2> DEFINE k == Launcher!CountExperiments(form)
               L == Len(requests)
               n == Len(promised) + 1
    <2>1. /\ k \in Nat /\ L \in Nat /\ DOMAIN requests = 1..L /\ DOMAIN requests' = 1..(L + k)
          /\ Len(promised) \in Nat /\ DOMAIN promised = 1..Len(promised)
          /\ DOMAIN promised' = 1..n
          /\ \A i \in 1..L : requests'[i] = requests[i]
          /\ \A i \in (L + 1)..(L + k) : requests'[i].launch = n /\ requests'[i].form = form
          /\ \A m \in 1..Len(promised) : promised'[m] = promised[m]
          /\ promised'[n] = [experiments |-> k, runs |-> Launcher!TotalRuns(form)]
          /\ RequestsInv'
        BY <1>4, Sends
    <2>2. k * Len(Launcher!BuildLaunchVariants(form)) * form.size = Launcher!TotalRuns(form)
        BY DEF Launcher!TotalRuns
    <2> HIDE DEF k, L
    <2>3. \A i \in 1..L : requests[i].launch \in 1..Len(promised)
        BY <2>1 DEF RequestsInv
    <2>4. ASSUME NEW m \in 1..Len(promised)
          PROVE  {i \in 1..(L + k) : requests'[i].launch = m} = {i \in 1..L : requests[i].launch = m}
        BY <2>1
    <2>5. {i \in 1..(L + k) : requests'[i].launch = n} = (L + 1)..(L + k)
        BY <2>1, <2>3
    <2>6. Cardinality((L + 1)..(L + k)) = k
        BY <2>1, FS_Interval
    <2>7. ASSUME NEW m \in DOMAIN promised'
          PROVE  LET Of == {i \in 1..(L + k) : requests'[i].launch = m} IN
                 /\ Cardinality(Of) = promised'[m].experiments
                 /\ \A i \in Of : promised'[m].experiments
                        * Len(Launcher!BuildLaunchVariants(requests'[i].form))
                        * requests'[i].form.size = promised'[m].runs
        <3>1. CASE m = n
            <4>1. promised'[m].experiments = k /\ promised'[m].runs = Launcher!TotalRuns(form)
                BY <2>1, <3>1
            <4>2. \A i \in (L + 1)..(L + k) : requests'[i].form = form
                BY <2>1
            <4> QED BY <2>2, <2>5, <2>6, <3>1, <4>1, <4>2
        <3>2. CASE m \in 1..Len(promised)
            <4> DEFINE Of == {i \in 1..L : requests[i].launch = m}
            <4>1. /\ Cardinality(Of) = promised[m].experiments
                  /\ \A i \in Of : promised[m].experiments
                         * Len(Launcher!BuildLaunchVariants(requests[i].form))
                         * requests[i].form.size = promised[m].runs
                BY <2>1, <3>2, LauncherOperators DEF Launcher!LaunchesWhatWasShown, Launcher!RequestsOf
            <4>2. promised'[m] = promised[m] /\ \A i \in Of : requests'[i] = requests[i]
                BY <2>1, <3>2
            <4> QED BY <2>4, <3>2, <4>1, <4>2
        <3> QED BY <2>1, <3>1, <3>2
    <2>8. \A m : Launcher!RequestsOf(m)' = {i \in 1..(L + k) : requests'[i].launch = m}
        BY <2>1 DEF Launcher!RequestsOf
    <2> QED BY <2>1, <2>7, <2>8, LauncherOperators DEF Launcher!LaunchesWhatWasShown
<1>5. ASSUME Launcher!Launch, Launcher!Missing(form) # Launcher!Unset
      PROVE  UNCHANGED <<requests, promised>>
    BY <1>5 DEF Launcher!Launch
<1>6. CASE \E i \in DOMAIN requests, ok \in BOOLEAN : Launcher!Answer(i, ok)
    BY <1>1, <1>3, <1>6
<1>7. CASE Launcher!Launch
    BY <1>1, <1>2, <1>4, <1>5, <1>7
<1> QED BY <1>1, <1>2, <1>6, <1>7, FormKeepsRequests DEF Launcher!Next

LEMMA ShownInit == Launcher!Init => RequestsInv /\ Launcher!LaunchesWhatWasShown
<1> SUFFICES ASSUME NEW preset \in BOOLEAN, Launcher!Mounted(preset)
             PROVE  RequestsInv /\ Launcher!LaunchesWhatWasShown
    BY DEF Launcher!Init
<1>1. requests = <<>> /\ promised = <<>>
    BY DEF Launcher!Mounted
<1>2. DOMAIN requests = {} /\ DOMAIN promised = {} /\ requests \in Seq({}) /\ promised \in Seq({})
    BY <1>1
<1> QED BY <1>2 DEF RequestsInv, Launcher!LaunchesWhatWasShown

\* A launch creates the experiments and the runs that the page announced next to
\* the button, whatever catalogue, edits and earlier launches came before.
THEOREM LaunchesAreAsShown == PagesSpec => []LaunchesWhatWasShown
<1> DEFINE Inv == FormInv /\ RequestsInv /\ Launcher!LaunchesWhatWasShown
<1>1. Launcher!Init => Inv
    BY FormInit, ShownInit
<1>2. Inv /\ [Launcher!Next]_Launcher!launchVars => Inv'
    BY ShownStep
<1>3. Inv => LaunchesWhatWasShown
    BY DEF LaunchesWhatWasShown
<1> QED BY <1>1, <1>2, <1>3, LauncherPlays, PTL DEF Launcher!Spec

\* The code enables one executor: the chips of the others cannot be clicked.
OneEnabled == \A d, e \in Enabled : d = e
OneExecutor == \E c : form.executors \subseteq {Launcher!DefaultExecutor(c)}

LEMMA DefaultIsFixed == \A c, d : Launcher!DefaultExecutor(c) = Launcher!DefaultExecutor(d)
BY DEF Launcher!DefaultExecutor

LEMMA OneSettles ==
    ASSUME NEW c, NEW f, FormTyped(f), f.executors \subseteq {Launcher!DefaultExecutor(c)}
    PROVE  Launcher!Settled(c, f).executors \subseteq {Launcher!DefaultExecutor(c)}
BY FormSettles

LEMMA OneEdited ==
    ASSUME NEW f, FormTyped(f), f.executors \subseteq {Launcher!DefaultExecutor(catalogue)},
           Launcher!Edit(f)
    PROVE  OneExecutor'
<1>1. PICK d : d = catalogue
    OBVIOUS
<1>2. form'.executors \subseteq {Launcher!DefaultExecutor(d)}
    BY <1>1, OneSettles DEF Launcher!Edit
<1> QED BY <1>2 DEF OneExecutor

LEMMA OneExecutorStep ==
    ASSUME OneEnabled, FormInv, OneExecutor, [Launcher!Next]_Launcher!launchVars
    PROVE  OneExecutor'
<1> DEFINE D == {Launcher!DefaultExecutor(catalogue)}
<1>1. FormTyped(form) /\ form.executors \subseteq D
    BY DefaultIsFixed DEF FormInv, OneExecutor
<1>2. ASSUME UNCHANGED <<catalogue, form>> PROVE OneExecutor'
    BY <1>2 DEF OneExecutor
<1>3. ASSUME NEW c, Launcher!Arrive(c) PROVE OneExecutor'
    <2>1. form' = Launcher!Settled(c, form) /\ catalogue' = c
        BY <1>3 DEF Launcher!Arrive
    <2>2. form.executors \subseteq {Launcher!DefaultExecutor(c)}
        BY <1>1, DefaultIsFixed
    <2> QED BY <1>1, <2>1, <2>2, OneSettles DEF OneExecutor
<1>4. ASSUME NEW e \in Launcher!ToSet(Executors), Launcher!ToggleExecutor(e) PROVE OneExecutor'
    <2> DEFINE v == Launcher!Flip(form.executors, e)
               g == [form EXCEPT !.executors = v]
    <2>1. Launcher!Edit(g) /\ e \in Enabled
        BY <1>4 DEF Launcher!ToggleExecutor, Launcher!MatrixCard, Launcher!Chip
    <2>2. e \in ToSet(Executors)
        BY LauncherOperators, <1>4
    <2>3. e = Launcher!DefaultExecutor(catalogue)
        BY <2>1, <2>2, DefaultIsListed DEF OneEnabled
    <2>4. v \subseteq D /\ v \subseteq ToSet(Executors)
        BY <1>1, <2>2, <2>3 DEF Launcher!Flip, FormTyped
    <2> HIDE DEF v
    <2>5. FormTyped(g) /\ g.executors = v
        BY <1>1, <2>4, FormFieldSet DEF FormTyped, FormFields
    <2> HIDE DEF g
    <2> QED BY <2>1, <2>4, <2>5, OneEdited
<1>5. ASSUME NEW g, Launcher!Edit(g), FormTyped(g), g.executors = form.executors PROVE OneExecutor'
    BY <1>1, <1>5, OneEdited
<1>6. ASSUME NEW t \in Launcher!ToSet(Tasks), Launcher!ToggleTask(t) PROVE OneExecutor'
    <2> DEFINE v == Launcher!Flip(form.tasks, t)
    <2>1. Launcher!Edit([form EXCEPT !.tasks = v])
        BY <1>6 DEF Launcher!ToggleTask
    <2>2. v \subseteq ToSet(Tasks)
        BY <1>1, <1>6, LauncherOperators DEF Launcher!Flip, FormTyped
    <2> HIDE DEF v
    <2>3. [form EXCEPT !.tasks = v].executors = form.executors
        BY <1>1 DEF FormTyped, FormFields
    <2> QED BY <1>1, <1>5, <2>1, <2>2, <2>3, FormFieldSet
<1>7. ASSUME NEW m \in Known, Launcher!ToggleModel(m) PROVE OneExecutor'
    <2> DEFINE v == Launcher!Flip(form.models, m)
    <2>1. Launcher!Edit([form EXCEPT !.models = v])
        BY <1>7 DEF Launcher!ToggleModel
    <2>2. v \subseteq Known
        BY <1>1, <1>7 DEF Launcher!Flip, FormTyped
    <2> HIDE DEF v
    <2>3. [form EXCEPT !.models = v].executors = form.executors
        BY <1>1 DEF FormTyped, FormFields
    <2> QED BY <1>1, <1>5, <2>1, <2>2, <2>3, FormFieldSet
<1>8. ASSUME NEW v,
             \/ Launcher!Edit([form EXCEPT !.harnesses = v]) \/ Launcher!Edit([form EXCEPT !.size = v])
             \/ Launcher!Edit([form EXCEPT !.instructions = v])
             \/ Launcher!Edit([form EXCEPT !.roles = v]) \/ Launcher!Edit([form EXCEPT !.extensions = v])
      PROVE  OneExecutor'
    <2>1. /\ [form EXCEPT !.harnesses = v].executors = form.executors
          /\ [form EXCEPT !.size = v].executors = form.executors
          /\ [form EXCEPT !.instructions = v].executors = form.executors
          /\ [form EXCEPT !.roles = v].executors = form.executors
          /\ [form EXCEPT !.extensions = v].executors = form.executors
        BY <1>1 DEF FormTyped, FormFields
    <2> QED BY <1>1, <1>5, <1>8, <2>1, FormFieldSet
<1>9. ASSUME NEW x,
             \/ Launcher!ToggleHarness(x) \/ Launcher!SetSize(x) \/ Launcher!TypeInstructions(x)
             \/ Launcher!ToggleExtension(x)
      PROVE  OneExecutor'
    BY <1>8, <1>9 DEF Launcher!ToggleHarness, Launcher!SetSize, Launcher!TypeInstructions,
       Launcher!ToggleExtension
<1>10. ASSUME Launcher!RolesNext PROVE OneExecutor'
    BY <1>8, <1>10 DEF Launcher!RolesNext, Launcher!EditName, Launcher!EditPrompt,
       Launcher!RemoveRole, Launcher!MoveRole, Launcher!AddRole, Launcher!EditRoles
<1>11. ASSUME Launcher!EditNext PROVE OneExecutor'
    BY <1>4, <1>6, <1>7, <1>9, <1>10, <1>11 DEF Launcher!EditNext, Known
<1>12. ASSUME \/ Launcher!TasksArrive \/ Launcher!ExecutorsArrive \/ Launcher!ExtensionsArrive
              \/ Launcher!ModelsArrive \/ Launcher!RefreshModels
       PROVE  OneExecutor'
    BY <1>3, <1>12 DEF Launcher!TasksArrive, Launcher!ExecutorsArrive, Launcher!ExtensionsArrive,
       Launcher!ModelsArrive, Launcher!RefreshModels
<1>13. ASSUME Launcher!Launch \/ (\E i, ok : Launcher!Answer(i, ok)) \/ UNCHANGED Launcher!launchVars
       PROVE  UNCHANGED <<catalogue, form>>
    BY <1>13 DEF Launcher!Launch, Launcher!Answer, Launcher!launchVars
<1> QED BY <1>2, <1>11, <1>12, <1>13 DEF Launcher!Next

Runnable(i) ==
    /\ requests'[i].cell[3] \in Launcher!VisibleModels(catalogue, {requests'[i].cell[2]})
    /\ Launcher!Picked(form, "multiagent") => Launcher!ValidateMultiAgentConfig(form.roles)
    /\ Launcher!Picked(form, "agent_instructions") => form.instructions = "text"
    /\ Launcher!Picked(form, "speckit") => form.extensions # <<>>

LEMMA SentStep ==
    ASSUME FormInv, RequestsInv, OneExecutor, [Launcher!Next]_Launcher!launchVars
    PROVE  \A i \in DOMAIN requests' \ DOMAIN requests : Runnable(i)
<1>1. ASSUME DOMAIN requests' = DOMAIN requests
      PROVE  \A i \in DOMAIN requests' \ DOMAIN requests : Runnable(i)
    BY <1>1
<1>2. ASSUME Launcher!Launch, Launcher!Missing(form) = Launcher!Unset
      PROVE  \A i \in DOMAIN requests' \ DOMAIN requests : Runnable(i)
    <2> DEFINE k == Launcher!CountExperiments(form)
               L == Len(requests)
    <2>1. /\ k \in Nat /\ L \in Nat /\ DOMAIN requests = 1..L /\ DOMAIN requests' = 1..(L + k)
          /\ \A i \in (L + 1)..(L + k) :
                 requests'[i].cell \in form.tasks \X form.executors \X form.models
        BY <1>2, Sends
    <2> HIDE DEF k, L
    <2> SUFFICES ASSUME NEW i \in DOMAIN requests' \ DOMAIN requests PROVE Runnable(i)
        OBVIOUS
    <2>2. i \in (L + 1)..(L + k)
        BY <2>1
    <2>3. requests'[i].cell[2] \in form.executors /\ requests'[i].cell[3] \in form.models
        BY <2>1, <2>2
    <2>4. requests'[i].cell[3] \in Launcher!VisibleModels(catalogue, form.executors)
        BY <2>3 DEF FormInv
    <2>5. form.executors = {requests'[i].cell[2]}
        BY <2>3 DEF OneExecutor
    <2>6. Launcher!CanSubmit(form)
        BY <1>2 DEF Launcher!Launch
    <2> QED BY <2>4, <2>5, <2>6 DEF Runnable, Launcher!CanSubmit, Launcher!MultiAgentReady,
               Launcher!AgentInstructionsReady, Launcher!SpecKitReady
<1>3. ASSUME Launcher!Launch, Launcher!Missing(form) # Launcher!Unset
      PROVE  UNCHANGED requests
    BY <1>3 DEF Launcher!Launch
<1>4. CASE \E i \in DOMAIN requests, ok \in BOOLEAN : Launcher!Answer(i, ok)
    BY <1>1, <1>4, LaunchAnswerKeeps
<1> QED BY <1>1, <1>2, <1>3, <1>4, FormKeepsRequests DEF Launcher!Next

\* Every request names a model that its executor runs and that the catalogue
\* lists at that moment, and the harnesses it uses are configured: the form drops
\* the models that are not offered, and offers those of one executor only. With
\* two executors enabled a cell could pair one with a model of the other.
THEOREM RequestsAreRunnable == ASSUME OneEnabled PROVE PagesSpec => SentIsRunnable
<1> DEFINE Inv == FormInv /\ RequestsInv /\ OneExecutor
           Step == \A i \in DOMAIN requests' \ DOMAIN requests : Runnable(i)
<1>1. Launcher!Init => Inv
    <2>1. Launcher!Init => OneExecutor
        BY DEF Launcher!Init, Launcher!Mounted, OneExecutor
    <2>2. Launcher!Init => RequestsInv
        BY ShownInit
    <2> QED BY <2>1, <2>2, FormInit
<1>2. Inv /\ [Launcher!Next]_Launcher!launchVars => Inv'
    <2> SUFFICES ASSUME Inv, [Launcher!Next]_Launcher!launchVars PROVE Inv'
        OBVIOUS
    <2>1. FormInv'
        BY FormStep, FormKept DEF Launcher!Next
    <2>2. OneExecutor'
        BY OneExecutorStep
    <2>3. RequestsInv'
        BY RequestsStep
    <2> QED BY <2>1, <2>2, <2>3
<1>3. Inv /\ [Launcher!Next]_Launcher!launchVars => [Step]_Launcher!launchVars
    BY SentStep
<1> QED BY <1>1, <1>2, <1>3, LauncherPlays, PTL
        DEF SentIsRunnable, Launcher!SentIsRunnable, Runnable, Launcher!Spec

--------------------------------------------------------------------------------
(* The grading inspector.                                                          *)

RowQueries == {"grade", "diagnostic"}
Version(q) == IF q = "grade" THEN saved.version ELSE profile.version

EngineTyped == saved.version \in Nat /\ profile.version \in Nat
QueriesTyped ==
    /\ DOMAIN fetch = Grading!Queries /\ DOMAIN shown = Grading!Queries /\ DOMAIN told = RowQueries
    /\ \A q \in RowQueries : shown[q].version \in Nat /\ told[q] \in Nat
\* A request is idle, sent, or was read by the engine: a version it had then.
RequestSound(q) ==
    \/ fetch[q] = Grading!Idle
    \/ fetch[q] = Grading!Sent
    \/ /\ fetch[q].at = "read"
       /\ fetch[q].answer.version \in Nat
       /\ fetch[q].answer.version <= Version(q)
       /\ fetch[q].answer.version >= told[q]
\* The page is told to show what there is, and only about what it holds.
ToldSound(q) == told[q] <= Version(q) /\ (q \notin loaded => told[q] = 0)
ShowsTold(q) == (fetch[q] = Grading!Idle /\ q \notin failed) => shown[q].version >= told[q]

GradingInv ==
    /\ EngineTyped
    /\ QueriesTyped
    /\ fetch["run"] \in {Grading!Idle, Grading!Sent}
    /\ \A q \in RowQueries : RequestSound(q) /\ ToldSound(q) /\ ShowsTold(q)

\* The row of a query is the engine's.
LEMMA RowVersion == \A q \in RowQueries : Grading!Row(q).version = Version(q)
BY DEF RowQueries, Grading!Row, Version

LEMMA AtDistinct == Grading!Idle.at = "idle" /\ Grading!Sent.at = "sent"
BY DEF Grading!Idle, Grading!Sent

\* A page that opens satisfies the invariant.
LEMMA OpenedPage == ASSUME Grading!Mounted("running") PROVE GradingInv
<1>1. EngineTyped
    BY DEF Grading!Mounted, EngineTyped, Grading!NoGrade, Grading!NoProfile
<1>2. /\ shown["grade"] = Grading!NoGrade /\ shown["diagnostic"] = Grading!NoProfile
      /\ DOMAIN shown = Grading!Queries /\ DOMAIN fetch = Grading!Queries /\ DOMAIN told = RowQueries
      /\ \A q \in Grading!Queries : fetch[q] = Grading!Sent
      /\ \A q \in RowQueries : told[q] = 0
    BY DEF Grading!Mounted, Grading!Queries, RowQueries
<1>3. QueriesTyped
    BY <1>2 DEF QueriesTyped, RowQueries, Grading!NoGrade, Grading!NoProfile
<1>4. \A q \in RowQueries : fetch[q] = Grading!Sent /\ fetch[q] # Grading!Idle
    BY <1>2, AtDistinct DEF Grading!Queries, RowQueries
<1>5. \A q \in RowQueries : RequestSound(q) /\ ShowsTold(q)
    BY <1>4 DEF RequestSound, ShowsTold
<1>6. \A q \in RowQueries : ToldSound(q)
    BY <1>1, <1>2 DEF ToldSound, EngineTyped, Version, RowQueries
<1>7. fetch["run"] \in {Grading!Idle, Grading!Sent}
    BY <1>2 DEF Grading!Queries
<1> QED BY <1>1, <1>3, <1>5, <1>6, <1>7 DEF GradingInv

\* The engine replaces a row by a newer one: what was read stays older.
LEMMA RowsGrow ==
    ASSUME GradingInv, UNCHANGED <<Grading!queryVars, told>>,
           EngineTyped', saved'.version >= saved.version, profile'.version >= profile.version
    PROVE  GradingInv'
<1>1. UNCHANGED <<fetch, shown, loaded, failed, told>>
    BY DEF Grading!queryVars
<1>2. QueriesTyped' /\ fetch'["run"] \in {Grading!Idle, Grading!Sent}
    BY <1>1 DEF GradingInv, QueriesTyped
<1>3. ASSUME NEW q \in RowQueries
      PROVE  Version(q)' >= Version(q) /\ Version(q) \in Nat /\ Version(q)' \in Nat
    BY DEF Version, GradingInv, EngineTyped
<1>4. ASSUME NEW q \in RowQueries
      PROVE  RequestSound(q)' /\ ToldSound(q)' /\ ShowsTold(q)'
    <2> DEFINE v == Version(q)
               w == Version(q)'
    <2>1. /\ v \in Nat /\ w \in Nat /\ w >= v
          /\ RequestSound(q) /\ ToldSound(q) /\ ShowsTold(q) /\ told[q] \in Nat
        BY <1>3 DEF GradingInv, QueriesTyped
    <2> HIDE DEF v, w
    <2>2. RequestSound(q)'
        BY <1>1, <2>1 DEF RequestSound, v, w
    <2>3. ToldSound(q)'
        BY <1>1, <2>1 DEF ToldSound, v, w
    <2>4. ShowsTold(q)'
        BY <1>1, <2>1 DEF ShowsTold
    <2> QED BY <2>2, <2>3, <2>4
<1> QED BY <1>2, <1>4 DEF GradingInv

\* A request that starts says nothing about its row.
LEMMA RequestsStart ==
    ASSUME GradingInv, NEW qs \in SUBSET Grading!Queries,
           fetch' = [q \in Grading!Queries |-> IF q \in qs THEN Grading!Sent ELSE fetch[q]],
           UNCHANGED <<saved, profile, shown, loaded, failed>>,
           DOMAIN told' = RowQueries,
           \A q \in RowQueries :
               \/ told'[q] = told[q]
               \/ q \in qs \cap loaded /\ told'[q] = Version(q)
    PROVE  GradingInv'
<1>1. EngineTyped' /\ EngineTyped
    BY DEF GradingInv, EngineTyped
<1>2. ASSUME NEW q \in RowQueries
      PROVE  /\ q \in Grading!Queries /\ told'[q] \in Nat
             /\ RequestSound(q)' /\ ToldSound(q)' /\ ShowsTold(q)'
    <2>1. /\ q \in Grading!Queries
          /\ fetch'[q] = IF q \in qs THEN Grading!Sent ELSE fetch[q]
          /\ Version(q)' = Version(q)
        BY DEF RowQueries, Grading!Queries, Version
    <2>2. Version(q) \in Nat
        BY <1>1 DEF Version, EngineTyped
    <2>3. RequestSound(q) /\ ToldSound(q) /\ ShowsTold(q) /\ told[q] \in Nat
        BY DEF GradingInv, QueriesTyped
    <2>4. CASE q \in qs
        <3>1. fetch'[q] = Grading!Sent /\ fetch'[q] # Grading!Idle
            BY <2>1, <2>4, AtDistinct
        <3>2. told'[q] \in Nat /\ told'[q] <= Version(q) /\ (q \notin loaded => told'[q] = 0)
            BY <2>2, <2>3 DEF ToldSound
        <3> QED BY <2>1, <3>1, <3>2 DEF RequestSound, ToldSound, ShowsTold
    <2>5. CASE q \notin qs
        <3>1. fetch'[q] = fetch[q] /\ told'[q] = told[q]
            BY <2>1, <2>5
        <3> QED BY <2>1, <2>3, <3>1 DEF RequestSound, ToldSound, ShowsTold
    <2> QED BY <2>4, <2>5
<1>3. QueriesTyped'
    BY <1>2 DEF GradingInv, QueriesTyped
<1>4. fetch'["run"] \in {Grading!Idle, Grading!Sent}
    BY DEF GradingInv, Grading!Queries
<1> QED BY <1>1, <1>2, <1>3, <1>4 DEF GradingInv

\* Buttons that ask again start requests.
LEMMA AgainStarts ==
    ASSUME GradingInv, NEW qs \in SUBSET Grading!Queries
    PROVE  /\ {q \in qs : fetch[q] = Grading!Idle \/ q \in loaded} \in SUBSET Grading!Queries
           /\ Grading!Again(fetch, qs) =
                  [q \in Grading!Queries |-> IF q \in {p \in qs : fetch[p] = Grading!Idle \/ p \in loaded}
                                     THEN Grading!Sent ELSE fetch[q]]
BY DEF Grading!Again

\* The engine's own phases and the regrade's replace rows by newer ones.
LEMMA EngineStep == ASSUME GradingInv, Grading!Engine PROVE GradingInv'
<1>1. EngineTyped
    BY DEF GradingInv
<1>2. /\ EngineTyped'
      /\ saved'.version >= saved.version /\ profile'.version >= profile.version
    BY <1>1 DEF Grading!Engine, Grading!SavePartial, Grading!SaveGrade, Grading!SaveVerdict, Grading!PersistDiagnostic, Grading!SaveProfile,
       Grading!Finish, Grading!Save, EngineTyped
<1>3. UNCHANGED <<Grading!queryVars, told>>
    BY DEF Grading!Engine
<1> QED BY <1>2, <1>3, RowsGrow

LEMMA RegradeStepKeeps ==
    ASSUME GradingInv, Grading!Regrade \/ Grading!RegradeSaves \/ Grading!RegradeProfiles \/ Grading!RegradeRefused
    PROVE  GradingInv'
<1>1. EngineTyped
    BY DEF GradingInv
<1>2. /\ EngineTyped'
      /\ saved'.version >= saved.version /\ profile'.version >= profile.version
    BY <1>1 DEF Grading!Regrade, Grading!RegradeSaves, Grading!RegradeProfiles, Grading!RegradeRefused, Grading!RegradeStep,
       Grading!SaveVerdict, Grading!SaveProfile, Grading!Save, EngineTyped, Grading!engineRows
<1>3. UNCHANGED <<Grading!queryVars, told>>
    BY DEF Grading!Regrade, Grading!RegradeSaves, Grading!RegradeProfiles, Grading!RegradeRefused
<1> QED BY <1>2, <1>3, RowsGrow

\* The regrade's success starts the requests anew, even those in flight.
LEMMA RegradeDoneKeeps == ASSUME GradingInv, Grading!RegradeDone PROVE GradingInv'
<1> DEFINE qs == {q \in RowQueries : fetch[q] = Grading!Idle \/ q \in loaded}
<1>1. qs \in SUBSET Grading!Queries /\ RowQueries \in SUBSET Grading!Queries
    BY DEF RowQueries, Grading!Queries
<1>2. fetch' = [q \in Grading!Queries |-> IF q \in qs THEN Grading!Sent ELSE fetch[q]]
    BY <1>1, AgainStarts DEF Grading!RegradeDone, RowQueries
<1>3. UNCHANGED <<saved, profile, shown, loaded, failed>>
    BY DEF Grading!RegradeDone, Grading!engineRows
<1>4. DOMAIN told' = RowQueries
    BY DEF Grading!RegradeDone, RowQueries
<1>5. ASSUME NEW q \in RowQueries
      PROVE  told'[q] = told[q] \/ (q \in qs \cap loaded /\ told'[q] = Version(q))
    <2>1. told'[q] = IF q \in loaded THEN Grading!Row(q).version ELSE told[q]
        BY DEF Grading!RegradeDone, RowQueries
    <2> QED BY <2>1, RowVersion
<1> HIDE DEF qs
<1> QED BY <1>1, <1>2, <1>3, <1>4, <1>5, RequestsStart

\* An answer that arrives was read after the page was told.
LEMMA AnswerKeeps ==
    ASSUME GradingInv, NEW q \in Grading!Queries, Grading!Answer(q) PROVE GradingInv'
<1>1. /\ UNCHANGED <<saved, profile, told>>
      /\ fetch' = [fetch EXCEPT ![q] = Grading!Idle]
      /\ DOMAIN fetch = Grading!Queries /\ DOMAIN shown = Grading!Queries
    BY DEF Grading!Answer, Grading!engineRows, GradingInv, QueriesTyped
<1>2. EngineTyped' /\ (\A p \in RowQueries : Version(p)' = Version(p))
    BY <1>1 DEF GradingInv, EngineTyped, Version
<1>3. fetch'["run"] \in {Grading!Idle, Grading!Sent}
    BY <1>1 DEF GradingInv, Grading!Queries
<1>4. /\ \A p \in Grading!Queries \ {q} : fetch'[p] = fetch[p] /\ shown'[p] = shown[p]
      /\ DOMAIN fetch' = Grading!Queries /\ DOMAIN shown' = Grading!Queries
      /\ fetch'[q] = Grading!Idle
    BY <1>1 DEF Grading!Answer
<1>5. loaded \subseteq loaded' /\ failed \ {q} = failed' \ {q}
    BY DEF Grading!Answer
<1>6. ASSUME NEW p \in RowQueries, p # q
      PROVE  /\ shown'[p].version \in Nat
             /\ RequestSound(p)' /\ ToldSound(p)' /\ ShowsTold(p)'
    <2>1. /\ p \in Grading!Queries \ {q} /\ RequestSound(p) /\ ToldSound(p) /\ ShowsTold(p)
          /\ shown[p].version \in Nat
        BY <1>6 DEF GradingInv, QueriesTyped, RowQueries, Grading!Queries
    <2>2. /\ fetch'[p] = fetch[p] /\ shown'[p] = shown[p] /\ told'[p] = told[p]
          /\ Version(p)' = Version(p) /\ (p \in failed' <=> p \in failed)
          /\ (p \notin loaded' => p \notin loaded)
        BY <1>1, <1>2, <1>4, <1>5, <2>1
    <2> QED BY <2>1, <2>2 DEF RequestSound, ToldSound, ShowsTold
<1>7. ASSUME q \in RowQueries
      PROVE  /\ shown'[q].version \in Nat
             /\ RequestSound(q)' /\ ToldSound(q)' /\ ShowsTold(q)'
    <2>1. q # "run" /\ fetch[q].at = "read"
        BY <1>7 DEF Grading!Answer, RowQueries
    <2>2. fetch[q].answer.version \in Nat /\ fetch[q].answer.version >= told[q]
        BY <1>7, <2>1, AtDistinct DEF GradingInv, RequestSound
    <2>3. ToldSound(q) /\ shown[q].version \in Nat
        BY <1>7 DEF GradingInv, QueriesTyped
    <2>4. \/ q \in failed' /\ shown' = shown
          \/ shown'[q] = fetch[q].answer
        BY <1>1, <2>1 DEF Grading!Answer
    <2>5. ShowsTold(q)' /\ shown'[q].version \in Nat
        BY <1>1, <2>2, <2>3, <2>4 DEF ShowsTold
    <2>6. ToldSound(q)'
        BY <1>1, <1>2, <1>5, <1>7, <2>3 DEF ToldSound
    <2>7. RequestSound(q)'
        BY <1>4 DEF RequestSound
    <2> QED BY <2>5, <2>6, <2>7
<1>8. QueriesTyped'
    BY <1>1, <1>4, <1>6, <1>7 DEF QueriesTyped, GradingInv
<1>9. \A p \in RowQueries : RequestSound(p)' /\ ToldSound(p)' /\ ShowsTold(p)'
    BY <1>6, <1>7
<1> QED BY <1>2, <1>3, <1>8, <1>9 DEF GradingInv

\* The engine reads a row: at least as new as what the page was told.
LEMMA EngineReadsKeeps ==
    ASSUME GradingInv, NEW q \in Grading!Queries, Grading!EngineReads(q) PROVE GradingInv'
<1>1. /\ UNCHANGED <<saved, profile, shown, loaded, failed, told>>
      /\ q # "run" /\ q \in RowQueries
      /\ fetch' = [fetch EXCEPT ![q] = [at |-> "read", answer |-> Grading!Row(q)]]
      /\ DOMAIN fetch = Grading!Queries
    BY DEF Grading!EngineReads, Grading!engineRows, GradingInv, QueriesTyped, Grading!Queries, RowQueries
<1>2. EngineTyped' /\ (\A p \in RowQueries : Version(p)' = Version(p) /\ Version(p) \in Nat)
    BY <1>1 DEF GradingInv, EngineTyped, Version
<1>3. fetch'["run"] \in {Grading!Idle, Grading!Sent} /\ QueriesTyped'
    BY <1>1 DEF GradingInv, QueriesTyped, Grading!Queries
<1>4. /\ fetch'[q].at = "read" /\ fetch'[q].answer.version = Version(q)
      /\ \A p \in RowQueries \ {q} : fetch'[p] = fetch[p]
    BY <1>1, RowVersion DEF Grading!Queries, RowQueries
<1>5. ASSUME NEW p \in RowQueries
      PROVE  RequestSound(p)' /\ ToldSound(p)' /\ ShowsTold(p)'
    <2>1. RequestSound(p) /\ ToldSound(p) /\ ShowsTold(p) /\ told[p] \in Nat
        BY DEF GradingInv, QueriesTyped
    <2>2. Version(p)' = Version(p) /\ Version(p) \in Nat /\ told' = told
        BY <1>1, <1>2
    <2>3. ToldSound(p)'
        BY <1>1, <2>1, <2>2 DEF ToldSound
    <2>4. CASE p = q
        <3>1. fetch'[p].at = "read" /\ fetch'[p] # Grading!Idle
            BY <1>4, <2>4, AtDistinct
        <3>2. /\ fetch'[p].answer.version = Version(p)
              /\ Version(p) >= told[p]
            BY <1>4, <2>1, <2>4 DEF ToldSound
        <3> QED BY <2>2, <2>3, <3>1, <3>2 DEF RequestSound, ShowsTold
    <2>5. CASE p # q
        <3>1. fetch'[p] = fetch[p]
            BY <1>4, <2>5
        <3> QED BY <1>1, <2>1, <2>2, <2>3, <3>1 DEF RequestSound, ShowsTold
    <2> QED BY <2>4, <2>5
<1> QED BY <1>2, <1>3, <1>5 DEF GradingInv

\* The run's request fails: the rows' requests are not affected.
LEMMA RunFailsKeeps == ASSUME GradingInv, Grading!RunFails PROVE GradingInv'
<1>1. /\ UNCHANGED <<saved, profile, shown, loaded, told>>
      /\ fetch' = [fetch EXCEPT !["run"] = Grading!Idle] /\ failed' = failed \cup {"run"}
      /\ DOMAIN fetch = Grading!Queries
    BY DEF Grading!RunFails, Grading!engineRows, GradingInv, QueriesTyped
<1>2. EngineTyped' /\ (\A p \in RowQueries : Version(p)' = Version(p))
    BY <1>1 DEF GradingInv, EngineTyped, Version
<1>3. fetch'["run"] \in {Grading!Idle, Grading!Sent} /\ QueriesTyped'
    BY <1>1 DEF GradingInv, QueriesTyped, Grading!Queries
<1>4. \A p \in RowQueries : fetch'[p] = fetch[p] /\ (p \in failed' <=> p \in failed)
    BY <1>1 DEF Grading!Queries, RowQueries
<1>5. ASSUME NEW p \in RowQueries
      PROVE  RequestSound(p)' /\ ToldSound(p)' /\ ShowsTold(p)'
    <2>1. RequestSound(p) /\ ToldSound(p) /\ ShowsTold(p)
        BY DEF GradingInv
    <2> QED BY <1>1, <1>2, <1>4, <2>1 DEF RequestSound, ToldSound, ShowsTold
<1> QED BY <1>2, <1>3, <1>5 DEF GradingInv

\* Every step of the engine, of the queries and of the user keeps the invariant.
THEOREM GradingPageIsSound == Grading!Spec => []GradingInv
<1>1. Grading!Init => GradingInv
    BY OpenedPage DEF Grading!Init
<1>2. GradingInv /\ [Grading!Next]_Grading!gradingVars => GradingInv'
    <2> SUFFICES ASSUME GradingInv, [Grading!Next]_Grading!gradingVars PROVE GradingInv'
        OBVIOUS
    <2>1. ASSUME NEW q \in Grading!Queries, Grading!Poll(q) PROVE GradingInv'
        <3>1. fetch' = [p \in Grading!Queries |-> IF p \in {q} THEN Grading!Sent ELSE fetch[p]]
            BY <2>1 DEF Grading!Poll, GradingInv, QueriesTyped
        <3>2. {q} \in SUBSET Grading!Queries /\ DOMAIN told' = RowQueries /\ told' = told
            BY <2>1 DEF Grading!Poll, GradingInv, QueriesTyped
        <3>3. UNCHANGED <<saved, profile, shown, loaded, failed>>
            BY <2>1 DEF Grading!Poll, Grading!engineRows
        <3> QED BY <3>1, <3>2, <3>3, RequestsStart
    <2>2. CASE Grading!Retry
        <3> DEFINE qs == {q \in {"run", "grade"} : fetch[q] = Grading!Idle \/ q \in loaded}
        <3>1. qs \in SUBSET Grading!Queries /\ {"run", "grade"} \in SUBSET Grading!Queries
            BY DEF Grading!Queries
        <3>2. fetch' = [q \in Grading!Queries |-> IF q \in qs THEN Grading!Sent ELSE fetch[q]]
            BY <2>2, <3>1, AgainStarts DEF Grading!Retry
        <3>3. DOMAIN told' = RowQueries /\ told' = told
            BY <2>2 DEF Grading!Retry, GradingInv, QueriesTyped
        <3>4. UNCHANGED <<saved, profile, shown, loaded, failed>>
            BY <2>2 DEF Grading!Retry, Grading!engineRows
        <3> HIDE DEF qs
        <3> QED BY <3>1, <3>2, <3>3, <3>4, RequestsStart
    <2>3. ASSUME UNCHANGED <<Grading!engineRows, Grading!queryVars, told>> PROVE GradingInv'
        <3>1. EngineTyped' /\ saved'.version >= saved.version
              /\ profile'.version >= profile.version
            BY <2>3 DEF Grading!engineRows, GradingInv, EngineTyped
        <3> QED BY <2>3, <3>1, RowsGrow
    <2>4. ASSUME NEW d, Grading!ToggleDim(d) PROVE GradingInv'
        BY <2>3, <2>4 DEF Grading!ToggleDim
    <2>5. CASE UNCHANGED Grading!gradingVars
        BY <2>3, <2>5 DEF Grading!gradingVars, Grading!engineRows, Grading!queryVars
    <2> QED BY <2>1, <2>2, <2>4, <2>5, EngineStep, AnswerKeeps, EngineReadsKeeps,
                RunFailsKeeps, RegradeStepKeeps, RegradeDoneKeeps DEF Grading!Next
<1> QED BY <1>1, <1>2, PTL DEF Grading!Spec

\* After a regrade that succeeded the page does not settle on a grade or a diagnostic
\* older than what the engine had when the regrade ended (RegradeIsShown, useRegradeRun
\* in hooks.ts).
THEOREM RegradesAreShown == PagesSpec => []RegradeIsShown
<1>1. GradingInv => RegradeIsShown
    BY DEF GradingInv, ShowsTold, RegradeIsShown, Grading!RegradeIsShown, RowQueries
<1> QED BY <1>1, GradingPlays, GradingPageIsSound, PTL


--------------------------------------------------------------------------------
(* The run inspector: the focus.                                                   *)

\* Data at rest and a focus: the focus is one of the groups that are listed.
FocusFound ==
    (turnsQuery.loaded /\ ~isFetching /\ groups # <<>> /\ url.focus # NoFocus)
        => url.focus \in Numbers(groups)

\* What the effect leaves of a focus is listed.
LEMMA EffectFindsFocus ==
    ASSUME NEW q, NEW fetching, NEW gs, NEW focus,
           NEW after, after = IF DropsFocus(q, fetching, gs, focus) THEN NoFocus ELSE focus
    PROVE  (q.loaded /\ ~fetching /\ gs # <<>> /\ after # NoFocus) => after \in Numbers(gs)
BY DEF DropsFocus

\* A commit runs the effect.
LEMMA CommitFindsFocus ==
    ASSUME NEW q, NEW fetching, NEW error, NEW tokens, NEW focus, NEW ring,
           Commit(q, fetching, error, tokens, focus, ring)
    PROVE  FocusFound'
<1> DEFINE gs == GroupsFor(q, tokens)
           after == IF DropsFocus(q, fetching, gs, focus) THEN NoFocus ELSE focus
<1>1. turnsQuery' = q /\ isFetching' = fetching /\ url'.filters = tokens /\ url'.focus = after
    BY DEF Commit
<1>2. groups' = gs
    BY <1>1 DEF groups, GroupsFor
<1>3. (q.loaded /\ ~fetching /\ gs # <<>> /\ after # NoFocus) => after \in Numbers(gs)
    BY EffectFindsFocus
<1> HIDE DEF gs, after
<1> QED BY <1>1, <1>2, <1>3 DEF FocusFound, Numbers

\* So does a change of the filters.
LEMMA SetFiltersFindsFocus ==
    ASSUME NEW next, SetFilters(next) PROVE FocusFound'
<1> DEFINE tokens == SerializeFilters(next)
           gs == GroupsFor(turnsQuery, tokens)
           after == IF DropsFocus(turnsQuery, isFetching, gs, url.focus)
                    THEN NoFocus ELSE url.focus
<1>1. /\ turnsQuery' = turnsQuery /\ isFetching' = isFetching
      /\ url'.filters = tokens /\ url'.focus = after
    BY DEF SetFilters
<1>2. groups' = gs
    BY <1>1 DEF groups, GroupsFor
<1>3. (turnsQuery.loaded /\ ~isFetching /\ gs # <<>> /\ after # NoFocus)
          => after \in Numbers(gs)
    BY EffectFindsFocus
<1> HIDE DEF gs, after
<1> QED BY <1>1, <1>2, <1>3 DEF FocusFound, Numbers

\* A step that leaves the turns and the URL alone leaves the focus where it was.
LEMMA FocusStays ==
    ASSUME FocusFound, UNCHANGED <<turnsQuery, url>>, ~isFetching' => ~isFetching
    PROVE  FocusFound'
<1>1. groups' = groups
    BY DEF groups, GroupsFor
<1> QED BY <1>1 DEF FocusFound, Numbers

\* The steps of the page: a commit, a change of the filters, or neither.
Commits == \E q, fetching, error, tokens, focus, ring :
               Commit(q, fetching, error, tokens, focus, ring)
\* Every step of the page is one of these.
LEMMA StepsOfThePage ==
    ASSUME Next
    PROVE  \/ Commits
           \/ \E next : SetFilters(next)
           \/ UNCHANGED <<turnsQuery, url>> /\ (~isFetching' => ~isFetching)
<1>1. ASSUME EngineNext
      PROVE  Commits \/ (UNCHANGED <<turnsQuery, url>> /\ (~isFetching' => ~isFetching))
    BY <1>1 DEF EngineNext, EngineFlush, EngineStatus, RunAnswer, StartTurnsFetch, TurnsAnswer,
       Commits
<1>2. ASSUME NEW n, FocusTurn(n) PROVE Commits
    BY <1>2 DEF FocusTurn, Commits
<1>3. ASSUME NEW bottom, Scroll(bottom)
      PROVE  UNCHANGED <<turnsQuery, url, isFetching>>
    BY <1>3 DEF Scroll
<1>4. ASSUME FilterNext PROVE \E next : SetFilters(next)
    BY <1>4 DEF FilterNext, ToggleBlock, ToggleErrorsOnly, AddPath, RemovePath
<1>5. ASSUME SearchNext PROVE Commits \/ UNCHANGED <<turnsQuery, url, isFetching>>
    <2>1. ASSUME NEW i, Choose(i) PROVE Commits
        BY <2>1 DEF Choose, Commits
    <2>2. ASSUME NEW p, Palette(p) PROVE UNCHANGED <<turnsQuery, url, isFetching>>
        BY <2>2 DEF Palette
    <2> QED BY <1>5, <2>1, <2>2 DEF SearchNext, ToggleSearch, TypeText, ArrowDown, ArrowUp,
               Enter, Hover
<1>6. ASSUME MutationNext
      PROVE  UNCHANGED <<turnsQuery, url>> /\ (~isFetching' => ~isFetching)
    <2>1. CASE Retry \/ Reparse
        BY <2>1 DEF Retry, Reparse
    <2>2. ASSUME NEW ok, RetryAnswer(ok) PROVE UNCHANGED <<turnsQuery, url, isFetching>>
        BY <2>2, Zenon DEF RetryAnswer
    <2>3. ASSUME NEW ok, ReparseAnswer(ok)
          PROVE  UNCHANGED <<turnsQuery, url>> /\ (~isFetching' => ~isFetching)
        BY <2>3, Zenon DEF ReparseAnswer
    <2> QED BY <1>6, <2>1, <2>2, <2>3 DEF MutationNext
<1> QED BY <1>1, <1>2, <1>3, <1>4, <1>5, <1>6 DEF Next

\* With the data at rest the URL's focus is a group the list shows (FocusIsListed,
\* inspect.tsx:133-144), whatever the transcript, the filters and the re-parses.
THEOREM FocusIsAlwaysListed == PagesSpec => []FocusIsListed
<1>1. Init => FocusFound
    BY DEF Init, FocusFound
<1>2. FocusFound /\ [Next]_inspectVars => FocusFound'
    <2> SUFFICES ASSUME FocusFound, [Next]_inspectVars PROVE FocusFound'
        OBVIOUS
    <2>1. CASE UNCHANGED inspectVars
        BY <2>1, FocusStays DEF inspectVars
    <2>2. CASE Commits
        BY <2>2, CommitFindsFocus DEF Commits
    <2>3. CASE \E next : SetFilters(next)
        BY <2>3, SetFiltersFindsFocus
    <2>4. CASE UNCHANGED <<turnsQuery, url>> /\ (~isFetching' => ~isFetching)
        BY <2>4, FocusStays
    <2> QED BY <2>1, <2>2, <2>3, <2>4, StepsOfThePage
<1>3. FocusFound => FocusIsListed
    BY DEF FocusFound, FocusIsListed, View, Shown, Body
<1> QED BY <1>1, <1>2, <1>3, InspectPlays, PTL DEF Spec

--------------------------------------------------------------------------------
(* The run inspector: the list.                                                    *)

\* A list that hears about scrolling sticks to its end exactly when it is there.
ListTyped(l) == l.listening \in BOOLEAN /\ l.stick \in BOOLEAN /\ l.atBottom \in BOOLEAN
Attentive(l) == ListTyped(l) /\ (l.listening => (l.stick <=> l.atBottom))
ListInv == Attentive(list)

\* A list that is mounted or that is not there is attentive.
LEMMA NewListIsAttentive ==
    (\A gs : Attentive(NewList(gs))) /\ Attentive(Unmounted)
BY DEF NewList, Unmounted, Attentive, ListTyped

\* So is a list that is shown other groups.
LEMMA ListAfterIsAttentive ==
    ASSUME ListInv, NEW was, NEW gs, NEW ring PROVE Attentive(ListAfter(was, gs, ring))
<1>1. CASE ~Shown
    BY <1>1, NewListIsAttentive DEF ListAfter
<1>2. CASE Shown
    <2> DEFINE l == ListAfter(was, gs, ring)
    <2>1. /\ l.listening = (list.listening /\ gs # <<>>)
          /\ l.stick = list.stick
          /\ l.atBottom = IF Len(gs) = Len(was) THEN list.atBottom ELSE list.stick
        BY <1>2 DEF ListAfter, Chases
    <2> HIDE DEF l
    <2>2. Attentive(l)
        BY <2>1 DEF ListInv, Attentive, ListTyped
    <2> QED BY <2>2 DEF l
<1> QED BY <1>1, <1>2

\* Every step that touches the list makes it new, unmounts it, scrolls it, or shows
\* other groups in it.
LEMMA StepsOfTheList ==
    ASSUME Next
    PROVE  \/ list' = list
           \/ list' = Unmounted
           \/ \E gs : ~Shown /\ list' = NewList(gs)
           \/ \E bottom \in BOOLEAN : Scroll(bottom)
           \/ \E ring : list' = ListAfter(groups, groups', ring)
<1> DEFINE Listed == \/ list' = list
                     \/ list' = Unmounted
                     \/ \E gs : ~Shown /\ list' = NewList(gs)
                     \/ \E bottom \in BOOLEAN : Scroll(bottom)
                     \/ \E ring : list' = ListAfter(groups, groups', ring)
<1>1. ASSUME Commits PROVE Listed
    <2>1. PICK q, fetching, error, tokens, focus, ring :
              Commit(q, fetching, error, tokens, focus, ring)
        BY <1>1 DEF Commits
    <2>2. groups' = GroupsFor(q, tokens)
        BY <2>1 DEF Commit, groups, GroupsFor
    <2>3. list' = ListAfter(groups, GroupsFor(q, tokens), ring) \/ list' = Unmounted
        BY <2>1 DEF Commit
    <2> QED BY <2>2, <2>3
<1>2. ASSUME NEW next, SetFilters(next) PROVE Listed
    <2>1. groups' = GroupsFor(turnsQuery, SerializeFilters(next))
        BY <1>2 DEF SetFilters, groups, GroupsFor
    <2>2. list' = ListAfter(groups, GroupsFor(turnsQuery, SerializeFilters(next)), list.ring)
        BY <1>2 DEF SetFilters
    <2> QED BY <2>1, <2>2
<1>3. ASSUME EngineNext PROVE Listed
    <2>1. ASSUME RunAnswer PROVE Listed
        BY <2>1 DEF RunAnswer
    <2>2. ASSUME EngineFlush \/ \E s : EngineStatus(s) PROVE list' = list
        BY <2>2 DEF EngineFlush, EngineStatus
    <2>3. ASSUME StartTurnsFetch \/ \E ok : TurnsAnswer(ok) PROVE Commits
        BY <2>3 DEF StartTurnsFetch, TurnsAnswer, Commits
    <2> HIDE DEF Listed
    <2>4. list' = list => Listed
        BY DEF Listed
    <2> QED BY <1>1, <1>3, <2>1, <2>2, <2>3, <2>4 DEF EngineNext
<1>4. ASSUME NEW n, FocusTurn(n) PROVE Commits
    BY <1>4 DEF FocusTurn, Commits
<1>5. ASSUME FilterNext PROVE \E next : SetFilters(next)
    BY <1>5 DEF FilterNext, ToggleBlock, ToggleErrorsOnly, AddPath, RemovePath
<1>6. ASSUME SearchNext PROVE Commits \/ list' = list
    <2>1. ASSUME NEW i, Choose(i) PROVE Commits
        BY <2>1 DEF Choose, Commits
    <2>2. ASSUME NEW p, Palette(p) PROVE list' = list
        BY <2>2 DEF Palette
    <2> QED BY <1>6, <2>1, <2>2 DEF SearchNext, ToggleSearch, TypeText, ArrowDown, ArrowUp,
               Enter, Hover
<1>7. ASSUME MutationNext PROVE list' = list
    BY <1>7 DEF MutationNext, Retry, Reparse, RetryAnswer, ReparseAnswer
<1> QED BY <1>1, <1>2, <1>3, <1>4, <1>5, <1>6, <1>7 DEF Next

\* A list that hears about scrolling sticks to its end exactly while it is there
\* (the scroll listener of TurnList.tsx:46-64).
THEOREM ListIsAttentive == Spec => []ListInv
<1>1. Init => ListInv
    BY NewListIsAttentive DEF Init, ListInv
<1>2. ListInv /\ [Next]_inspectVars => ListInv'
    <2> SUFFICES ASSUME ListInv, [Next]_inspectVars PROVE Attentive(list')
        BY DEF ListInv, Attentive, ListTyped
    <2>1. CASE UNCHANGED inspectVars \/ list' = list
        BY <2>1 DEF inspectVars, ListInv
    <2>2. CASE list' = Unmounted \/ \E gs : list' = NewList(gs)
        BY <2>2, NewListIsAttentive
    <2>3. ASSUME NEW bottom \in BOOLEAN, Scroll(bottom) PROVE Attentive(list')
        <3>1. /\ list'.listening = list.listening /\ list'.atBottom = bottom
              /\ list'.stick = IF list.listening THEN bottom ELSE list.stick
            BY <2>3 DEF Scroll
        <3> QED BY <2>3, <3>1 DEF ListInv, Attentive, ListTyped
    <2>4. CASE \E ring : list' = ListAfter(groups, groups', ring)
        BY <2>4, ListAfterIsAttentive
    <2> QED BY <2>1, <2>2, <2>3, <2>4, StepsOfTheList
<1> QED BY <1>1, <1>2, PTL DEF Spec

\* New turns never scroll the list of a user who has scrolled away from its end, as
\* long as the list hears about scrolling (ReadingIsNotDisturbed, TurnList.tsx:46-64),
\* however the turns arrive and the filters change.
THEOREM ReadersAreNotDisturbed == PagesSpec => ReadingIsNotDisturbed
<1>1. ListInv /\ [Next]_inspectVars =>
          [(View = "body" /\ View' = "body" /\ list.listening /\ list'.listening
            /\ ~list.atBottom /\ Len(groups') # Len(groups))
               => ~list'.atBottom]_inspectVars
    <2> SUFFICES ASSUME ListInv, Next, View = "body", list.listening, list'.listening,
                        ~list.atBottom, Len(groups') # Len(groups)
                 PROVE  ~list'.atBottom
        OBVIOUS
    <2>1. Shown /\ ~list.stick /\ list.stick \in BOOLEAN
        BY DEF View, Shown, Body, ListInv, Attentive, ListTyped
    <2>2. CASE list' = list
        BY <2>2
    <2>3. list' # Unmounted
        BY DEF Unmounted
    <2>4. ASSUME NEW bottom, Scroll(bottom) PROVE FALSE
        <3>1. groups' = groups
            BY <2>4 DEF Scroll, groups, GroupsFor
        <3> QED BY <3>1
    <2>5. ASSUME NEW ring, list' = ListAfter(groups, groups', ring) PROVE ~list'.atBottom
        <3>1. list'.atBottom = list.stick
            BY <2>1, <2>5 DEF ListAfter, Chases
        <3> QED BY <2>1, <3>1
    <2> QED BY <2>1, <2>2, <2>3, <2>4, <2>5, StepsOfTheList
<1> QED BY <1>1, ListIsAttentive, InspectPlays, PTL DEF Spec, ReadingIsNotDisturbed

--------------------------------------------------------------------------------
(* The tape: the greedy alignment, for any number of runs and anchors.             *)

LEMMA TapePlays == PagesSpec => Aligned!Spec
<1>1. PagesInit => Aligned!Init
    BY DEF PagesInit
<1>2. [PagesNext]_pagesVars => [Aligned!Next]_Aligned!tapeVars
    BY DEF PagesNext, On, pagesVars, tapeVars, Aligned!tapeVars, Aligned!alignVars,
       Aligned!clockVars
<1> QED BY <1>1, <1>2, PTL DEF PagesSpec, Aligned!Spec, pagesVars

\* What is compared is made of sequences of anchors.
RunsAreSequences ==
    \A input \in Inputs :
        /\ DOMAIN input \subseteq Nat
        /\ \A i \in DOMAIN input :
               /\ Len(input[i]) \in Nat
               /\ DOMAIN input[i] = 1 .. Len(input[i])

RunsTyped ==
    /\ DOMAIN runs \subseteq Nat
    /\ \A i \in Aligned!Ids : Len(runs[i]) \in Nat /\ DOMAIN runs[i] = 1 .. Len(runs[i])
PointersTyped ==
    /\ pointers \in [Aligned!Ids -> Nat]
    /\ \A i \in Aligned!Ids : pointers[i] >= 1 /\ pointers[i] <= Len(runs[i]) + 1
RowsOf(ids) == [kind : {"anchored", "drift"}, columns : [ids -> Nat]]
RowsTyped == rows \in Seq(RowsOf(Aligned!Ids))
\* A column never lies ahead of the pointer of its run.
ColumnsBehind == \A k \in DOMAIN rows : \A i \in Aligned!Ids : rows[k].columns[i] < pointers[i]
\* What the pointer of a run has passed is on a row.
PassedAreOnRows ==
    \A i \in Aligned!Ids : \A p \in 1 .. Len(runs[i]) :
        p < pointers[i] => \E k \in DOMAIN rows : rows[k].columns[i] = p
ColumnsInOrder ==
    \A i \in Aligned!Ids : \A k, l \in DOMAIN rows :
        (k < l /\ rows[k].columns[i] # 0 /\ rows[l].columns[i] # 0) =>
            rows[k].columns[i] < rows[l].columns[i]

TapeInv ==
    /\ RunsTyped /\ PointersTyped /\ RowsTyped
    /\ emitting \subseteq Aligned!Active
    /\ ColumnsBehind /\ PassedAreOnRows /\ ColumnsInOrder
    /\ Aligned!AnchoredRowsAgree

\* A comparison that has just been chosen satisfies the invariant.
LEMMA FreshTape ==
    ASSUME RunsAreSequences, NEW input \in Inputs,
           runs = input, pointers = [i \in DOMAIN input |-> 1], emitting = {}, rows = <<>>
    PROVE  TapeInv
<1>1. RunsTyped /\ PointersTyped
    BY DEF RunsAreSequences, RunsTyped, PointersTyped, Aligned!Ids
<1>2. RowsTyped /\ DOMAIN rows = {}
    BY DEF RowsTyped, RowsOf
<1>3. emitting \subseteq Aligned!Active
    OBVIOUS
<1>4. ColumnsBehind /\ ColumnsInOrder /\ Aligned!AnchoredRowsAgree
    BY <1>2 DEF ColumnsBehind, ColumnsInOrder, Aligned!AnchoredRowsAgree
<1>5. PassedAreOnRows
    BY <1>1 DEF PassedAreOnRows, RunsTyped, Aligned!Ids
<1> QED BY <1>1, <1>2, <1>3, <1>4, <1>5 DEF TapeInv

\* Appending to a sequence leaves what was there as it is.
LEMMA Appended ==
    ASSUME NEW S, NEW s \in Seq(S), NEW e \in S
    PROVE  /\ Append(s, e) \in Seq(S)
           /\ Len(s) \in Nat /\ DOMAIN s = 1 .. Len(s)
           /\ DOMAIN Append(s, e) = 1 .. Len(s) + 1
           /\ \A k \in 1 .. Len(s) : Append(s, e)[k] = s[k]
           /\ Append(s, e)[Len(s) + 1] = e
OBVIOUS

\* A row that takes, of some of the runs, the anchor at the pointer.
Row(ids, kind) ==
    [kind |-> kind, columns |-> [j \in Aligned!Ids |-> IF j \in ids THEN pointers[j] ELSE 0]]
TakesRow(ids, kind) ==
    /\ kind = "anchored" =>
           ids = Aligned!Ids /\ \A i, j \in Aligned!Ids : Aligned!Anchor(i).key = Aligned!Anchor(j).key
    /\ rows' = Append(rows, Row(ids, kind))
    /\ pointers' = [j \in Aligned!Ids |-> IF j \in ids THEN pointers[j] + 1 ELSE pointers[j]]
    /\ emitting' \subseteq Aligned!Active \ ids
    /\ runs' = runs

LEMMA TakenRowKeepsInv ==
    ASSUME TapeInv, NEW ids \in SUBSET Aligned!Active, NEW kind \in {"anchored", "drift"},
           TakesRow(ids, kind)
    PROVE  TapeInv'
<1> DEFINE row == Row(ids, kind)
           n == Len(rows)
<1>0. /\ Aligned!Ids' = Aligned!Ids
      /\ RunsTyped /\ PointersTyped /\ ColumnsBehind /\ PassedAreOnRows /\ ColumnsInOrder
      /\ Aligned!AnchoredRowsAgree
    BY DEF TapeInv, Aligned!Ids, TakesRow
<1>1. /\ row \in RowsOf(Aligned!Ids) /\ rows \in Seq(RowsOf(Aligned!Ids))
      /\ rows' = Append(rows, row)
    BY <1>0 DEF PointersTyped, RowsTyped, RowsOf, TapeInv, Row, TakesRow
<1> HIDE DEF row
<1>2. /\ rows' \in Seq(RowsOf(Aligned!Ids)) /\ n \in Nat /\ DOMAIN rows = 1 .. n
      /\ DOMAIN rows' = 1 .. n + 1
      /\ \A k \in 1 .. n : rows'[k] = rows[k]
      /\ rows'[n + 1] = row
    BY <1>1, Appended
<1>2a. n \in Nat
    BY <1>2
<1>2b. Aligned!Ids' = Aligned!Ids /\ runs' = runs /\ DOMAIN rows' = 1 .. n + 1
    BY <1>0, <1>2 DEF TakesRow
<1> HIDE DEF n
<1>3. /\ \A i \in Aligned!Ids : row.columns[i] = IF i \in ids THEN pointers[i] ELSE 0
      /\ row.kind = kind
    BY DEF row, Row
<1>4. \A i \in Aligned!Ids : pointers'[i] = IF i \in ids THEN pointers[i] + 1 ELSE pointers[i]
    BY DEF TakesRow
<1>5. \A i \in ids : i \in Aligned!Ids /\ pointers[i] <= Len(runs[i])
    BY DEF Aligned!Active
<1>6. \A i \in Aligned!Ids : Len(runs[i]) \in Nat /\ pointers[i] \in Nat /\ pointers[i] >= 1
                     /\ pointers[i] <= Len(runs[i]) + 1
    BY <1>0 DEF RunsTyped, PointersTyped
<1>7. RunsTyped'
    BY <1>0, <1>2b DEF RunsTyped, Aligned!Ids
<1>8. PointersTyped'
    <2>1. pointers' \in [Aligned!Ids -> Nat]
        BY <1>6 DEF TakesRow
    <2>2. \A i \in Aligned!Ids : pointers'[i] >= 1 /\ pointers'[i] <= Len(runs[i]) + 1
        BY <1>4, <1>5, <1>6
    <2> QED BY <1>2b, <2>1, <2>2 DEF PointersTyped
<1>9. RowsTyped'
    BY <1>0, <1>2 DEF RowsTyped
<1>10. emitting' \subseteq Aligned!Active'
    BY <1>0, <1>4 DEF Aligned!Active, Aligned!Ids, TakesRow
<1>11. \A k \in 1 .. n : \A i \in Aligned!Ids : rows[k].columns[i] < pointers[i]
                                        /\ rows[k].columns[i] \in Nat
    <2>1. \A k \in 1 .. n : rows[k] \in RowsOf(Aligned!Ids)
        BY <1>1, <1>2
    <2> QED BY <2>1, <1>0, <1>2 DEF ColumnsBehind, RowsOf
<1>12. ColumnsBehind'
    <2> SUFFICES ASSUME NEW k \in 1 .. n + 1, NEW i \in Aligned!Ids
                 PROVE  rows'[k].columns[i] < pointers'[i]
        BY <1>2b DEF ColumnsBehind
    <2>1. CASE k = n + 1
        BY <2>1, <1>2, <1>3, <1>4, <1>6
    <2>2. CASE k # n + 1
        <3>1. k \in 1 .. n
            BY <2>2, <1>2a
        <3> QED BY <3>1, <1>2, <1>4, <1>6, <1>11
    <2> QED BY <2>1, <2>2
<1>13. PassedAreOnRows'
    <2> SUFFICES ASSUME NEW i \in Aligned!Ids, NEW p \in 1 .. Len(runs[i]), p < pointers'[i]
                 PROVE  \E k \in 1 .. n + 1 : rows'[k].columns[i] = p
        BY <1>2b DEF PassedAreOnRows
    <2>1. CASE p < pointers[i]
        <3>1. PICK k \in 1 .. n : rows[k].columns[i] = p
            BY <2>1, <1>0, <1>2 DEF PassedAreOnRows
        <3>2. k \in 1 .. n + 1 /\ rows'[k] = rows[k]
            BY <1>2
        <3> QED BY <3>1, <3>2
    <2>2. CASE ~(p < pointers[i])
        <3>1. i \in ids /\ p = pointers[i]
            BY <2>2, <1>4, <1>6
        <3>2. n + 1 \in 1 .. n + 1 /\ rows'[n + 1].columns[i] = p
            BY <3>1, <1>2, <1>3
        <3> QED BY <3>2
    <2> QED BY <2>1, <2>2
<1>14. ColumnsInOrder'
    <2> SUFFICES ASSUME NEW i \in Aligned!Ids, NEW k \in 1 .. n + 1, NEW l \in 1 .. n + 1, k < l,
                        rows'[k].columns[i] # 0, rows'[l].columns[i] # 0
                 PROVE  rows'[k].columns[i] < rows'[l].columns[i]
        BY <1>2b DEF ColumnsInOrder
    <2>1. k \in 1 .. n
        BY <1>2a
    <2>2. CASE l = n + 1
        BY <2>1, <2>2, <1>2, <1>3, <1>11
    <2>3. CASE l # n + 1
        <3>1. l \in 1 .. n
            BY <2>3, <1>2a
        <3> QED BY <2>1, <3>1, <1>0, <1>2 DEF ColumnsInOrder
    <2> QED BY <2>2, <2>3
<1>15. Aligned!AnchoredRowsAgree'
    <2> SUFFICES ASSUME NEW k \in 1 .. n + 1, rows'[k].kind = "anchored",
                        NEW i \in Aligned!Ids, NEW j \in Aligned!Ids
                 PROVE  /\ rows'[k].columns[i] \in DOMAIN runs[i]
                        /\ runs[i][rows'[k].columns[i]].key = runs[j][rows'[k].columns[j]].key
        BY <1>2b DEF Aligned!AnchoredRowsAgree
    <2>1. CASE k = n + 1
        <3>1. /\ ids = Aligned!Ids
              /\ runs[i][pointers[i]].key = runs[j][pointers[j]].key
            BY <2>1, <1>2, <1>3 DEF Aligned!Anchor, TakesRow
        <3>2. rows'[k].columns[i] = pointers[i] /\ rows'[k].columns[j] = pointers[j]
            BY <2>1, <3>1, <1>2, <1>3
        <3>3. pointers[i] \in DOMAIN runs[i]
            BY <3>1, <1>0, <1>5, <1>6 DEF RunsTyped
        <3> QED BY <3>1, <3>2, <3>3
    <2>2. CASE k # n + 1
        <3>1. k \in 1 .. n
            BY <2>2, <1>2a
        <3>2. k \in DOMAIN rows /\ rows'[k] = rows[k] /\ rows[k].kind = "anchored"
            BY <3>1, <1>2
        <3>3. /\ rows[k].columns[i] \in DOMAIN runs[i]
              /\ runs[i][rows[k].columns[i]].key = runs[j][rows[k].columns[j]].key
            BY <3>2, <1>0 DEF Aligned!AnchoredRowsAgree
        <3> QED BY <3>2, <3>3
    <2> QED BY <2>1, <2>2
<1> QED BY <1>7, <1>8, <1>9, <1>10, <1>12, <1>13, <1>14, <1>15 DEF TapeInv

\* The same, with the row written out.
LEMMA RowKeepsInv ==
    ASSUME TapeInv, NEW ids \in SUBSET Aligned!Active, NEW kind \in {"anchored", "drift"},
           kind = "anchored" =>
               ids = Aligned!Ids /\ \A i, j \in Aligned!Ids : Aligned!Anchor(i).key = Aligned!Anchor(j).key,
           rows' = Append(rows, [kind |-> kind,
                       columns |-> [j \in Aligned!Ids |-> IF j \in ids THEN pointers[j] ELSE 0]]),
           pointers' = [j \in Aligned!Ids |-> IF j \in ids THEN pointers[j] + 1 ELSE pointers[j]],
           emitting' \subseteq Aligned!Active \ ids,
           runs' = runs
    PROVE  TapeInv'
<1>1. TakesRow(ids, kind)
    BY DEF TakesRow, Row
<1> QED BY <1>1, TakenRowKeepsInv

\* A row for all runs is such a row, ...
LEMMA AlignedRowTakes ==
    ASSUME TapeInv, Aligned!AlignedRow
    PROVE  /\ Aligned!Ids \subseteq Aligned!Active /\ runs' = runs /\ emitting' = {}
           /\ \A i, j \in Aligned!Ids : Aligned!Anchor(i).key = Aligned!Anchor(j).key
           /\ rows' = Append(rows, [kind |-> "anchored",
               columns |-> [j \in Aligned!Ids |-> IF j \in Aligned!Ids THEN pointers[j] ELSE 0]])
           /\ pointers' = [j \in Aligned!Ids |->
                  IF j \in Aligned!Ids THEN pointers[j] + 1 ELSE pointers[j]]
<1>1. pointers = [j \in Aligned!Ids |-> IF j \in Aligned!Ids THEN pointers[j] ELSE 0]
    BY DEF TapeInv, PointersTyped
<1>2. rows' = Append(rows, [kind |-> "anchored", columns |-> pointers])
    BY DEF Aligned!AlignedRow
<1> QED BY <1>1, <1>2 DEF Aligned!AlignedRow, Aligned!AllShare

\* ... and so is a row of one run that advances.
LEMMA DriftRowTakes ==
    ASSUME TapeInv, Aligned!DriftRow
    PROVE  \E i \in emitting :
               /\ i \in Aligned!Active /\ runs' = runs /\ emitting' = emitting \ {i}
               /\ rows' = Append(rows, [kind |-> "drift",
                        columns |-> [j \in Aligned!Ids |-> IF j \in {i} THEN pointers[j] ELSE 0]])
               /\ pointers' = [j \in Aligned!Ids |-> IF j \in {i} THEN pointers[j] + 1 ELSE pointers[j]]
<1>1. PICK i \in emitting :
          /\ rows' = Append(rows, [kind |-> "drift",
                 columns |-> [j \in Aligned!Ids |-> IF j = i THEN pointers[i] ELSE 0]])
          /\ emitting' = emitting \ {i}
          /\ pointers' = [pointers EXCEPT ![i] = @ + 1]
          /\ runs' = runs
    BY DEF Aligned!DriftRow
<1>2. i \in Aligned!Active /\ pointers \in [Aligned!Ids -> Nat]
    BY DEF TapeInv, PointersTyped
<1>3. pointers' = [j \in Aligned!Ids |-> IF j \in {i} THEN pointers[j] + 1 ELSE pointers[j]]
    BY <1>1, <1>2
<1>4. [j \in Aligned!Ids |-> IF j = i THEN pointers[i] ELSE 0]
          = [j \in Aligned!Ids |-> IF j \in {i} THEN pointers[j] ELSE 0]
    OBVIOUS
<1> QED BY <1>1, <1>2, <1>3, <1>4

\* The other steps leave the tape alone, or start another.
LEMMA OtherSteps ==
    ASSUME Aligned!Next, ~Aligned!AlignedRow, ~Aligned!Diverge, ~Aligned!DriftRow
    PROVE  UNCHANGED Aligned!alignVars \/ \E input \in Inputs : Aligned!Compare(input)
BY DEF Aligned!Next, Aligned!Align, Aligned!Tick, Aligned!User, Aligned!Key, Aligned!Bar,
       Aligned!LeaveControl, Aligned!PlayPause, Aligned!StepForward, Aligned!StepBack,
       Aligned!Scrub, Aligned!SetStep, Aligned!KeepTape

\* Every step of the alignment, of the clock and of the user keeps the invariant.
THEOREM TapeIsSound ==
    ASSUME RunsAreSequences PROVE PagesSpec => []TapeInv
<1>1. Aligned!Init => TapeInv
    BY FreshTape DEF Aligned!Init, Aligned!Mounted
<1>2. TapeInv /\ [Aligned!Next]_Aligned!tapeVars => TapeInv'
    <2> SUFFICES ASSUME TapeInv, [Aligned!Next]_Aligned!tapeVars PROVE TapeInv'
        OBVIOUS
    <2>1. CASE Aligned!AlignedRow
        <3>1. {} \subseteq Aligned!Active \ Aligned!Ids
            OBVIOUS
        <3> QED BY <2>1, <3>1, AlignedRowTakes, RowKeepsInv
    <2>2. CASE Aligned!Diverge
        <3>1. emitting' \subseteq Aligned!Active
            BY <2>2 DEF Aligned!Diverge, Aligned!Advancers
        <3> QED
            BY <2>2, <3>1 DEF Aligned!Diverge, TapeInv, RunsTyped, PointersTyped, RowsTyped,
               Aligned!Active, Aligned!Ids, ColumnsBehind, PassedAreOnRows, ColumnsInOrder,
               Aligned!AnchoredRowsAgree
    <2>3. CASE Aligned!DriftRow
        <3>1. PICK i \in emitting :
                  /\ i \in Aligned!Active /\ runs' = runs /\ emitting' = emitting \ {i}
                  /\ rows' = Append(rows, [kind |-> "drift",
                        columns |-> [j \in Aligned!Ids |-> IF j \in {i} THEN pointers[j] ELSE 0]])
                  /\ pointers' = [j \in Aligned!Ids |-> IF j \in {i} THEN pointers[j] + 1
                                                            ELSE pointers[j]]
            BY <2>3, DriftRowTakes
        <3>2. {i} \in SUBSET Aligned!Active /\ emitting' \subseteq Aligned!Active \ {i}
            BY <3>1 DEF TapeInv
        <3> QED BY <3>1, <3>2, RowKeepsInv
    <2>4. CASE \E input \in Inputs : Aligned!Compare(input)
        <3>1. PICK input \in Inputs :
                  /\ runs' = input /\ pointers' = [i \in DOMAIN input |-> 1]
                  /\ emitting' = {} /\ rows' = <<>>
            BY <2>4 DEF Aligned!Compare
        <3>2. (RunsTyped /\ PointersTyped)'
            BY <3>1 DEF RunsAreSequences, RunsTyped, PointersTyped, Aligned!Ids
        <3>3. RowsTyped' /\ DOMAIN rows' = {}
            BY <3>1 DEF RowsTyped
        <3>4. emitting' \subseteq Aligned!Active'
            BY <3>1
        <3>5. (ColumnsBehind /\ ColumnsInOrder /\ Aligned!AnchoredRowsAgree)'
            BY <3>3 DEF ColumnsBehind, ColumnsInOrder, Aligned!AnchoredRowsAgree
        <3>6. PassedAreOnRows'
            BY <3>1, <3>2 DEF PassedAreOnRows, RunsTyped, Aligned!Ids
        <3> QED BY <3>2, <3>3, <3>4, <3>5, <3>6 DEF TapeInv
    <2>5. CASE UNCHANGED Aligned!alignVars
        BY <2>5 DEF Aligned!alignVars, TapeInv, RunsTyped, PointersTyped, RowsTyped,
           Aligned!Active, Aligned!Ids, ColumnsBehind, PassedAreOnRows, ColumnsInOrder,
           Aligned!AnchoredRowsAgree
    <2>6. CASE UNCHANGED Aligned!tapeVars
        BY <2>6, <2>5 DEF Aligned!tapeVars, Aligned!alignVars
    <2> QED BY <2>1, <2>2, <2>3, <2>4, <2>5, <2>6, OtherSteps
<1> QED BY <1>1, <1>2, TapePlays, PTL DEF Aligned!Spec

\* At any point of the loop the rows hold, of each run, the anchors before its
\* pointer, each once and in order (EveryAnchorOnce, alignAnchors in
\* anchor-alignment.ts), for any number of runs of any length.
THEOREM AnchorsAreTakenOnce ==
    ASSUME RunsAreSequences PROVE PagesSpec => []Aligned!EveryAnchorOnce
<1>1. TapeInv => Aligned!EveryAnchorOnce
    <2> SUFFICES ASSUME TapeInv, NEW i \in Aligned!Ids
                 PROVE  /\ \A p \in 1 .. Len(runs[i]) :
                               p < pointers[i] <=> \E k \in DOMAIN rows : rows[k].columns[i] = p
                        /\ \A k, l \in DOMAIN rows :
                               (k < l /\ rows[k].columns[i] # 0 /\ rows[l].columns[i] # 0) =>
                                   rows[k].columns[i] < rows[l].columns[i]
        BY DEF Aligned!EveryAnchorOnce
    <2> QED BY DEF TapeInv, ColumnsBehind, PassedAreOnRows, ColumnsInOrder
<1> QED BY <1>1, TapeIsSound, PTL

\* A row without a dash in the gutter is an anchor of every run, with the same key.
THEOREM AnchoredRowsShareAKey ==
    ASSUME RunsAreSequences PROVE PagesSpec => []Aligned!AnchoredRowsAgree
<1>1. TapeInv => Aligned!AnchoredRowsAgree
    BY DEF TapeInv
<1> QED BY <1>1, TapeIsSound, PTL

\* The greedy alignment implements the merge (Merges, anchor-alignment.ts), whatever
\* sequences of anchors the runs are and whichever comparisons follow each other: each
\* row takes the next anchor of one run or the next ones of all runs, and nothing else
\* moves a pointer.
THEOREM TapeIsMerged ==
    ASSUME RunsAreSequences PROVE PagesSpec => Merges
<1> DEFINE taken == [i \in Aligned!Ids |-> pointers[i] - 1]
<1>1. Aligned!Init => Aligned!Merge!Init
    <2> SUFFICES ASSUME NEW input \in Inputs, Aligned!Mounted(input) PROVE Aligned!Merge!Init
        BY DEF Aligned!Init
    <2>1. runs = input /\ taken = [i \in DOMAIN input |-> 0]
        BY DEF Aligned!Mounted, Aligned!Ids
    <2> QED BY <2>1 DEF Aligned!Merge!Init, Aligned!Merge!Start
<1>2. TapeInv /\ [Aligned!Next]_Aligned!tapeVars => [Aligned!Merge!Next]_(Aligned!Merge!mergeVars)
    <2> SUFFICES ASSUME TapeInv, [Aligned!Next]_Aligned!tapeVars,
                        ~UNCHANGED Aligned!Merge!mergeVars
                 PROVE  Aligned!Merge!Next
        OBVIOUS
    <2>0. \A i \in Aligned!Ids : pointers[i] \in Nat /\ Len(runs[i]) \in Nat
        BY DEF TapeInv, PointersTyped, RunsTyped
    <2>1. ASSUME NEW ids \in SUBSET Aligned!Active, runs' = runs,
                 \A i, j \in ids : Aligned!Anchor(i).key = Aligned!Anchor(j).key,
                 pointers' = [j \in Aligned!Ids |-> IF j \in ids THEN pointers[j] + 1 ELSE pointers[j]]
          PROVE  Aligned!Merge!Take(ids)
        <3>1. \A i \in ids : i \in Aligned!Ids /\ taken[i] < Len(runs[i])
                             /\ taken[i] + 1 = pointers[i]
            BY <2>0 DEF Aligned!Active
        <3>2. \A i, j \in ids : runs[i][taken[i] + 1].key = runs[j][taken[j] + 1].key
            <4> SUFFICES ASSUME NEW i \in ids, NEW j \in ids
                         PROVE  runs[i][taken[i] + 1].key = runs[j][taken[j] + 1].key
                OBVIOUS
            <4>1. taken[i] + 1 = pointers[i] /\ taken[j] + 1 = pointers[j]
                BY <3>1
            <4>2. runs[i][pointers[i]].key = runs[j][pointers[j]].key
                BY <2>1 DEF Aligned!Anchor
            <4> HIDE DEF taken
            <4> QED BY <4>1, <4>2
        <3>3. taken' = [i \in Aligned!Ids |-> IF i \in ids THEN taken[i] + 1 ELSE taken[i]]
            BY <2>0, <2>1 DEF Aligned!Ids
        <3> QED BY <2>1, <3>1, <3>2, <3>3 DEF Aligned!Merge!Take, Aligned!Ids
    <2>2. CASE Aligned!AlignedRow
        <3>1. PICK ids \in SUBSET Aligned!Active :
                  /\ ids = Aligned!Ids /\ runs' = runs
                  /\ \A i, j \in ids : Aligned!Anchor(i).key = Aligned!Anchor(j).key
                  /\ pointers' = [j \in Aligned!Ids |-> IF j \in ids THEN pointers[j] + 1
                                                              ELSE pointers[j]]
            BY <2>2, AlignedRowTakes
        <3>2. Aligned!Merge!Take(ids)
            BY <2>1, <3>1
        <3>3. ids = DOMAIN runs
            BY <3>1 DEF Aligned!Ids
        <3>4. Aligned!Merge!Take(DOMAIN runs)
            BY <3>2, <3>3 DEF Aligned!Merge!Take
        <3> QED BY <3>4 DEF Aligned!Merge!Next
    <2>3. CASE Aligned!DriftRow
        <3>1. PICK i \in emitting :
                  /\ i \in Aligned!Active /\ runs' = runs
                  /\ pointers' = [j \in Aligned!Ids |-> IF j \in {i} THEN pointers[j] + 1
                                                            ELSE pointers[j]]
            BY <2>3, DriftRowTakes
        <3>2. Aligned!Merge!Take({i}) /\ i \in Aligned!Ids
            BY <2>1, <3>1 DEF Aligned!Active
        <3> QED BY <3>2 DEF Aligned!Merge!Next, Aligned!Ids
    <2>4. CASE Aligned!Diverge
        BY <2>4 DEF Aligned!Diverge, Aligned!Merge!mergeVars, Aligned!Ids
    <2>5. CASE \E input \in Inputs : Aligned!Compare(input)
        <3>1. PICK input \in Inputs : runs' = input /\ pointers' = [i \in DOMAIN input |-> 1]
            BY <2>5 DEF Aligned!Compare
        <3>2. taken' = [i \in DOMAIN input |-> 0]
            BY <3>1 DEF Aligned!Ids
        <3> QED BY <3>1, <3>2 DEF Aligned!Merge!Next, Aligned!Merge!Renew, Aligned!Merge!Start
    <2>6. CASE UNCHANGED Aligned!alignVars
        BY <2>6 DEF Aligned!alignVars, Aligned!Merge!mergeVars, Aligned!Ids
    <2>7. CASE UNCHANGED Aligned!tapeVars
        BY <2>6, <2>7 DEF Aligned!tapeVars, Aligned!alignVars
    <2> QED BY <2>2, <2>3, <2>4, <2>5, <2>6, <2>7, OtherSteps
<1> QED
    BY <1>1, <1>2, TapeIsSound, TapePlays, PTL
       DEF Aligned!Spec, Merges, Aligned!Merges, Aligned!Merge!Spec

--------------------------------------------------------------------------------
(* A tool call. The card calls the algorithms of TurnText: what ListFacts shows of  *)
(* them holds of the calls it is given.                                            *)

\* The card's copies of the algorithms are the algorithms.
LEMMA DetailOperators ==
    ASSUME NEW s
    PROVE  /\ Detail!Cardinality(s) = Cardinality(s)
           /\ Detail!FlattenSeq(s) = FlattenSeq(s)
           /\ \A x : Detail!Contains(s, x) <=> Contains(s, x)
BY DEF Detail!Cardinality, Cardinality, Detail!FlattenSeq, FlattenSeq, Detail!Contains, Contains

LEMMA DetailBounds == ASSUME NEW s PROVE Detail!Max(s) = Text!Max(s) /\ Detail!Min(s) = Text!Min(s)
BY DEF Detail!Max, Text!Max, Detail!Min, Text!Min

LEMMA DetailDiffs ==
    ASSUME NEW o, NEW n
    PROVE  Detail!UnifiedDiff(o, n) = Text!UnifiedDiff(o, n)
<1>1. Detail!CommonPrefix(o, n) = Text!CommonPrefix(o, n)
    BY DetailBounds DEF Detail!CommonPrefix, Text!CommonPrefix
<1>2. ASSUME NEW most PROVE Detail!CommonSuffix(o, n, most) = Text!CommonSuffix(o, n, most)
    BY DetailBounds DEF Detail!CommonSuffix, Text!CommonSuffix
<1>3. ASSUME NEW p, NEW s PROVE Detail!Trimmed(o, n, p, s) = Text!Trimmed(o, n, p, s)
    BY DEF Detail!Trimmed, Text!Trimmed, Detail!Rows, Text!Rows
<1>4. Detail!DiffLines(o, n) = Text!DiffLines(o, n)
    BY <1>1, <1>2, <1>3, DetailBounds DEF Detail!DiffLines, Text!DiffLines
<1> QED BY <1>4, DetailOperators, TextCardinality DEF Detail!UnifiedDiff, Text!UnifiedDiff

LEMMA DetailReads ==
    ASSUME NEW rows1, NEW number, NEW other, NEW text
    PROVE  Detail!Reads(rows1, number, other, text) <=> Text!Reads(rows1, number, other, text)
BY DetailOperators, TextCardinality DEF Detail!Reads, Text!Reads

LEMMA DetailDrops ==
    ASSUME NEW segments
    PROVE  Detail!Dropped(segments) = Text!Dropped(segments)
BY DEF Detail!Dropped, Text!Dropped, Detail!HeaderTags, Text!HeaderTags

LEMMA DetailSnippets ==
    ASSUME NEW tool, NEW output, NEW all
    PROVE  Detail!ToolOutputSnippet(tool, output, all) = Text!ToolOutputSnippet(tool, output, all)
<1>1. Detail!Segments(output) = Text!Segments(output)
    BY DEF Detail!Segments, Text!Segments, Detail!None, Text!None
<1>2. ASSUME NEW counts, NEW k PROVE Detail!SumUpTo(counts, k) = Text!SumUpTo(counts, k)
    BY DEF Detail!SumUpTo, Text!SumUpTo
<1>3. ASSUME NEW s PROVE Detail!BodyLines(s) = Text!BodyLines(s)
    BY DetailBounds DEF Detail!BodyLines, Text!BodyLines, Detail!Listings, Text!Listings
<1>4. ASSUME NEW segments, NEW k PROVE Detail!Spent(segments, k) = Text!Spent(segments, k)
    BY <1>2, <1>3 DEF Detail!Spent, Text!Spent, Detail!Notices, Text!Notices,
                     Detail!HeaderTags, Text!HeaderTags
<1>5. ASSUME NEW segments, NEW k, NEW limit
      PROVE  Detail!Taken(segments, k, limit, all) = Text!Taken(segments, k, limit, all)
    BY <1>4, DetailBounds DEF Detail!Taken, Text!Taken
<1>6. ASSUME NEW segments PROVE Detail!TotalLines(segments) = Text!TotalLines(segments)
    BY <1>2 DEF Detail!TotalLines, Text!TotalLines, Detail!Listings, Text!Listings,
                Detail!None, Text!None
<1>7. ASSUME NEW segments PROVE Detail!Owed(segments) = Text!Owed(segments)
    BY <1>2, <1>3, DetailDrops DEF Detail!Owed, Text!Owed, Detail!Notices, Text!Notices,
       Detail!HeaderTags, Text!HeaderTags
<1> QED BY <1>1, <1>4, <1>5, <1>6, <1>7
        DEF Detail!ToolOutputSnippet, Text!ToolOutputSnippet, Detail!InlineLimit, Text!InlineLimit,
            Detail!KnownTags, Text!KnownTags, Detail!Listings, Text!Listings, Detail!Notices,
            Text!Notices, Detail!HeaderTags, Text!HeaderTags, Detail!None, Text!None

LEMMA DetailParses ==
    ASSUME NEW lines
    PROVE  Detail!ParsePatch(lines) = Text!ParsePatch(lines)
<1>1. Detail!None = Text!None /\ Detail!NoDiff = Text!NoDiff /\ Detail!Start = Text!Start
    BY DEF Detail!None, Text!None, Detail!NoDiff, Text!NoDiff, Detail!Start, Text!Start
<1>2. ASSUME NEW st PROVE Detail!Finalize(st) = Text!Finalize(st)
    BY <1>1 DEF Detail!Finalize, Text!Finalize
<1>3. ASSUME NEW st, NEW path1 PROVE Detail!PostImage(st, path1) = Text!PostImage(st, path1)
    BY <1>1, <1>2 DEF Detail!PostImage, Text!PostImage
<1>4. ASSUME NEW st, NEW mark PROVE Detail!Content(st, mark) = Text!Content(st, mark)
    BY <1>1 DEF Detail!Content, Text!Content
<1>5. ASSUME NEW st, NEW line PROVE Detail!ParseLine(st, line) = Text!ParseLine(st, line)
    BY <1>1, <1>2, <1>3, <1>4 DEF Detail!ParseLine, Text!ParseLine
<1> QED BY <1>1, <1>2, <1>5 DEF Detail!ParsePatch, Text!ParsePatch

LEMMA DetailSections ==
    ASSUME NEW f
    PROVE  /\ Detail!PathOf(f) = Text!PathOf(f)
           /\ \A bare : Detail!Section(f, bare) = Text!Section(f, bare)
BY DEF Detail!PathOf, Text!PathOf, Detail!Section, Text!Section, Detail!Line, Text!Line,
       Detail!None, Text!None

\* The card always shows one of the calls with the patch of its run.
DetailInv == \E d \in Details : call = d.call /\ patch = d.patch

\* What is hidden of an output is behind the button.
LEMMA OutputIsReachable == DetailInv => Detail!OutputReachable
<1> DEFINE P == ToSet(call.output)
<1> SUFFICES ASSUME DetailInv, \A k \in DOMAIN call.output :
                        call.output[k].tag \in Detail!Listings \cup Detail!Notices \cup {Detail!None},
                    Detail!Dropped(Detail!Segments(call.output)) = {}
             PROVE  LET output == Detail!ToolUseBlock(call, expanded).output IN
                    output.hidden <= output.more
    BY DEF Detail!OutputReachable
<1>1. call.output \in Seq(P) /\ \A s \in P : s.lines \in Nat \ {0} /\ s.footer \in Nat
    BY DetailAssumption DEF DetailInv
<1>2. \A s \in P : s.tag \in Text!Listings \cup Text!Notices \cup {Text!None}
    BY <1>1 DEF ToSet, Detail!Listings, Text!Listings, Detail!Notices, Text!Notices,
                Detail!HeaderTags, Text!HeaderTags, Detail!None, Text!None
<1>3. Detail!ToolUseBlock(call, expanded).output = Text!ToolOutputSnippet(call.tool, call.output, expanded)
    BY DetailSnippets DEF Detail!ToolUseBlock
<1> HIDE DEF P
<1>4. LET shown1 == Text!ToolOutputSnippet(call.tool, call.output, expanded)
      IN  shown1.hidden <= shown1.more
    <2>1. Text!Dropped(Text!Segments(call.output)) = {}
        BY DetailDrops DEF Detail!Segments, Text!Segments, Detail!None, Text!None
    <2> QED BY <1>1, <1>2, <2>1, ClippedIsCounted
<1> QED BY <1>3, <1>4

\* Both texts of an edit can be read off its rows.
LEMMA EditIsRecoverable == DetailInv => Detail!EditRecoverable
<1> DEFINE diff == Detail!ToolUseBlock(call, expanded).diff
           T == ToSet(call.old) \cup ToSet(call.new)
<1> SUFFICES ASSUME DetailInv, diff # <<>>
             PROVE  /\ Detail!Reads(diff, [k \in DOMAIN diff |-> diff[k].old], "+", call.old)
                    /\ Detail!Reads(diff, [k \in DOMAIN diff |-> diff[k].new], "-", call.new)
    BY DEF Detail!EditRecoverable
<1>1. diff = Text!UnifiedDiff(call.old, call.new)
    BY DetailDiffs DEF Detail!ToolUseBlock
<1>2. call.old \in Seq(ToSet(call.old)) /\ call.new \in Seq(ToSet(call.new))
    BY DetailAssumption DEF DetailInv
<1>3. /\ Len(call.old) \in Nat /\ Len(call.new) \in Nat
      /\ IsText(T, call.old, Len(call.old)) /\ IsText(T, call.new, Len(call.new))
    <2> HIDE DEF T
    <2> QED BY <1>2 DEF T, IsText
<1> HIDE DEF diff, T
<1> QED BY <1>1, <1>3, EditIsRead, DetailReads

\* Every file with changes has its own entry with its own lines.
LEMMA PatchIsCountedAlways == DetailInv => Detail!PatchIsCounted
<1> DEFINE files == patch.files
           changed == {i \in DOMAIN files : files[i].content # <<>>}
           Count(f, mark) == Detail!Cardinality({i \in DOMAIN f.content : f.content[i] = mark})
<1> SUFFICES ASSUME DetailInv, \A i \in changed : ~Detail!Contains(files[i].content, "dashes")
             PROVE  Detail!ParsePatch(Detail!PatchText(patch)) =
                        {LET f == files[i] IN
                         [path |-> Detail!PathOf(f),
                          added |-> Count(f, "+"), removed |-> Count(f, "-"),
                          hunks |-> <<"@@">> \o f.content] : i \in changed}
    BY DEF Detail!PatchIsCounted
<1>1. /\ files \in Seq(ToSet(files))
      /\ \A f \in ToSet(files) : /\ Detail!PathOf(f) # Detail!None
                                 /\ f.content \in Seq({"kept", "-", "+", "dashes"})
      /\ \A i, j \in DOMAIN files : i # j => Detail!PathOf(files[i]) # Detail!PathOf(files[j])
    BY DetailAssumption DEF DetailInv
<1>2. \A i \in DOMAIN files : files[i] \in ToSet(files)
    BY DEF ToSet
<1>3. ASSUME NEW i \in DOMAIN files PROVE files[i].content \in Seq(Marks)
    <2> DEFINE c == files[i].content
    <2>1. c \in Seq({"kept", "-", "+", "dashes"})
        BY <1>1, <1>2
    <2>2. c # <<>> => ~Contains(c, "dashes")
        BY DetailOperators
    <2> HIDE DEF c
    <2>3. \A k \in 1..Len(c) : c[k] # "dashes"
        <3>1. c = <<>> => 1..Len(c) = {}
            OBVIOUS
        <3> QED BY <2>2, <3>1 DEF Contains
    <2>4. \A k \in 1..Len(c) : c[k] \in Marks
        BY <2>1, <2>3 DEF Marks
    <2>5. c \in Seq(Marks)
        BY <2>1, <2>4
    <2> QED BY <2>5 DEF c
<1>4. Separable(files)
    BY <1>1, <1>2, <1>3, DetailSections DEF Separable, Detail!None, Text!None
<1>5. Detail!ParsePatch(Detail!PatchText(patch)) = EntriesUpTo(files, Len(files))
    <2> DEFINE sections == [i \in DOMAIN files |-> Text!Section(files[i], patch.bare)]
    <2>1. sections = [i \in DOMAIN files |-> Detail!Section(files[i], patch.bare)]
        BY DetailSections
    <2>2. Detail!PatchText(patch) = FlattenSeq(sections)
        <3> HIDE DEF sections
        <3> QED BY <2>1, DetailOperators DEF Detail!PatchText
    <2>3. Text!ParsePatch(FlattenSeq(sections)) = EntriesUpTo(files, Len(files))
        BY <1>4, PatchParsed
    <2> HIDE DEF sections
    <2> QED BY <2>2, <2>3, DetailParses
<1>6. ChangedUpTo(files, Len(files)) = changed
    <2>1. DOMAIN files = 1..Len(files)
        BY <1>1
    <2> QED BY <2>1 DEF ChangedUpTo
<1>7. ASSUME NEW i \in changed
      PROVE  EntryOf(files[i]) = [path |-> Detail!PathOf(files[i]),
                                  added |-> Count(files[i], "+"), removed |-> Count(files[i], "-"),
                                  hunks |-> <<"@@">> \o files[i].content]
    <2> DEFINE f == files[i]
    <2>1. DOMAIN f.content = 1..Len(f.content)
        BY <1>3
    <2> HIDE DEF f
    <2>2. \A mark : Count(f, mark) = Marked(f.content, mark, Len(f.content))
        BY <2>1, DetailOperators DEF Marked
    <2> HIDE DEF Count
    <2>3. EntryOf(f) = [path |-> Detail!PathOf(f),
                        added |-> Count(f, "+"), removed |-> Count(f, "-"),
                        hunks |-> <<"@@">> \o f.content]
        BY <2>2, DetailSections DEF EntryOf, DiffOf
    <2> QED BY <2>3 DEF f
<1> HIDE DEF changed, Count, files
<1>8. EntriesUpTo(files, Len(files)) = {EntryOf(files[i]) : i \in changed}
    BY <1>6 DEF EntriesUpTo
<1> QED BY <1>5, <1>7, <1>8 DEF files

\* The visit of the inspector plays the card.
LEMMA DetailPlays == PagesSpec => Detail!Spec
<1>1. PagesInit => Detail!Init
    BY DEF PagesInit
<1>2. [PagesNext]_pagesVars => [Detail!Next]_Detail!detailVars
    BY DEF PagesNext, On, pagesVars, detailVars, Detail!detailVars
<1> QED BY <1>1, <1>2, PTL DEF PagesSpec, Detail!Spec, pagesVars

\* The card is only ever given a call of the run and its patch together.
LEMMA DetailIsSound == Detail!Spec => []DetailInv
<1>1. Detail!Init => DetailInv
    BY DEF Detail!Init, Detail!Mounted, DetailInv
<1>2. DetailInv /\ [Detail!Next]_Detail!detailVars => DetailInv'
    BY DEF DetailInv, Detail!Next, Detail!Toggle, Detail!Refetch, Detail!ScrollAway, Detail!detailVars
<1> QED BY <1>1, <1>2, PTL DEF Detail!Spec

\* Whatever call is shown, of whatever text and patch and of any output of the counted
\* tags that repeats neither path nor type, the card and the pane show it whole:
\* blocks.tsx and parse-patch.ts lose no line, count none twice and mix up no files.
THEOREM CallsAreShownWhole == PagesSpec => []TurnIsShownWhole
<1>1. DetailInv => TurnIsShownWhole
    BY EditIsRecoverable, OutputIsReachable, PatchIsCountedAlways
       DEF TurnIsShownWhole, Detail!TurnIsShownWhole
<1> QED BY <1>1, DetailPlays, DetailIsSound, PTL
================================================================================
