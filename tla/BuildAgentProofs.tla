-------------------------- MODULE BuildAgentProofs --------------------------
(***************************************************************************)
(* Theorems about BuildAgent, for any number of builds and issues, and     *)
(* whatever numbers Jenkins gives the builds.                              *)
(***************************************************************************)
EXTENDS BuildAgent, FiniteSetTheorems, TLAPS

-----------------------------------------------------------------------------
(* trigger_time                                                            *)

\* A set of naturals that is bounded and not empty has a greatest element.
LEMMA Greatest ==
  ASSUME NEW T \in SUBSET Nat, T # {}, NEW m \in Nat, \A t \in T : t <= m
  PROVE  \E t \in T : \A u \in T : u <= t
  <1> DEFINE Above == {k \in Nat : \A t \in T : t <= k}
             Less == OpToRel(<, Nat)
  <1>1. Above \subseteq Nat /\ m \in Above
    OBVIOUS
  <1>2. IsWellFoundedOn(Less, Nat)
    BY NatLessThanWellFounded
  <1>3. \A x, y \in Nat : x < y => <<x, y>> \in Less
    BY DEF OpToRel
  <1> HIDE DEF Less
  <1>4. PICK x \in Above : \A y \in Above : ~ (<<y, x>> \in Less)
    <2> HIDE DEF Above
    <2> QED
      BY <1>1, <1>2, WFMin
  <1>5. ASSUME NEW y \in Above PROVE x <= y
    <2>1. x \in Nat /\ y \in Nat
      OBVIOUS
    <2>2. ~ (y < x)
      <3> HIDE DEF Above
      <3> QED
        BY <1>3, <1>4, <2>1
    <2> QED
      BY <2>1, <2>2
  <1>6. x \in T
    <2>1. CASE x = 0
      <3>1. PICK t \in T : TRUE
        OBVIOUS
      <3>2. t \in Nat /\ t <= x
        BY <1>4
      <3> QED
        BY <2>1, <3>2
    <2>2. CASE x # 0
      <3>1. x - 1 \in Nat /\ x - 1 \notin Above
        BY <1>4, <1>5, <2>2
      <3>2. PICK t \in T : ~ (t <= x - 1)
        BY <3>1
      <3>3. t = x
        BY <1>4, <3>1, <3>2
      <3> QED
        BY <3>3
    <2> QED
      BY <2>1, <2>2
  <1> QED
    BY <1>4, <1>6

\* The clock: some time bounds every trigger_time so far.
TimesAreBounded == \E m \in Nat : \A n \in Numbers : table[n].trigger_time <= m

\* A new entry's time is one more than the greatest in the table.
LEMMA NowIsATime ==
  ASSUME TypeOK, NEW m \in Nat, \A n \in Numbers : table[n].trigger_time <= m
  PROVE  Now \in Nat /\ Now <= m + 1
  <1>1. CASE Active = {}
    BY <1>1 DEF Now
  <1>2. CASE Active # {}
    <2> DEFINE T == {table[n].trigger_time : n \in Active}
    <2>1. T \in SUBSET Nat /\ T # {} /\ \A t \in T : t <= m
      <3>1. \A n \in Active : table[n].trigger_time \in Nat /\ table[n].trigger_time <= m
        BY DEF TypeOK, Active
      <3> QED
        BY <1>2, <3>1
    <2>2. PICK t \in T : \A u \in T : u <= t
      <3> HIDE DEF T
      <3> QED
        BY <2>1, Greatest
    <2>3. \E n \in Active : Newest(n)
      BY <2>2 DEF Newest
    <2> DEFINE c == CHOOSE n \in Active : Newest(n)
    <2>4. c \in Active
      BY <2>3
    <2>5. Now = 1 + table[c].trigger_time
      BY <1>2 DEF Now
    <2> HIDE DEF c
    <2>6. table[c].trigger_time \in Nat /\ table[c].trigger_time <= m
      BY <2>4 DEF TypeOK, Active
    <2> QED
      BY <2>5, <2>6
  <1> QED
    BY <1>1, <1>2

-----------------------------------------------------------------------------
(* Types, and the entries of g_active_builds                                *)

TableInv == TypeOK /\ TimesAreBounded /\ EntryAtItsNumber /\ NothingLeaks

\* The entry that stands for none is one.
LEMMA NoBuildType ==
  /\ NoBuild \in [build : Builds \cup {None}, waiting_review : BOOLEAN, trigger_time : Nat]
  /\ NoBuild.build = None /\ ~ NoBuild.waiting_review /\ NoBuild.trigger_time = 0
  BY DEF NoBuild

\* Where the builds of the table are entered, and what reviews are about.
LEMMA NumbersOfBuilds ==
  /\ \A b \in Builds : NumberOf[b] # 0 => NumberOf[b] \in Numbers
  /\ \A b \in Builds : IssueOf[b] \in Issues
  BY NumberAssumption DEF Numbers, Issues

\* The empty table satisfies the invariant.
LEMMA InitTableInv == Init => TableInv
  <1> SUFFICES ASSUME Init PROVE TableInv
    OBVIOUS
  <1>1. TypeOK
    <2>1. table \in [Numbers -> [build : Builds \cup {None}, waiting_review : BOOLEAN,
                                 trigger_time : Nat]]
      BY NoBuildType DEF Init
    <2>2. /\ thread \in [Builds -> Live \cup {"none", "queued", "ended"}]
          /\ reported \in [Builds -> Nat]
          /\ pending \in [Issues -> Nat] /\ answered \in [Issues -> Nat]
      BY DEF Init
    <2>3. requests \in 0 .. MaxRequests
      BY BuildBoundsAssumption DEF Init
    <2> QED
      BY <2>1, <2>2, <2>3 DEF Init, TypeOK
  <1>2. Active = {}
    BY NoBuildType DEF Init, Active
  <1>3. TimesAreBounded
    BY NoBuildType DEF Init, TimesAreBounded
  <1> QED
    BY <1>1, <1>2, <1>3 DEF TableInv, EntryAtItsNumber, NothingLeaks

\* A step that leaves the table alone and ends no live thread keeps it in order.
LEMMA TableKept ==
  ASSUME TableInv, TypeOK', table' = table,
         \A b \in Builds : thread[b] \in Live => thread'[b] \in Live
  PROVE  TableInv'
  <1>1. Active' = Active
    BY DEF Active
  <1>2. TimesAreBounded' /\ EntryAtItsNumber'
    BY <1>1 DEF TableInv, TimesAreBounded, EntryAtItsNumber
  <1>3. NothingLeaks'
    BY <1>1 DEF TableInv, NothingLeaks, TypeOK, Active
  <1> QED
    BY <1>2, <1>3 DEF TableInv

\* Erasing the entry of a number: the thread that owned it may end.
LEMMA TableErased ==
  ASSUME TableInv, TypeOK', NEW n, table' = [table EXCEPT ![n] = NoBuild],
         \A b \in Builds : thread[b] \in Live /\ NumberOf[b] # n => thread'[b] \in Live
  PROVE  TableInv'
  <1>t. DOMAIN table = Numbers
    BY DEF TableInv, TypeOK
  <1>1. \A k \in Numbers : table'[k] = IF k = n THEN NoBuild ELSE table[k]
    BY <1>t
  <1>2. Active' = Active \ {n}
    BY <1>1, NoBuildType DEF Active
  <1>3. \A k \in Active' : k \in Active /\ k # n /\ table'[k] = table[k]
    BY <1>1, <1>2 DEF Active
  <1>4. PICK m \in Nat : \A k \in Numbers : table[k].trigger_time <= m
    BY DEF TableInv, TimesAreBounded
  <1>5. \A k \in Numbers : table'[k].trigger_time <= m
    BY <1>1, <1>4, NoBuildType
  <1>6. TimesAreBounded'
    BY <1>5 DEF TimesAreBounded
  <1>7. EntryAtItsNumber'
    BY <1>3 DEF TableInv, EntryAtItsNumber
  <1>8. NothingLeaks'
    <2> SUFFICES ASSUME NEW k \in Active', ~ table'[k].waiting_review
                 PROVE  thread'[table'[k].build] \in Live
      BY DEF NothingLeaks
    <2>1. table[k].build \in Builds /\ NumberOf[table[k].build] = k /\ thread[table[k].build] \in Live
      BY <1>3 DEF TableInv, TypeOK, Active, EntryAtItsNumber, NothingLeaks
    <2> QED
      BY <1>3, <2>1
  <1> QED
    BY <1>6, <1>7, <1>8 DEF TableInv

\* Marking the entry of a number: the thread that owned it may end.
LEMMA TableMarked ==
  ASSUME TableInv, TypeOK', NEW n, table' = Marked(n),
         \A b \in Builds : thread[b] \in Live /\ NumberOf[b] # n => thread'[b] \in Live
  PROVE  TableInv'
  <1>t. table \in [Numbers -> [build : Builds \cup {None}, waiting_review : BOOLEAN,
                               trigger_time : Nat]]
    BY DEF TableInv, TypeOK
  <1>1. \A k \in Numbers :
            /\ table'[k].build = table[k].build
            /\ table'[k].trigger_time = table[k].trigger_time
            /\ table'[k].waiting_review = (table[k].waiting_review \/ (k = n /\ k \in Active))
    BY <1>t DEF Marked, Active
  <1>2. Active' = Active /\ Active \subseteq Numbers
    BY <1>1 DEF Active
  <1>3. TimesAreBounded'
    BY <1>1 DEF TableInv, TimesAreBounded
  <1>4. EntryAtItsNumber'
    BY <1>1, <1>2 DEF TableInv, EntryAtItsNumber
  <1>5. NothingLeaks'
    <2> SUFFICES ASSUME NEW k \in Active', ~ table'[k].waiting_review
                 PROVE  thread'[table'[k].build] \in Live
      BY DEF NothingLeaks
    <2>1. k \in Active /\ k # n /\ ~ table[k].waiting_review /\ table'[k].build = table[k].build
      BY <1>1, <1>2
    <2>2. table[k].build \in Builds /\ NumberOf[table[k].build] = k /\ thread[table[k].build] \in Live
      BY <2>1, <1>t DEF TableInv, Active, EntryAtItsNumber, NothingLeaks
    <2> QED
      BY <2>1, <2>2
  <1> QED
    BY <1>3, <1>4, <1>5 DEF TableInv

\* An entry for a build whose poll thread is about to start.
LEMMA TableAdded ==
  ASSUME TableInv, NEW b \in Builds, NumberOf[b] # 0,
         table' = [table EXCEPT ![NumberOf[b]] = [build |-> b, waiting_review |-> FALSE,
                                                  trigger_time |-> Now]],
         thread' = [thread EXCEPT ![b] = "polling"],
         clashed' = clashed \cup ({NumberOf[b]} \cap Active),
         UNCHANGED <<io, watch, reviews, reported, life, crashed>>
  PROVE  TableInv'
  <1> DEFINE e == [build |-> b, waiting_review |-> FALSE, trigger_time |-> Now]
             n == NumberOf[b]
  <1>0. n \in Numbers
    BY NumbersOfBuilds
  <1>1. PICK m \in Nat : \A k \in Numbers : table[k].trigger_time <= m
    BY DEF TableInv, TimesAreBounded
  <1>2. Now \in Nat /\ Now <= m + 1
    BY <1>1, NowIsATime DEF TableInv
  <1> DEFINE t == Now
  <1>3. e.build = b /\ e.trigger_time = t /\ t \in Nat /\ t <= m + 1
        /\ e \in [build : Builds \cup {None}, waiting_review : BOOLEAN, trigger_time : Nat]
    BY <1>2
  <1>4. table' = [table EXCEPT ![n] = e]
    OBVIOUS
  <1> HIDE DEF e, n, t
  <1>5. TypeOK'
    <2>1. table' \in [Numbers -> [build : Builds \cup {None}, waiting_review : BOOLEAN,
                                  trigger_time : Nat]]
      BY <1>0, <1>3, <1>4 DEF TableInv, TypeOK
    <2>2. thread' \in [Builds -> Live \cup {"none", "queued", "ended"}]
      BY DEF TableInv, TypeOK, Live
    <2>3. clashed' \subseteq Numbers
      BY <1>0 DEF TableInv, TypeOK, n
    <2> QED
      BY <2>1, <2>2, <2>3 DEF TableInv, TypeOK, watch, reviews
  <1>6. \A k \in Numbers : table'[k] = IF k = n THEN e ELSE table[k]
    BY <1>0, <1>4 DEF TableInv, TypeOK
  <1>7. TimesAreBounded'
    <2>1. \A k \in Numbers : table[k].trigger_time \in Nat
      BY DEF TableInv, TypeOK
    <2>2. \A k \in Numbers : table'[k].trigger_time <= m + 1
      BY <1>1, <1>3, <1>6, <2>1
    <2> QED
      BY <2>2 DEF TimesAreBounded
  <1>8. Active' = Active \cup {n}
    BY <1>0, <1>3, <1>6, BuildNoneAssumption DEF Active
  <1>9. EntryAtItsNumber'
    <2>1. NumberOf[b] = n
      BY DEF n
    <2>2. \A k \in Active' : k \in Numbers
      BY DEF Active
    <2> QED
      BY <1>3, <1>6, <1>8, <2>1, <2>2 DEF TableInv, EntryAtItsNumber
  <1>10. NothingLeaks'
    <2> SUFFICES ASSUME NEW k \in Active', ~ table'[k].waiting_review
                 PROVE  thread'[table'[k].build] \in Live
      BY DEF NothingLeaks
    <2>1. thread'[b] = "polling" /\ \A c \in Builds : c # b => thread'[c] = thread[c]
      BY DEF TableInv, TypeOK
    <2>2. CASE k = n
      BY <1>0, <1>3, <1>6, <2>1, <2>2 DEF Live
    <2>3. CASE k # n
      <3>1. k \in Active /\ table'[k] = table[k] /\ table[k].build \in Builds
        BY <1>6, <1>8, <2>3 DEF TableInv, TypeOK, Active
      <3>2. thread[table[k].build] \in Live
        BY <3>1 DEF TableInv, NothingLeaks
      <3> QED
        BY <2>1, <3>1, <3>2 DEF Live
    <2> QED
      BY <2>2, <2>3
  <1> QED
    BY <1>5, <1>7, <1>9, <1>10 DEF TableInv

\* What a poll thread's steps do to its place.
LEMMA PollSteps ==
  ASSUME TypeOK, NEW b \in Builds, PollStep(b)
  PROVE  /\ thread[b] \in Live
         /\ \E pc \in Live \cup {"ended"} : thread' = [thread EXCEPT ![b] = pc]
         /\ thread' \in [Builds -> Live \cup {"none", "queued", "ended"}]
         /\ \A c \in Builds : c # b => thread'[c] = thread[c]
         /\ thread'[b] \in Live \/ MarksWaiting(b) \/ Erases(b)
  <1>t. thread \in [Builds -> Live \cup {"none", "queued", "ended"}]
    BY DEF TypeOK
  <1>1. \/ \E pc \in Live : thread' = [thread EXCEPT ![b] = pc]
        \/ thread' = [thread EXCEPT ![b] = "ended"] /\ (MarksWaiting(b) \/ Erases(b))
    <2>1. CASE ChecksSpecial(b)
      BY <2>1 DEF ChecksSpecial, Live
    <2>2. CASE PollEnds(b) \/ AsksForReview(b) \/ SendsResult(b)
      BY <2>2 DEF PollEnds, AsksForReview, SendsResult, Live
    <2>3. CASE MarksWaiting(b) \/ Erases(b)
      BY <2>3 DEF MarksWaiting, Erases
    <2> QED
      BY <2>1, <2>2, <2>3 DEF PollStep
  <1>2. thread[b] \in Live
    BY DEF PollStep, PollEnds, ChecksSpecial, AsksForReview, MarksWaiting, SendsResult, Erases, Live
  <1> QED
    BY <1>t, <1>1, <1>2

\* The counters of messages keep their types.
LEMMA CounterTypes ==
  ASSUME TypeOK
  PROVE  /\ \A b \in Builds : Reports(b) => reported' \in [Builds -> Nat]
         /\ UsesClient => crashed' \in BOOLEAN
         /\ \A i \in Issues : RequestsReview(i) => pending' \in [Issues -> Nat]
  <1>1. ASSUME NEW b \in Builds, Reports(b) PROVE reported' \in [Builds -> Nat]
    BY <1>1 DEF TypeOK, Reports
  <1>2. ASSUME UsesClient PROVE crashed' \in BOOLEAN
    BY <1>2 DEF UsesClient
  <1>3. ASSUME NEW i \in Issues, RequestsReview(i) PROVE pending' \in [Issues -> Nat]
    BY <1>3 DEF TypeOK, RequestsReview
  <1> QED
    BY <1>1, <1>2, <1>3

\* The table keeps its type, whichever entry is erased or marked.
LEMMA TableTypes ==
  ASSUME TypeOK, NEW n,
         table' = table \/ table' = [table EXCEPT ![n] = NoBuild] \/ table' = Marked(n)
  PROVE  table' \in [Numbers -> [build : Builds \cup {None}, waiting_review : BOOLEAN,
                                 trigger_time : Nat]]
  <1>1. table \in [Numbers -> [build : Builds \cup {None}, waiting_review : BOOLEAN,
                               trigger_time : Nat]]
    BY DEF TypeOK
  <1>2. CASE table' = [table EXCEPT ![n] = NoBuild]
    BY <1>1, <1>2, NoBuildType
  <1>3. CASE table' = Marked(n)
    BY <1>1, <1>3 DEF Marked, Active
  <1> QED
    BY <1>1, <1>2, <1>3

\* The steps of the message callback, apart from a registration.
LEMMA CallbackTableInv ==
  ASSUME TableInv,
         \/ \E b \in Builds : TriggerFails(b) \/ Trigger(b)
         \/ \E i \in Issues : ReviewResult(i)
         \/ ReviewReports
  PROVE  TableInv'
  <1>t. TypeOK
    BY DEF TableInv
  <1>1. ASSUME NEW b \in Builds, TriggerFails(b) PROVE TableInv'
    <2>1. /\ thread[b] = "none" /\ thread' = [thread EXCEPT ![b] = "ended"]
          /\ Reports(b) /\ UsesClient
          /\ UNCHANGED <<table, io, watch, reviews, life, clashed>>
      BY <1>1 DEF TriggerFails
    <2>2. reported' \in [Builds -> Nat] /\ crashed' \in BOOLEAN
      BY <1>t, <2>1, CounterTypes
    <2>3. thread' \in [Builds -> Live \cup {"none", "queued", "ended"}]
          /\ \A c \in Builds : thread[c] \in Live => thread'[c] \in Live
      BY <1>t, <2>1 DEF TypeOK, Live
    <2>4. TypeOK'
      BY <1>t, <2>1, <2>2, <2>3 DEF TypeOK, watch, reviews
    <2> QED
      BY <2>1, <2>3, <2>4, TableKept
  <1>2. ASSUME NEW b \in Builds, Trigger(b) PROVE TableInv'
    <2>1. CASE NumberOf[b] = 0
      <3>1. /\ thread[b] = "none" /\ thread' = [thread EXCEPT ![b] = "queued"]
            /\ UNCHANGED <<table, io, watch, reviews, reported, life, crashed, clashed>>
        BY <1>2, <2>1 DEF Trigger, Active, Numbers
      <3>2. thread' \in [Builds -> Live \cup {"none", "queued", "ended"}]
            /\ \A c \in Builds : thread[c] \in Live => thread'[c] \in Live
        BY <1>t, <3>1 DEF TypeOK, Live
      <3>3. TypeOK'
        BY <1>t, <3>1, <3>2 DEF TypeOK, watch, reviews
      <3> QED
        BY <3>1, <3>2, <3>3, TableKept
    <2>2. CASE NumberOf[b] # 0
      BY <1>2, <2>2, TableAdded DEF Trigger
    <2> QED
      BY <2>1, <2>2
  <1>3. ASSUME NEW i \in Issues, ReviewResult(i) PROVE TableInv'
    <2>1. /\ pending[i] > 0
          /\ pending' = [pending EXCEPT ![i] = @ - 1]
          /\ answered' = [answered EXCEPT ![i] = @ + 1]
          /\ missed' = missed \/ missed' = missed \cup {i}
          /\ UNCHANGED <<thread, watch, asked, reported, life, crashed, clashed>>
      BY <1>3 DEF ReviewResult
    <2>2. /\ pending' \in [Issues -> Nat] /\ answered' \in [Issues -> Nat]
          /\ missed' \subseteq Issues
      BY <1>t, <2>1 DEF TypeOK
    <2>3. ASSUME NEW n \in WaitingFor(i), Release(n) PROVE TableInv'
      <3>1. io' = table[n].build /\ table' = [table EXCEPT ![n] = NoBuild]
        BY <2>3 DEF Release
      <3>2. io' \in Builds \cup {None}
        BY <1>t, <3>1 DEF TypeOK, WaitingFor, Active
      <3>3. table' \in [Numbers -> [build : Builds \cup {None}, waiting_review : BOOLEAN,
                                    trigger_time : Nat]]
        BY <1>t, <3>1, TableTypes
      <3>4. TypeOK'
        BY <1>t, <2>1, <2>2, <3>2, <3>3 DEF TypeOK, watch
      <3> QED
        BY <2>1, <3>1, <3>4, TableErased
    <2>4. CASE UNCHANGED <<io, table>>
      <3>1. TypeOK'
        BY <1>t, <2>1, <2>2, <2>4 DEF TypeOK, watch
      <3> QED
        BY <2>1, <2>4, <3>1, TableKept
    <2> QED
      BY <1>3, <2>3, <2>4 DEF ReviewResult
  <1>4. CASE ReviewReports
    <2>1. /\ io # None /\ io' = None
          /\ Reports(io) /\ UsesClient
          /\ UNCHANGED <<thread, table, watch, reviews, life, clashed>>
      BY <1>4 DEF ReviewReports
    <2>2. io \in Builds
      BY <1>t, <2>1 DEF TypeOK
    <2>3. reported' \in [Builds -> Nat] /\ crashed' \in BOOLEAN
      BY <1>t, <2>1, <2>2, CounterTypes
    <2>4. TypeOK'
      BY <1>t, <2>1, <2>3 DEF TypeOK, watch, reviews
    <2> QED
      BY <2>1, <2>4, TableKept
  <1> QED
    BY <1>1, <1>2, <1>3, <1>4

\* The steps of a poll thread: it ends by marking its entry or by erasing it.
LEMMA PollTableInv == ASSUME TableInv, NEW b \in Builds, PollStep(b) PROVE TableInv'
  <1>t. TypeOK
    BY DEF TableInv
  <1>1. /\ thread[b] \in Live
        /\ thread' \in [Builds -> Live \cup {"none", "queued", "ended"}]
        /\ \A c \in Builds : c # b => thread'[c] = thread[c]
        /\ thread'[b] \in Live \/ MarksWaiting(b) \/ Erases(b)
    BY <1>t, PollSteps
  <1>2. \A c \in Builds : thread[c] \in Live /\ NumberOf[c] # NumberOf[b] => thread'[c] \in Live
    BY <1>1
  <1>3. CASE PollEnds(b) \/ ChecksSpecial(b)
    <2>1. UNCHANGED <<table, io, watch, reviews, reported, life, crashed, clashed>>
      BY <1>3 DEF PollEnds, ChecksSpecial
    <2>2. thread'[b] \in Live
      BY <1>1, <1>3 DEF PollEnds, ChecksSpecial, MarksWaiting, Erases
    <2>3. TypeOK'
      BY <1>t, <1>1, <2>1 DEF TypeOK, watch, reviews
    <2> QED
      BY <1>1, <2>1, <2>2, <2>3, TableKept
  <1>4. CASE AsksForReview(b)
    <2>1. /\ asked' = asked \cup {b}
          /\ RequestsReview(IssueOf[b]) /\ UsesClient
          /\ missed' = missed \/ missed' = missed \cup {IssueOf[b]}
          /\ UNCHANGED <<table, io, watch, answered, reported, life, clashed>>
      BY <1>4 DEF AsksForReview
    <2>2. thread'[b] \in Live
      BY <1>1, <1>4 DEF AsksForReview, MarksWaiting, Erases
    <2>3. pending' \in [Issues -> Nat] /\ crashed' \in BOOLEAN
      BY <1>t, <2>1, CounterTypes, NumbersOfBuilds
    <2>4. TypeOK'
      BY <1>t, <1>1, <2>1, <2>3, NumbersOfBuilds DEF TypeOK, watch
    <2> QED
      BY <1>1, <2>1, <2>2, <2>4, TableKept
  <1>5. CASE SendsResult(b)
    <2>1. /\ Reports(b) /\ UsesClient
          /\ UNCHANGED <<table, io, watch, reviews, life, clashed>>
      BY <1>5 DEF SendsResult
    <2>2. thread'[b] \in Live
      BY <1>1, <1>5 DEF SendsResult, MarksWaiting, Erases
    <2>3. reported' \in [Builds -> Nat] /\ crashed' \in BOOLEAN
      BY <1>t, <2>1, CounterTypes
    <2>4. TypeOK'
      BY <1>t, <1>1, <2>1, <2>3 DEF TypeOK, watch, reviews
    <2> QED
      BY <1>1, <2>1, <2>2, <2>4, TableKept
  <1>6. CASE MarksWaiting(b) \/ Erases(b)
    <2>1. /\ table' = Marked(NumberOf[b]) \/ table' = [table EXCEPT ![NumberOf[b]] = NoBuild]
          /\ UNCHANGED <<io, watch, reviews, reported, life, crashed, clashed>>
      BY <1>6 DEF MarksWaiting, Erases
    <2>2. table' \in [Numbers -> [build : Builds \cup {None}, waiting_review : BOOLEAN,
                                  trigger_time : Nat]]
      BY <1>t, <2>1, TableTypes
    <2>3. TypeOK'
      BY <1>t, <1>1, <2>1, <2>2 DEF TypeOK, watch, reviews
    <2> QED
      BY <1>2, <2>1, <2>3, TableErased, TableMarked
  <1> QED
    BY <1>3, <1>4, <1>5, <1>6 DEF PollStep

\* The steps of main, and stuttering.
LEMMA MainTableInv ==
  ASSUME TableInv,
         WatchPicks \/ WatchRequests \/ Signal \/ CutsClient \/ Exit \/ UNCHANGED vars
  PROVE  TableInv'
  <1>t. TypeOK
    BY DEF TableInv
  <1>1. UNCHANGED <<thread, table>>
    BY DEF WatchPicks, WatchRequests, Signal, CutsClient, Exit, vars
  <1>2. TypeOK'
    <2>1. CASE WatchPicks
      <3>1. PICK n \in Active : monitor' = IssueOf[table[n].build]
        BY <2>1 DEF WatchPicks
      <3>2. monitor' \in Issues
        BY <1>t, <3>1, NumbersOfBuilds DEF TypeOK, Active
      <3>3. requests' \in 0 .. MaxRequests
        BY <1>t, <2>1, BuildBoundsAssumption DEF TypeOK, WatchPicks
      <3> QED
        BY <1>t, <2>1, <3>2, <3>3 DEF TypeOK, WatchPicks, reviews
    <2>2. CASE WatchRequests
      <3>1. monitor \in Issues
        BY <1>t, <2>2 DEF TypeOK, WatchRequests
      <3>2. pending' \in [Issues -> Nat]
        BY <1>t, <2>2, <3>1, CounterTypes DEF WatchRequests
      <3> QED
        BY <1>t, <2>2, <3>2 DEF TypeOK, WatchRequests
    <2>3. CASE Signal \/ CutsClient \/ Exit
      BY <1>t, <2>3 DEF TypeOK, Signal, CutsClient, Exit, watch, reviews
    <2>4. CASE UNCHANGED vars
      BY <1>t, <2>4 DEF TypeOK, vars, watch, reviews
    <2> QED
      BY <2>1, <2>2, <2>3, <2>4
  <1> QED
    BY <1>1, <1>2, TableKept

\* Every step of callback, poll threads and main keeps it.
LEMMA StepTableInv == ASSUME TableInv, [Next]_vars PROVE TableInv'
  BY CallbackTableInv, PollTableInv, MainTableInv DEF Next

\* The table, the threads and the counters of reviews keep their types, also when
\* builds share a number (agent_main.cpp:202-307, 326-459).
THEOREM TypeCorrect == Spec => []TypeOK
  <1>1. TableInv => TypeOK
    BY DEF TableInv
  <1> QED
    BY <1>1, InitTableInv, StepTableInv, PTL DEF Spec

\* Every entry of g_active_builds belongs to a poll thread that is still running
\* or waits for a review, also when builds of different jobs share a number
\* (agent_main.cpp:261-271, 303-307).
THEOREM NothingIsLeftBehind == Spec => []NothingLeaks
  <1>1. TableInv => NothingLeaks
    BY DEF TableInv
  <1> QED
    BY <1>1, InitTableInv, StepTableInv, PTL DEF Spec

-----------------------------------------------------------------------------
(* Builds held for a review, whatever the numbers are                      *)

Started == {b \in Builds : thread[b] # "none"}

\* What the count of the releases needs to know of one build.
StartedOK(b) ==
    /\ thread[b] = "none" =>
         reported[b] = 0 /\ io # b /\ \A n \in Numbers : table[n].build # b
    /\ b \in asked => thread[b] \in {"mark", "ended"}

HeldInv ==
    /\ TableInv
    /\ \A b \in Builds : StartedOK(b)
    /\ IsFiniteSet(Started)
    /\ AnswersCover

\* A set with one element added has at most one element more.
LEMMA OneMore ==
  ASSUME NEW S, IsFiniteSet(S), NEW x
  PROVE  IsFiniteSet(S \cup {x}) /\ Cardinality(S \cup {x}) <= Cardinality(S) + 1
  <1>1. Cardinality(S) \in Nat
    BY FS_CardinalityType
  <1>2. /\ IsFiniteSet(S \cup {x})
        /\ Cardinality(S \cup {x}) = Cardinality(S) \/ Cardinality(S \cup {x}) = Cardinality(S) + 1
    BY FS_AddElement
  <1> QED
    BY <1>1, <1>2

\* Only builds that were started are released, so their count is a number.
LEMMA ReleasesAreFinite ==
  ASSUME HeldInv, NEW i \in Issues
  PROVE  /\ IsFiniteSet(Released(i)) /\ Cardinality(Released(i)) \in Nat
         /\ Cardinality(Released(i)) <= answered[i] /\ answered[i] \in Nat
  <1>1. Released(i) \subseteq Started
    BY DEF HeldInv, TableInv, TypeOK, StartedOK, Released, Started
  <1>2. IsFiniteSet(Released(i))
    BY <1>1, FS_Subset DEF HeldInv
  <1> QED
    BY <1>2, FS_CardinalityType DEF HeldInv, AnswersCover, TableInv, TypeOK

\* Without another release, the answers go on to cover the releases.
LEMMA AnswersKept ==
  ASSUME HeldInv, answered' = answered, \A i \in Issues : Released(i)' \subseteq Released(i)
  PROVE  AnswersCover'
  <1> SUFFICES ASSUME NEW i \in Issues PROVE Cardinality(Released(i)') <= answered[i]
    BY DEF AnswersCover
  <1>1. /\ IsFiniteSet(Released(i)) /\ Cardinality(Released(i)) \in Nat
        /\ Cardinality(Released(i)) <= answered[i] /\ answered[i] \in Nat
    BY ReleasesAreFinite
  <1>2. IsFiniteSet(Released(i)') /\ Cardinality(Released(i)') <= Cardinality(Released(i))
    BY <1>1, FS_Subset
  <1>3. Cardinality(Released(i)') \in Nat
    BY <1>2, FS_CardinalityType
  <1> QED
    BY <1>1, <1>2, <1>3

\* At first nothing is released.
LEMMA InitHeldInv == Init => HeldInv
  <1> SUFFICES ASSUME Init PROVE HeldInv
    OBVIOUS
  <1>1. TableInv
    BY InitTableInv
  <1>2. \A b \in Builds : StartedOK(b)
    BY NoBuildType, BuildNoneAssumption DEF Init, StartedOK
  <1>3. Started = {} /\ \A i : Released(i) = {}
    BY BuildNoneAssumption DEF Init, Started, Released
  <1>4. IsFiniteSet(Started) /\ \A i : Cardinality(Released(i)) = 0
    BY <1>3, FS_EmptySet
  <1> QED
    BY <1>1, <1>2, <1>4 DEF Init, HeldInv, AnswersCover

\* BUILD_TRIGGER: the build has no result, nobody holds it, and it is not released.
LEMMA TriggerHeldInv ==
  ASSUME HeldInv, NEW b \in Builds, TriggerFails(b) \/ Trigger(b)
  PROVE  HeldInv'
  <1>t. TypeOK /\ thread[b] = "none" /\ io = None /\ b \notin asked /\ reported[b] = 0
    BY DEF HeldInv, TableInv, StartedOK, TriggerFails, Trigger
  <1>0. TableInv'
    BY CallbackTableInv DEF HeldInv
  <1>1. /\ \A c \in Builds \ {b} : thread'[c] = thread[c] /\ reported'[c] = reported[c]
        /\ thread'[b] # "none" /\ (thread'[b] = "ended" \/ reported'[b] = 0)
        /\ UNCHANGED <<io, asked, answered>>
    BY <1>t DEF TriggerFails, Trigger, Reports, TypeOK, reviews
  <1>2. \A n \in Numbers : table'[n].build \in {table[n].build, b}
    <2>1. CASE table' = table
      BY <2>1
    <2>2. CASE Trigger(b) /\ NumberOf[b] # 0
      BY <1>t, <2>2, NumbersOfBuilds DEF Trigger, TypeOK
    <2> QED
      BY <2>1, <2>2 DEF TriggerFails, Trigger
  <1>3. \A c \in Builds : StartedOK(c)'
    BY <1>t, <1>1, <1>2 DEF HeldInv, StartedOK
  <1>4. IsFiniteSet(Started')
    <2>1. Started' \subseteq Started \cup {b}
      BY <1>1 DEF Started
    <2> QED
      BY <2>1, FS_AddElement, FS_Subset DEF HeldInv
  <1>5. \A i \in Issues : Released(i)' \subseteq Released(i)
    BY <1>t, <1>1, BuildNoneAssumption DEF Released, Live
  <1> QED
    BY <1>0, <1>1, <1>3, <1>4, <1>5, AnswersKept DEF HeldInv

\* The poll thread: a build that it reports itself was not handed to a review.
LEMMA PollHeldInv ==
  ASSUME HeldInv, NEW b \in Builds, PollStep(b)
  PROVE  HeldInv'
  <1>t. TypeOK /\ StartedOK(b)
    BY DEF HeldInv, TableInv
  <1>0. TableInv'
    BY PollTableInv DEF HeldInv
  <1>1. /\ thread[b] \in Live /\ thread'[b] \in Live \cup {"ended"}
        /\ \A c \in Builds \ {b} : thread'[c] = thread[c]
    <2>1. thread'[b] \in Live \/ MarksWaiting(b) \/ Erases(b)
      BY <1>t, PollSteps
    <2>2. MarksWaiting(b) \/ Erases(b) => thread'[b] = "ended"
      BY <1>t DEF MarksWaiting, Erases, TypeOK
    <2> QED
      BY <1>t, <2>1, <2>2, PollSteps
  <1>2. io' = io /\ answered' = answered /\ \A c \in Builds \ {b} : reported'[c] = reported[c]
    BY <1>t DEF PollStep, PollEnds, ChecksSpecial, AsksForReview, MarksWaiting, SendsResult, Erases,
                Reports, TypeOK, reviews
  <1>3. \A n \in Numbers : table'[n].build \in {table[n].build, None}
    <2>1. CASE table' = table
      BY <2>1
    <2>2. CASE MarksWaiting(b)
      BY <1>t, <2>2 DEF MarksWaiting, Marked, TypeOK, Active
    <2>3. CASE Erases(b)
      BY <1>t, <2>3, NoBuildType DEF Erases, TypeOK
    <2> QED
      BY <2>1, <2>2, <2>3 DEF PollStep, PollEnds, ChecksSpecial, AsksForReview, SendsResult
  <1>4. /\ asked \subseteq asked' /\ asked' \subseteq asked \cup {b}
        /\ b \in asked' => thread'[b] \in {"mark", "ended"}
        /\ b \in asked' \ asked => thread[b] = "ask" /\ reported' = reported
        /\ thread'[b] \in Live \ {"erase"} => thread[b] \in Live \ {"erase"}
        /\ reported' # reported => thread'[b] = "erase" /\ b \notin asked'
    <2>1. CASE AsksForReview(b)
      BY <1>t, <2>1 DEF AsksForReview, TypeOK, Live
    <2>2. CASE PollEnds(b) \/ ChecksSpecial(b) \/ SendsResult(b)
      <3>1. asked' = asked /\ b \notin asked /\ thread[b] \in {"polling", "built", "report"}
        BY <1>t, <2>2 DEF PollEnds, ChecksSpecial, SendsResult, StartedOK, reviews
      <3>2. reported' # reported => thread'[b] = "erase"
        BY <1>t, <2>2 DEF PollEnds, ChecksSpecial, SendsResult, TypeOK
      <3> QED
        BY <3>1, <3>2 DEF Live
    <2>3. CASE MarksWaiting(b) \/ Erases(b)
      BY <1>t, <2>3 DEF MarksWaiting, Erases, TypeOK, Live, reviews, StartedOK
    <2> QED
      BY <2>1, <2>2, <2>3 DEF PollStep
  <1>5. ASSUME NEW c \in Builds PROVE StartedOK(c)'
    <2>1. CASE c = b
      BY <1>1, <1>4, <2>1 DEF StartedOK, Live
    <2>2. CASE c # b
      <3>1. StartedOK(c)
        BY DEF HeldInv
      <3> QED
        BY <1>1, <1>2, <1>3, <1>4, <2>2, <3>1, BuildNoneAssumption DEF StartedOK
    <2> QED
      BY <2>1, <2>2
  <1>6. Started' = Started
    BY <1>1 DEF Started, Live
  <1>7. ASSUME NEW i \in Issues, NEW c \in Released(i)' PROVE c \in Released(i)
    <2>1. CASE c = b
      BY <1>2, <1>4, <1>7, <2>1 DEF Released, Live
    <2>2. CASE c # b
      BY <1>1, <1>2, <1>4, <1>7, <2>2 DEF Released
    <2> QED
      BY <2>1, <2>2
  <1> QED
    BY <1>0, <1>2, <1>5, <1>6, <1>7, AnswersKept DEF HeldInv

\* SECOND_REVIEW_RESULT: one answer more, and one release more at most.
LEMMA AnswerHeldInv ==
  ASSUME HeldInv, NEW i \in Issues, ReviewResult(i)
  PROVE  HeldInv'
  <1>t. TypeOK
    BY DEF HeldInv, TableInv
  <1>0. TableInv'
    BY CallbackTableInv DEF HeldInv
  <1>1. /\ io = None /\ answered' = [answered EXCEPT ![i] = @ + 1]
        /\ UNCHANGED <<thread, asked, reported>>
    BY DEF ReviewResult
  <1>2. /\ \A n \in Numbers : table'[n].build \in {table[n].build, None}
        /\ \/ io' = None
           \/ io' \in Builds /\ IssueOf[io'] = i /\ \E n \in Numbers : table[n].build = io'
    <2>1. ASSUME NEW n \in WaitingFor(i), Release(n)
          PROVE  /\ \A m \in Numbers : table'[m].build \in {table[m].build, None}
                 /\ io' \in Builds /\ IssueOf[io'] = i /\ \E m \in Numbers : table[m].build = io'
      BY <1>t, <2>1, NoBuildType DEF Release, WaitingFor, Active, TypeOK
    <2>2. CASE UNCHANGED <<io, table>>
      BY <1>1, <2>2
    <2> QED
      BY <2>1, <2>2 DEF ReviewResult
  <1>3. \A c \in Builds : StartedOK(c)'
    BY <1>1, <1>2, BuildNoneAssumption DEF HeldInv, StartedOK
  <1>4. Started' = Started
    BY <1>1 DEF Started
  <1>5. ASSUME NEW j \in Issues PROVE Cardinality(Released(j)') <= answered'[j]
    <2>1. /\ IsFiniteSet(Released(j)) /\ Cardinality(Released(j)) \in Nat
          /\ Cardinality(Released(j)) <= answered[j] /\ answered[j] \in Nat
      BY ReleasesAreFinite
    <2>2. CASE j = i
      <3>1. answered'[j] = answered[j] + 1
        BY <1>t, <1>1, <2>2 DEF TypeOK
      <3>2. Released(j)' \subseteq Released(j) \cup {io'}
        BY <1>1 DEF Released
      <3>3. /\ IsFiniteSet(Released(j) \cup {io'})
            /\ Cardinality(Released(j) \cup {io'}) <= Cardinality(Released(j)) + 1
        BY <2>1, OneMore
      <3>4. /\ Cardinality(Released(j)') <= Cardinality(Released(j) \cup {io'})
            /\ Cardinality(Released(j)') \in Nat /\ Cardinality(Released(j) \cup {io'}) \in Nat
        BY <3>2, <3>3, FS_Subset, FS_CardinalityType
      <3> QED
        BY <2>1, <3>1, <3>3, <3>4
    <2>3. CASE j # i
      <3>1. answered'[j] = answered[j]
        BY <1>t, <1>1, <2>3 DEF TypeOK
      <3>2. Released(j)' \subseteq Released(j)
        BY <1>1, <1>2, <2>3, BuildNoneAssumption DEF Released
      <3>3. Cardinality(Released(j)') <= Cardinality(Released(j)) /\ Cardinality(Released(j)') \in Nat
        BY <2>1, <3>2, FS_Subset, FS_CardinalityType
      <3> QED
        BY <2>1, <3>1, <3>3
    <2> QED
      BY <2>2, <2>3
  <1> QED
    BY <1>0, <1>3, <1>4, <1>5 DEF HeldInv, AnswersCover

\* The callback sends the result of the build it took, which was released already.
LEMMA ReportHeldInv == ASSUME HeldInv, ReviewReports PROVE HeldInv'
  <1>t. TypeOK
    BY DEF HeldInv, TableInv
  <1>0. TableInv'
    BY CallbackTableInv DEF HeldInv
  <1>1. /\ io \in Builds /\ io' = None
        /\ \A c \in Builds \ {io} : reported'[c] = reported[c]
        /\ UNCHANGED <<thread, table, answered, asked>>
    BY <1>t DEF ReviewReports, Reports, TypeOK, reviews
  <1>2. \A c \in Builds : StartedOK(c)'
    BY <1>1, BuildNoneAssumption DEF HeldInv, StartedOK
  <1>3. Started' = Started
    BY <1>1 DEF Started
  <1>4. \A i \in Issues : Released(i)' \subseteq Released(i)
    BY <1>1, BuildNoneAssumption DEF Released
  <1> QED
    BY <1>0, <1>1, <1>2, <1>3, <1>4, AnswersKept DEF HeldInv

\* The steps of main, and stuttering.
LEMMA MainHeldInv ==
  ASSUME HeldInv,
         WatchPicks \/ WatchRequests \/ Signal \/ CutsClient \/ Exit \/ UNCHANGED vars
  PROVE  HeldInv'
  <1>1. TableInv'
    BY MainTableInv DEF HeldInv
  <1>2. UNCHANGED <<thread, table, io, asked, answered, reported>>
    BY DEF WatchPicks, WatchRequests, Signal, CutsClient, Exit, vars, reviews
  <1>3. Started' = Started /\ \A i : Released(i)' = Released(i)
    BY <1>2 DEF Started, Released
  <1>4. \A c \in Builds : StartedOK(c)'
    BY <1>2 DEF HeldInv, StartedOK
  <1> QED
    BY <1>1, <1>2, <1>3, <1>4 DEF HeldInv, AnswersCover

\* Every step keeps the answers ahead of the releases.
LEMMA StepHeldInv == HeldInv /\ [Next]_vars => HeldInv'
  <1> SUFFICES ASSUME HeldInv, [Next]_vars PROVE HeldInv'
    OBVIOUS
  <1>1. ASSUME NEW b \in Builds, TriggerFails(b) \/ Trigger(b) PROVE HeldInv'
    BY <1>1, TriggerHeldInv
  <1>2. ASSUME NEW b \in Builds, PollStep(b) PROVE HeldInv'
    BY <1>2, PollHeldInv
  <1>3. ASSUME NEW i \in Issues, ReviewResult(i) PROVE HeldInv'
    BY <1>3, AnswerHeldInv
  <1>4. CASE ReviewReports
    BY <1>4, ReportHeldInv
  <1>5. CASE WatchPicks \/ WatchRequests \/ Signal \/ CutsClient \/ Exit \/ UNCHANGED vars
    BY <1>5, MainHeldInv
  <1> QED
    BY <1>1, <1>2, <1>3, <1>4, <1>5 DEF Next

\* A build whose poll thread asked for a review is not reported before an answer
\* for its issue has come, and no answer releases two, also when builds of
\* different jobs share a number and one takes the other's entry
\* (agent_main.cpp:344-378).
THEOREM ReviewsHoldTheirBuilds == Spec => []HeldForReview
  <1>1. HeldInv => HeldForReview
    <2> SUFFICES ASSUME HeldInv, NEW i \in Issues
                 PROVE  Cardinality({b \in asked : IssueOf[b] = i /\ reported[b] > 0}) <= answered[i]
      BY DEF HeldForReview
    <2> DEFINE R == {b \in asked : IssueOf[b] = i /\ reported[b] > 0}
    <2>1. R \subseteq Released(i)
      BY DEF Released, HeldInv, TableInv, TypeOK
    <2> HIDE DEF R
    <2>2. /\ IsFiniteSet(Released(i)) /\ Cardinality(Released(i)) \in Nat
          /\ Cardinality(Released(i)) <= answered[i] /\ answered[i] \in Nat
      BY ReleasesAreFinite
    <2>3. Cardinality(R) <= Cardinality(Released(i)) /\ Cardinality(R) \in Nat
      BY <2>1, <2>2, FS_Subset, FS_CardinalityType
    <2>4. Cardinality(R) <= answered[i]
      BY <2>2, <2>3
    <2> QED
      BY <2>4 DEF R
  <1> QED
    BY <1>1, InitHeldInv, StepHeldInv, PTL DEF Spec


-----------------------------------------------------------------------------
(* The entries of builds of one number                                     *)

\* Entries stay where the table does.
LEMMA EntriesKept ==
  ASSUME table' = table, NEW c \in Builds
  PROVE  (HasEntry(c)' <=> HasEntry(c)) /\ (WaitsInTable(c)' <=> WaitsInTable(c))
  BY DEF HasEntry, WaitsInTable

\* What happens at one number concerns only the builds of that number.
LEMMA EntriesElsewhere ==
  ASSUME NEW n, \A k \in Numbers \ {n} : table'[k] = table[k],
         NEW c \in Builds, NumberOf[c] # n
  PROVE  (HasEntry(c)' <=> HasEntry(c)) /\ (WaitsInTable(c)' <=> WaitsInTable(c))
  BY NumbersOfBuilds DEF HasEntry, WaitsInTable

\* What the steps do to the table at one number.
LEMMA TableAtNumber ==
  ASSUME TypeOK, NEW n \in Numbers
  PROVE  /\ table' = [table EXCEPT ![n] = NoBuild] =>
              /\ table'[n].build = None /\ \A k \in Numbers \ {n} : table'[k] = table[k]
         /\ table' = Marked(n) =>
              /\ table'[n].build = table[n].build
              /\ table'[n].waiting_review = (table[n].waiting_review \/ n \in Active)
              /\ \A k \in Numbers \ {n} : table'[k] = table[k]
         /\ \A b, t : table' = [table EXCEPT ![n] = [build |-> b, waiting_review |-> FALSE,
                                                     trigger_time |-> t]] =>
              /\ table'[n].build = b /\ ~ table'[n].waiting_review
              /\ \A k \in Numbers \ {n} : table'[k] = table[k]
  <1>t. table \in [Numbers -> [build : Builds \cup {None}, waiting_review : BOOLEAN,
                               trigger_time : Nat]]
    BY DEF TypeOK
  <1>1. ASSUME table' = [table EXCEPT ![n] = NoBuild]
        PROVE  table'[n].build = None /\ \A k \in Numbers \ {n} : table'[k] = table[k]
    BY <1>t, <1>1, NoBuildType
  <1>2. ASSUME table' = Marked(n)
        PROVE  /\ table'[n].build = table[n].build
               /\ table'[n].waiting_review = (table[n].waiting_review \/ n \in Active)
               /\ \A k \in Numbers \ {n} : table'[k] = table[k]
    BY <1>t, <1>2 DEF Marked
  <1>3. ASSUME NEW b, NEW t,
               table' = [table EXCEPT ![n] = [build |-> b, waiting_review |-> FALSE,
                                              trigger_time |-> t]]
        PROVE  /\ table'[n].build = b /\ ~ table'[n].waiting_review
               /\ \A k \in Numbers \ {n} : table'[k] = table[k]
    BY <1>t, <1>3
  <1> QED
    BY <1>1, <1>2, <1>3

\* A build that finds no other one under its number takes nothing over.
LEMMA EntryAdded ==
  ASSUME TypeOK, NEW b \in Builds, NumberOf[b] # 0, NumberOf[b] \notin Active, NEW t,
         table' = [table EXCEPT ![NumberOf[b]] = [build |-> b, waiting_review |-> FALSE,
                                                  trigger_time |-> t]]
  PROVE  /\ HasEntry(b)' /\ ~ WaitsInTable(b)'
         /\ \A c \in Builds \ {b} : /\ HasEntry(c)' <=> HasEntry(c)
                                    /\ WaitsInTable(c)' <=> WaitsInTable(c)
  <1>0. NumberOf[b] \in Numbers
    BY NumbersOfBuilds
  <1>1. /\ table'[NumberOf[b]].build = b /\ ~ table'[NumberOf[b]].waiting_review
        /\ \A k \in Numbers \ {NumberOf[b]} : table'[k] = table[k]
    BY <1>0, TableAtNumber
  <1>2. HasEntry(b)' /\ ~ WaitsInTable(b)'
    BY <1>1 DEF HasEntry, WaitsInTable
  <1>3. ASSUME NEW c \in Builds \ {b}
        PROVE  (HasEntry(c)' <=> HasEntry(c)) /\ (WaitsInTable(c)' <=> WaitsInTable(c))
    <2>1. CASE NumberOf[c] = NumberOf[b]
      <3>1. ~ HasEntry(c)
        BY <1>0, <2>1, BuildNoneAssumption DEF Active, HasEntry
      <3>2. ~ HasEntry(c)'
        BY <1>1, <2>1 DEF HasEntry
      <3> QED
        BY <3>1, <3>2 DEF WaitsInTable
    <2>2. CASE NumberOf[c] # NumberOf[b]
      BY <1>1, <2>2, EntriesElsewhere
    <2> QED
      BY <2>1, <2>2
  <1> QED
    BY <1>2, <1>3

\* Erasing the entry of a build disturbs the entry of no other.
LEMMA EntryErased ==
  ASSUME TypeOK, NEW b \in Builds, HasEntry(b),
         table' = [table EXCEPT ![NumberOf[b]] = NoBuild]
  PROVE  /\ ~ HasEntry(b)' /\ ~ WaitsInTable(b)'
         /\ \A c \in Builds \ {b} : /\ HasEntry(c)' <=> HasEntry(c)
                                    /\ WaitsInTable(c)' <=> WaitsInTable(c)
  <1>0. NumberOf[b] # 0 /\ NumberOf[b] \in Numbers
    BY NumbersOfBuilds DEF HasEntry
  <1>1. /\ table'[NumberOf[b]].build = None
        /\ \A k \in Numbers \ {NumberOf[b]} : table'[k] = table[k]
    BY <1>0, TableAtNumber
  <1>2. ~ HasEntry(b)' /\ ~ WaitsInTable(b)'
    BY <1>1, BuildNoneAssumption DEF HasEntry, WaitsInTable
  <1>3. ASSUME NEW c \in Builds \ {b}
        PROVE  (HasEntry(c)' <=> HasEntry(c)) /\ (WaitsInTable(c)' <=> WaitsInTable(c))
    <2>1. CASE NumberOf[c] = NumberOf[b]
      BY <1>1, <2>1, BuildNoneAssumption DEF HasEntry, WaitsInTable
    <2>2. CASE NumberOf[c] # NumberOf[b]
      BY <1>1, <2>2, EntriesElsewhere
    <2> QED
      BY <2>1, <2>2
  <1> QED
    BY <1>2, <1>3

\* Marking the entry of a build makes that build wait, and no other.
LEMMA EntryMarked ==
  ASSUME TypeOK, NEW b \in Builds, HasEntry(b), table' = Marked(NumberOf[b])
  PROVE  /\ HasEntry(b)' /\ WaitsInTable(b)'
         /\ \A c \in Builds \ {b} : /\ HasEntry(c)' <=> HasEntry(c)
                                    /\ WaitsInTable(c)' <=> WaitsInTable(c)
  <1>0. NumberOf[b] # 0 /\ NumberOf[b] \in Numbers /\ NumberOf[b] \in Active
    BY NumbersOfBuilds, BuildNoneAssumption DEF HasEntry, Active
  <1>1. /\ table'[NumberOf[b]].build = b /\ table'[NumberOf[b]].waiting_review
        /\ \A k \in Numbers \ {NumberOf[b]} : table'[k] = table[k]
    BY <1>0, TableAtNumber DEF HasEntry
  <1>2. HasEntry(b)' /\ WaitsInTable(b)'
    BY <1>0, <1>1 DEF HasEntry, WaitsInTable
  <1>3. ASSUME NEW c \in Builds \ {b}
        PROVE  (HasEntry(c)' <=> HasEntry(c)) /\ (WaitsInTable(c)' <=> WaitsInTable(c))
    <2>1. CASE NumberOf[c] = NumberOf[b]
      BY <1>1, <2>1 DEF HasEntry, WaitsInTable
    <2>2. CASE NumberOf[c] # NumberOf[b]
      BY <1>1, <2>2, EntriesElsewhere
    <2> QED
      BY <2>1, <2>2
  <1> QED
    BY <1>2, <1>3

-----------------------------------------------------------------------------
(* Who can still report a build, also of a number that is mixed up         *)

\* What TwoReporters says of one build.
ReportersOK(b) ==
    /\ io = b => ~ HasEntry(b)
    /\ reported[b] <= 2
    /\ ThreadReports(b) \/ CallbackReports(b) => reported[b] <= 1
    /\ ThreadReports(b) /\ CallbackReports(b) => reported[b] = 0

ReportsInv == HeldInv /\ \A b \in Builds : ReportersOK(b)

\* Of a build that nobody reports and that no new reporter gets, the same holds
\* after the step.
LEMMA ReportersKept ==
  ASSUME NEW c \in Builds, ReportersOK(c), reported'[c] = reported[c],
         ThreadReports(c)' => ThreadReports(c),
         CallbackReports(c)' => CallbackReports(c),
         io' = c => ~ HasEntry(c)'
  PROVE  ReportersOK(c)'
  BY DEF ReportersOK

\* At first nothing is reported.
LEMMA InitReportsInv == Init => ReportsInv
  <1> SUFFICES ASSUME Init PROVE ReportsInv
    OBVIOUS
  <1>1. HeldInv
    BY InitHeldInv
  <1>2. \A b \in Builds : reported[b] = 0 /\ io # b
    BY BuildNoneAssumption DEF Init
  <1>3. \A b \in Builds : ReportersOK(b)
    BY <1>2 DEF ReportersOK
  <1> QED
    BY <1>1, <1>3 DEF ReportsInv

\* Entries appear only for the build that is registered.
LEMMA NoNewEntry ==
  ASSUME TypeOK, NEW n, table' = table \/ table' = [table EXCEPT ![n] = NoBuild] \/ table' = Marked(n),
         NEW c \in Builds, HasEntry(c)'
  PROVE  HasEntry(c)
  <1>1. CASE table' = table
    BY <1>1 DEF HasEntry
  <1>2. CASE n \notin Numbers
    <2>1. table' = table
      BY <1>2 DEF TypeOK, Marked, Active
    <2> QED
      BY <2>1 DEF HasEntry
  <1>3. CASE n \in Numbers /\ NumberOf[c] = n
    BY <1>1, <1>3, TableAtNumber, BuildNoneAssumption DEF HasEntry
  <1>4. CASE n \in Numbers /\ NumberOf[c] # n /\ table' # table
    <2>1. \A k \in Numbers \ {n} : table'[k] = table[k]
      BY <1>4, TableAtNumber
    <2> QED
      BY <1>4, <2>1, EntriesElsewhere
  <1> QED
    BY <1>1, <1>2, <1>3, <1>4

\* BUILD_TRIGGER: the build gets its thread and its entry, and has no report.
LEMMA TriggerReportsInv ==
  ASSUME ReportsInv, NEW b \in Builds, TriggerFails(b) \/ Trigger(b)
  PROVE  ReportsInv'
  <1>t. TypeOK /\ HeldInv /\ StartedOK(b)
    BY DEF ReportsInv, HeldInv, TableInv
  <1>0. HeldInv'
    BY <1>t, TriggerHeldInv
  <1>1. /\ thread[b] = "none" /\ io = None /\ io' = None
        /\ \A c \in Builds \ {b} : thread'[c] = thread[c] /\ reported'[c] = reported[c]
    BY <1>t DEF TriggerFails, Trigger, Reports, TypeOK
  <1>2. reported[b] = 0 /\ reported[b] \in Nat /\ io' # b
    BY <1>t, <1>1, BuildNoneAssumption DEF StartedOK
  <1>3. ASSUME NEW c \in Builds \ {b} PROVE ReportersOK(c)'
    <2>1. ReportersOK(c)
      BY DEF ReportsInv
    <2>2. HasEntry(c)' => HasEntry(c)
      <3>1. CASE table' = table
        BY <3>1 DEF HasEntry
      <3>2. CASE Trigger(b) /\ NumberOf[b] # 0
        <4>1. /\ NumberOf[b] \in Numbers
              /\ table' = [table EXCEPT ![NumberOf[b]] = [build |-> b, waiting_review |-> FALSE,
                                                          trigger_time |-> Now]]
          BY <3>2, NumbersOfBuilds DEF Trigger
        <4>2. /\ table'[NumberOf[b]].build = b
              /\ \A k \in Numbers \ {NumberOf[b]} : table'[k] = table[k]
          BY <1>t, <4>1, TableAtNumber
        <4>3. CASE NumberOf[c] = NumberOf[b]
          BY <4>2, <4>3 DEF HasEntry
        <4>4. CASE NumberOf[c] # NumberOf[b]
          BY <4>2, <4>4, EntriesElsewhere
        <4> QED
          BY <4>3, <4>4
      <3> QED
        BY <3>1, <3>2 DEF TriggerFails, Trigger
    <2>3. io' # c
      BY <1>1, BuildNoneAssumption
    <2>4. (ThreadReports(c)' => ThreadReports(c)) /\ (CallbackReports(c)' => CallbackReports(c))
      BY <1>1, <2>2, <2>3 DEF ThreadReports, CallbackReports
    <2> QED
      BY <1>1, <2>1, <2>3, <2>4, ReportersKept
  <1>4. ReportersOK(b)'
    <2>1. CASE TriggerFails(b)
      <3>1. /\ thread'[b] = "ended" /\ table' = table /\ reported'[b] \in {0, 1}
        BY <1>t, <1>2, <2>1 DEF TriggerFails, Reports, TypeOK
      <3>2. ~ HasEntry(b)
        BY <1>t, <1>1, NumbersOfBuilds DEF StartedOK, HasEntry
      <3>3. ~ HasEntry(b)'
        BY <3>1, <3>2 DEF HasEntry
      <3>4. ~ ThreadReports(b)' /\ ~ CallbackReports(b)'
        BY <1>2, <3>1, <3>3 DEF ThreadReports, CallbackReports
      <3> QED
        BY <1>2, <3>1, <3>4 DEF ReportersOK
    <2>2. CASE Trigger(b)
      <3>1. reported'[b] = 0
        BY <1>2, <2>2 DEF Trigger
      <3> QED
        BY <1>2, <3>1 DEF ReportersOK
    <2> QED
      BY <2>1, <2>2
  <1> QED
    BY <1>0, <1>3, <1>4 DEF ReportsInv

\* The poll thread reports once, and then no longer can.
LEMMA PollReportsInv ==
  ASSUME ReportsInv, NEW b \in Builds, PollStep(b)
  PROVE  ReportsInv'
  <1>t. TypeOK /\ HeldInv
    BY DEF ReportsInv, HeldInv, TableInv
  <1>0. HeldInv'
    BY <1>t, PollHeldInv
  <1>1. \A c \in Builds \ {b} : thread'[c] = thread[c]
    BY <1>t, PollSteps
  <1>2. io' = io /\ \A c \in Builds \ {b} : reported'[c] = reported[c]
    BY <1>t DEF PollStep, PollEnds, ChecksSpecial, AsksForReview, MarksWaiting, SendsResult, Erases,
                Reports, TypeOK
  <1>3. \/ table' = table
        \/ table' = [table EXCEPT ![NumberOf[b]] = NoBuild]
        \/ table' = Marked(NumberOf[b])
    BY DEF PollStep, PollEnds, ChecksSpecial, AsksForReview, MarksWaiting, SendsResult, Erases
  <1>4. \A c \in Builds : HasEntry(c)' => HasEntry(c)
    BY <1>t, <1>3, NoNewEntry
  <1>5. ASSUME NEW c \in Builds
        PROVE  /\ ReportersOK(c) /\ (CallbackReports(c)' => CallbackReports(c))
               /\ io' = c => ~ HasEntry(c)'
    <2>1. ReportersOK(c)
      BY DEF ReportsInv
    <2> QED
      BY <1>2, <1>4, <2>1 DEF CallbackReports, ReportersOK
  <1>6. ASSUME NEW c \in Builds \ {b} PROVE ReportersOK(c)'
    <2>1. ThreadReports(c)' => ThreadReports(c)
      BY <1>1 DEF ThreadReports
    <2> QED
      BY <1>2, <1>5, <2>1, ReportersKept
  <1>7. ReportersOK(b)'
    <2>1. CASE SendsResult(b)
      <3>1. thread[b] = "report" /\ thread'[b] = "erase" /\ Reports(b)
        BY <1>t, <2>1 DEF SendsResult, TypeOK
      <3>2. ThreadReports(b) /\ ~ ThreadReports(b)'
        BY <3>1 DEF ThreadReports
      <3>3. reported[b] \in Nat /\ reported'[b] \in {reported[b], reported[b] + 1}
        BY <1>t, <3>1 DEF Reports, TypeOK
      <3> QED
        BY <1>5, <3>2, <3>3 DEF ReportersOK
    <2>2. CASE PollEnds(b) \/ ChecksSpecial(b) \/ AsksForReview(b) \/ MarksWaiting(b) \/ Erases(b)
      <3>1. reported'[b] = reported[b] /\ (ThreadReports(b)' => ThreadReports(b))
        <4>1. CASE PollEnds(b) \/ ChecksSpecial(b)
          BY <1>t, <4>1 DEF PollEnds, ChecksSpecial, ThreadReports
        <4>2. CASE AsksForReview(b) \/ MarksWaiting(b) \/ Erases(b)
          BY <1>t, <4>2 DEF AsksForReview, MarksWaiting, Erases, ThreadReports, TypeOK
        <4> QED
          BY <2>2, <4>1, <4>2
      <3> QED
        BY <1>5, <3>1, ReportersKept
    <2> QED
      BY <2>1, <2>2 DEF PollStep
  <1> QED
    BY <1>0, <1>6, <1>7 DEF ReportsInv

\* An answer: the callback holds the build whose entry it erased.
LEMMA AnswerReportsInv ==
  ASSUME ReportsInv, NEW i \in Issues, ReviewResult(i)
  PROVE  ReportsInv'
  <1>t. TypeOK /\ HeldInv
    BY DEF ReportsInv, HeldInv, TableInv
  <1>0. HeldInv'
    BY <1>t, AnswerHeldInv
  <1>1. io = None /\ UNCHANGED <<thread, reported>>
    BY DEF ReviewResult
  <1>2. ASSUME NEW n \in WaitingFor(i), Release(n), NEW c \in Builds PROVE ReportersOK(c)'
    <2>1. /\ n \in Numbers /\ n # 0 /\ table[n].build \in Builds /\ NumberOf[table[n].build] = n
          /\ io' = table[n].build /\ table' = [table EXCEPT ![n] = NoBuild]
      BY <1>t, <1>2 DEF WaitingFor, Active, Numbers, Release, HeldInv, TableInv, EntryAtItsNumber, TypeOK
    <2>2. HasEntry(c)' => HasEntry(c)
      BY <1>t, <2>1, NoNewEntry
    <2>3. table'[n].build = None
      BY <1>t, <2>1, TableAtNumber
    <2>4. io' = c => HasEntry(c) /\ ~ HasEntry(c)'
      BY <2>1, <2>3, BuildNoneAssumption DEF HasEntry
    <2>5. /\ ThreadReports(c)' => ThreadReports(c)
          /\ CallbackReports(c)' => CallbackReports(c)
          /\ reported'[c] = reported[c]
      BY <1>1, <2>2, <2>4 DEF ThreadReports, CallbackReports
    <2>6. ReportersOK(c)
      BY DEF ReportsInv
    <2> QED
      BY <2>4, <2>5, <2>6, ReportersKept
  <1>3. ASSUME UNCHANGED <<io, table>>, NEW c \in Builds PROVE ReportersOK(c)'
    <2>1. ReportersOK(c)
      BY DEF ReportsInv
    <2> QED
      BY <1>1, <1>3, <2>1 DEF ReportersOK, ThreadReports, CallbackReports, HasEntry
  <1>4. \A c \in Builds : ReportersOK(c)'
    BY <1>2, <1>3 DEF ReviewResult
  <1> QED
    BY <1>0, <1>4 DEF ReportsInv

\* The callback reports the build that it holds, and lets it go.
LEMMA CallbackReportsInv == ASSUME ReportsInv, ReviewReports PROVE ReportsInv'
  <1>t. TypeOK /\ HeldInv
    BY DEF ReportsInv, HeldInv, TableInv
  <1>0. HeldInv'
    BY <1>t, ReportHeldInv
  <1>1. /\ io \in Builds /\ io' = None
        /\ \A c \in Builds \ {io} : reported'[c] = reported[c]
        /\ reported[io] \in Nat /\ reported'[io] \in {reported[io], reported[io] + 1}
        /\ UNCHANGED <<thread, table>>
    BY <1>t DEF ReviewReports, Reports, TypeOK
  <1>2. ASSUME NEW c \in Builds PROVE ReportersOK(c)'
    <2>1. ReportersOK(c) /\ io' # c
      BY <1>1, BuildNoneAssumption DEF ReportsInv
    <2>2. (HasEntry(c)' <=> HasEntry(c)) /\ (ThreadReports(c)' <=> ThreadReports(c))
      BY <1>1 DEF HasEntry, ThreadReports
    <2>3. CASE c = io
      <3>1. CallbackReports(c) /\ ~ CallbackReports(c)'
        BY <2>1, <2>2, <2>3 DEF CallbackReports, ReportersOK
      <3>2. reported[c] \in Nat /\ reported'[c] \in {reported[c], reported[c] + 1}
        BY <1>1, <2>3
      <3> QED
        BY <2>1, <2>2, <3>1, <3>2 DEF ReportersOK
    <2>4. CASE c # io
      <3>1. CallbackReports(c)' => CallbackReports(c)
        BY <2>1, <2>2 DEF CallbackReports
      <3> QED
        BY <1>1, <2>1, <2>2, <2>4, <3>1, ReportersKept
    <2> QED
      BY <2>3, <2>4
  <1> QED
    BY <1>0, <1>2 DEF ReportsInv

\* No step makes a build's thread and its entry report it more than once each.
LEMMA StepReportsInv == ReportsInv /\ [Next]_vars => ReportsInv'
  <1> SUFFICES ASSUME ReportsInv, [Next]_vars PROVE ReportsInv'
    OBVIOUS
  <1>1. ASSUME NEW b \in Builds, TriggerFails(b) \/ Trigger(b) PROVE ReportsInv'
    BY <1>1, TriggerReportsInv
  <1>2. ASSUME NEW b \in Builds, PollStep(b) PROVE ReportsInv'
    BY <1>2, PollReportsInv
  <1>3. ASSUME NEW i \in Issues, ReviewResult(i) PROVE ReportsInv'
    BY <1>3, AnswerReportsInv
  <1>4. CASE ReviewReports
    BY <1>4, CallbackReportsInv
  <1>5. CASE WatchPicks \/ WatchRequests \/ Signal \/ CutsClient \/ Exit \/ UNCHANGED vars
    <2>1. HeldInv'
      BY <1>5, MainHeldInv DEF ReportsInv
    <2>2. UNCHANGED <<thread, table, io, reported>>
      BY <1>5 DEF WatchPicks, WatchRequests, Signal, CutsClient, Exit, vars
    <2>3. ASSUME NEW c \in Builds PROVE ReportersOK(c)'
      <3>1. ReportersOK(c)
        BY DEF ReportsInv
      <3> QED
        BY <2>2, <3>1 DEF ReportersOK, ThreadReports, CallbackReports, HasEntry
    <2> QED
      BY <2>1, <2>3 DEF ReportsInv
  <1> QED
    BY <1>1, <1>2, <1>3, <1>4, <1>5 DEF Next

-----------------------------------------------------------------------------
(* Who reports a build, and which reviews it may wait for, as long as no   *)
(* other build takes over its entry                                        *)

\* What LiveHasEntry, OneReporter and ReportedOnce say of one build.
BuildOK(b) ==
    /\ thread[b] \in Live => HasEntry(b) /\ ~ WaitsInTable(b)
    /\ HasEntry(b) => thread[b] \in Live \cup {"ended"}
    /\ io = b => reported[b] = 0 /\ thread[b] = "ended" /\ ~ HasEntry(b)
    /\ reported[b] > 0 => thread[b] = "erase" \/ (thread[b] = "ended" /\ ~ HasEntry(b))
    /\ b \in asked => thread[b] \in {"mark", "ended"}
    /\ reported[b] <= 1

ReviewInv ==
    /\ HeldInv
    /\ \A b \in Builds : ~ MixedUp(b) => BuildOK(b)
    /\ RequestsCover

\* A step that leaves everything about a build alone keeps what is said of it.
LEMMA BuildKept ==
  ASSUME NEW c \in Builds, BuildOK(c),
         thread'[c] = thread[c], reported'[c] = reported[c],
         HasEntry(c)' <=> HasEntry(c), WaitsInTable(c)' <=> WaitsInTable(c),
         c \in asked' => c \in asked, io' = c => io = c
  PROVE  BuildOK(c)'
  BY DEF BuildOK

\* Only builds that were started wait, so their count is a number.
LEMMA WaitersAreFinite ==
  ASSUME ReviewInv, NEW i
  PROVE  IsFiniteSet(WaitersOf(i)) /\ Cardinality(WaitersOf(i)) \in Nat
  <1>1. ASSUME NEW b \in WaitersOf(i) PROVE b \in Started
    <2>1. StartedOK(b) /\ (thread[b] = "mark" \/ HasEntry(b))
      BY DEF ReviewInv, HeldInv, WaitersOf, WaitsInTable
    <2>2. HasEntry(b) => \E n \in Numbers : table[n].build = b
      BY NumbersOfBuilds DEF HasEntry, WaitersOf
    <2> QED
      BY <2>1, <2>2 DEF StartedOK, Started, WaitersOf
  <1>2. IsFiniteSet(WaitersOf(i))
    BY <1>1, FS_Subset DEF ReviewInv, HeldInv
  <1> QED
    BY <1>2, FS_CardinalityType

\* What no step takes back.
MixUpsGrow == clashed \subseteq clashed' /\ missed \subseteq missed'

LEMMA MixUpsStay ==
  ASSUME MixUpsGrow
  PROVE  /\ \A c \in Builds : ~ MixedUp(c)' => ~ MixedUp(c)
         /\ \A i \in Issues \ (missed' \cup MixedIssues') :
                /\ i \notin missed \cup MixedIssues
                /\ \A c \in Builds : IssueOf[c] = i => ~ MixedUp(c)'
  BY DEF MixUpsGrow, MixedUp, MixedIssues

\* Without another waiting build, the requests go on to cover those that wait.
LEMMA RequestsKept ==
  ASSUME ReviewInv, MixUpsGrow, pending' \in [Issues -> Nat],
         \A i \in Issues \ (missed' \cup MixedIssues') :
             /\ pending[i] <= pending'[i]
             /\ WaitersOf(i)' \subseteq WaitersOf(i)
  PROVE  RequestsCover'
  <1> SUFFICES ASSUME NEW i \in Issues \ (missed' \cup MixedIssues')
               PROVE  Cardinality(WaitersOf(i)') <= pending'[i]
    BY DEF RequestsCover
  <1>1. IsFiniteSet(WaitersOf(i)) /\ Cardinality(WaitersOf(i)) \in Nat
    BY WaitersAreFinite
  <1>2. IsFiniteSet(WaitersOf(i)') /\ Cardinality(WaitersOf(i)') <= Cardinality(WaitersOf(i))
    BY <1>1, FS_Subset
  <1>3. Cardinality(WaitersOf(i)') \in Nat
    BY <1>2, FS_CardinalityType
  <1>4. Cardinality(WaitersOf(i)) <= pending[i] /\ pending[i] \in Nat /\ pending'[i] \in Nat
    BY MixUpsStay DEF ReviewInv, RequestsCover, HeldInv, TableInv, TypeOK
  <1> QED
    BY <1>1, <1>2, <1>3, <1>4

\* Every other build is as it was.
OthersKept(b) ==
    \A c \in Builds \ {b} :
        /\ thread'[c] = thread[c] /\ reported'[c] = reported[c]
        /\ HasEntry(c)' <=> HasEntry(c)
        /\ WaitsInTable(c)' <=> WaitsInTable(c)
        /\ c \in asked' => c \in asked

\* A step of one build.
LEMMA OneBuildMoves ==
  ASSUME ReviewInv, MixUpsGrow, NEW b \in Builds, OthersKept(b), ~ MixedUp(b)' => BuildOK(b)',
         io' = io
  PROVE  \A c \in Builds : ~ MixedUp(c)' => BuildOK(c)'
  <1> SUFFICES ASSUME NEW c \in Builds, ~ MixedUp(c)' PROVE BuildOK(c)'
    OBVIOUS
  <1>1. CASE c = b
    BY <1>1
  <1>2. CASE c # b
    <2>1. BuildOK(c)
      BY MixUpsStay DEF ReviewInv
    <2> QED
      BY <1>2, <2>1, BuildKept DEF OthersKept
  <1> QED
    BY <1>1, <1>2

\* A step of one build that neither asks for a review nor begins to wait for one.
LEMMA QuietBuildMoves ==
  ASSUME ReviewInv, HeldInv', NEW b \in Builds, OthersKept(b), BuildOK(b)',
         UNCHANGED <<io, reviews, clashed>>,
         thread'[b] = "mark" \/ WaitsInTable(b)' => thread[b] = "mark" \/ WaitsInTable(b)
  PROVE  ReviewInv'
  <1>0. /\ io' = io /\ pending' = pending /\ missed' = missed /\ asked' = asked
        /\ MixUpsGrow
    BY DEF reviews, MixUpsGrow
  <1>1. \A c \in Builds : ~ MixedUp(c)' => BuildOK(c)'
    BY <1>0, OneBuildMoves
  <1>2. \A i \in Issues : WaitersOf(i)' \subseteq WaitersOf(i)
    BY DEF WaitersOf, OthersKept
  <1>3. pending' \in [Issues -> Nat]
    BY DEF HeldInv, TableInv, TypeOK
  <1>4. \A i \in Issues : pending[i] <= pending'[i]
    BY <1>0, <1>3
  <1>5. RequestsCover'
    BY <1>0, <1>2, <1>3, <1>4, RequestsKept
  <1> QED
    BY <1>1, <1>5 DEF ReviewInv

\* A step of a build that is mixed up, now or by this step.
LooseStep(b) ==
    /\ MixedUp(b)'
    /\ \A k \in Numbers \ {NumberOf[b]} : table'[k] = table[k]
    /\ \A c \in Builds \ {b} :
         /\ thread'[c] = thread[c] /\ reported'[c] = reported[c]
         /\ c \in asked' => c \in asked
    /\ io' \in {io, b, None}

\* It concerns no build but those of its number, which are all mixed up.
LEMMA LooseBuildMoves ==
  ASSUME ReviewInv, HeldInv', MixUpsGrow, NEW b \in Builds, LooseStep(b),
         \A i \in Issues \ (missed' \cup MixedIssues') : pending[i] <= pending'[i]
  PROVE  ReviewInv'
  <1>1. ASSUME NEW c \in Builds, ~ MixedUp(c)'
        PROVE  /\ c # b /\ (HasEntry(c)' <=> HasEntry(c)) /\ (WaitsInTable(c)' <=> WaitsInTable(c))
               /\ thread'[c] = thread[c] /\ reported'[c] = reported[c]
               /\ c \in asked' => c \in asked
               /\ io' = c => io = c
    <2>1. NumberOf[c] # NumberOf[b]
      BY <1>1 DEF LooseStep, MixedUp
    <2>2. c # b
      BY <2>1
    <2>3. (HasEntry(c)' <=> HasEntry(c)) /\ (WaitsInTable(c)' <=> WaitsInTable(c))
      BY <2>1, EntriesElsewhere DEF LooseStep
    <2> QED
      BY <2>2, <2>3, BuildNoneAssumption DEF LooseStep
  <1>2. ASSUME NEW c \in Builds, ~ MixedUp(c)' PROVE BuildOK(c)'
    <2>1. BuildOK(c)
      BY <1>2, MixUpsStay DEF ReviewInv
    <2> QED
      BY <1>1, <1>2, <2>1, BuildKept
  <1>3. ASSUME NEW i \in Issues \ (missed' \cup MixedIssues'), NEW c \in WaitersOf(i)'
        PROVE  c \in WaitersOf(i)
    <2>1. c \in Builds /\ IssueOf[c] = i /\ (thread'[c] = "mark" \/ WaitsInTable(c)')
      BY <1>3 DEF WaitersOf
    <2>2. ~ MixedUp(c)'
      BY <2>1, MixUpsStay
    <2> QED
      BY <1>1, <2>1, <2>2 DEF WaitersOf
  <1>4. pending' \in [Issues -> Nat]
    BY DEF HeldInv, TableInv, TypeOK
  <1>5. RequestsCover'
    BY <1>3, <1>4, RequestsKept
  <1> QED
    BY <1>2, <1>5 DEF ReviewInv

\* At first nothing waits.
LEMMA InitReviewInv == Init => ReviewInv
  <1> SUFFICES ASSUME Init PROVE ReviewInv
    OBVIOUS
  <1>1. HeldInv
    BY InitHeldInv
  <1>2. \A b \in Builds : ~ HasEntry(b) /\ ~ WaitsInTable(b)
    BY NoBuildType, NumbersOfBuilds, BuildNoneAssumption DEF Init, HasEntry, WaitsInTable
  <1>3. \A b \in Builds : BuildOK(b)
    BY <1>2, BuildNoneAssumption DEF Init, BuildOK, Live
  <1>4. \A i : WaitersOf(i) = {}
    BY <1>2 DEF Init, WaitersOf
  <1>5. \A i : Cardinality(WaitersOf(i)) = 0
    BY <1>4, FS_EmptySet
  <1> QED
    BY <1>1, <1>3, <1>5 DEF Init, ReviewInv, RequestsCover

\* BUILD_TRIGGER: the build takes over the entry of another one of its number, or
\* finds the number free.
LEMMA TriggerReviewInv ==
  ASSUME ReviewInv, NEW b \in Builds, TriggerFails(b) \/ Trigger(b)
  PROVE  ReviewInv'
  <1>t. /\ TypeOK /\ HeldInv /\ thread[b] = "none" /\ io = None /\ StartedOK(b)
        /\ ~ HasEntry(b) /\ ~ WaitsInTable(b) /\ b \notin asked /\ reported[b] = 0
    <2>1. TypeOK /\ HeldInv /\ thread[b] = "none" /\ io = None /\ StartedOK(b)
      BY DEF ReviewInv, HeldInv, TableInv, TriggerFails, Trigger
    <2>2. ~ HasEntry(b) /\ b \notin asked /\ reported[b] = 0
      BY <2>1, NumbersOfBuilds DEF StartedOK, HasEntry
    <2> QED
      BY <2>1, <2>2 DEF WaitsInTable
  <1>0. HeldInv'
    BY <1>t, TriggerHeldInv
  <1>1. io # b
    BY <1>t, BuildNoneAssumption
  <1>2. CASE TriggerFails(b)
    <2>1. /\ thread' = [thread EXCEPT ![b] = "ended"]
          /\ Reports(b)
          /\ UNCHANGED <<table, io, watch, reviews, life, clashed>>
      BY <1>2 DEF TriggerFails
    <2>2. /\ thread'[b] = "ended" /\ \A c \in Builds \ {b} : thread'[c] = thread[c]
          /\ reported'[b] \in {0, 1} /\ \A c \in Builds \ {b} : reported'[c] = reported[c]
      BY <1>t, <2>1 DEF TypeOK, Reports
    <2>3. \A c \in Builds : (HasEntry(c)' <=> HasEntry(c)) /\ (WaitsInTable(c)' <=> WaitsInTable(c))
      BY <2>1, EntriesKept
    <2>4. OthersKept(b)
      BY <2>1, <2>2, <2>3 DEF OthersKept, reviews
    <2>5. BuildOK(b)'
      BY <1>t, <1>1, <2>1, <2>2, <2>3 DEF BuildOK, Live, reviews
    <2> QED
      BY <1>0, <1>t, <2>1, <2>2, <2>3, <2>4, <2>5, QuietBuildMoves
  <1>3. CASE Trigger(b)
    <2>1. /\ UNCHANGED <<io, watch, reviews, reported, life, crashed>>
          /\ clashed' = clashed \cup ({NumberOf[b]} \cap Active)
      BY <1>3 DEF Trigger
    <2>2. \A c \in Builds \ {b} : thread'[c] = thread[c]
      BY <1>t, <1>3 DEF Trigger, TypeOK
    <2>3. CASE NumberOf[b] = 0
      <3>1. table' = table /\ thread'[b] = "queued"
        BY <1>t, <1>3, <2>3 DEF Trigger, TypeOK
      <3>2. \A c \in Builds : (HasEntry(c)' <=> HasEntry(c)) /\ (WaitsInTable(c)' <=> WaitsInTable(c))
        BY <3>1, EntriesKept
      <3>3. OthersKept(b)
        BY <2>1, <2>2, <3>2 DEF OthersKept, reviews
      <3>4. BuildOK(b)'
        BY <1>t, <1>1, <2>1, <3>1, <3>2 DEF BuildOK, Live, reviews
      <3>5. clashed' = clashed
        BY <2>1, <2>3 DEF Active, Numbers
      <3> QED
        BY <1>0, <1>t, <2>1, <3>1, <3>2, <3>3, <3>4, <3>5, QuietBuildMoves
    <2>4. CASE NumberOf[b] # 0
      <3>1. /\ table' = [table EXCEPT ![NumberOf[b]] = [build |-> b, waiting_review |-> FALSE,
                                                        trigger_time |-> Now]]
            /\ thread'[b] = "polling"
        BY <1>t, <1>3, <2>4 DEF Trigger, TypeOK
      <3>2. CASE NumberOf[b] \in Active
        <4>1. MixedUp(b)' /\ MixUpsGrow
          BY <2>1, <3>2 DEF MixedUp, MixUpsGrow, reviews
        <4>2. \A k \in Numbers \ {NumberOf[b]} : table'[k] = table[k]
          BY <1>t, <2>4, <3>1, NumbersOfBuilds, TableAtNumber
        <4>3. LooseStep(b)
          BY <2>1, <2>2, <4>1, <4>2 DEF LooseStep, reviews
        <4>4. \A i \in Issues : pending[i] <= pending'[i]
          BY <1>t, <2>1 DEF TypeOK, reviews
        <4> QED
          BY <1>0, <4>1, <4>3, <4>4, LooseBuildMoves
      <3>3. CASE NumberOf[b] \notin Active
        <4>1. /\ HasEntry(b)' /\ ~ WaitsInTable(b)'
              /\ \A c \in Builds \ {b} : /\ HasEntry(c)' <=> HasEntry(c)
                                         /\ WaitsInTable(c)' <=> WaitsInTable(c)
          BY <1>t, <2>4, <3>1, <3>3, EntryAdded
        <4>2. OthersKept(b)
          BY <2>1, <2>2, <4>1 DEF OthersKept, reviews
        <4>3. BuildOK(b)'
          BY <1>t, <1>1, <2>1, <3>1, <4>1 DEF BuildOK, Live, reviews
        <4>4. clashed' = clashed
          BY <2>1, <3>3
        <4> QED
          BY <1>0, <1>t, <2>1, <3>1, <4>1, <4>2, <4>3, <4>4, QuietBuildMoves
      <3> QED
        BY <3>2, <3>3
    <2> QED
      BY <2>3, <2>4
  <1> QED
    BY <1>2, <1>3

\* A step of the poll thread of a build that is mixed up.
LEMMA LoosePollIsLoose ==
  ASSUME ReviewInv, NEW b \in Builds, PollStep(b), MixedUp(b)
  PROVE  LooseStep(b) /\ MixUpsGrow
  <1>t. TypeOK
    BY DEF ReviewInv, HeldInv, TableInv
  <1>1. /\ io' = io /\ clashed' = clashed /\ asked' \subseteq asked \cup {b}
        /\ \A c \in Builds \ {b} : reported'[c] = reported[c]
    BY <1>t DEF PollStep, PollEnds, ChecksSpecial, AsksForReview, MarksWaiting, SendsResult, Erases,
                Reports, TypeOK, reviews
  <1>2. \A c \in Builds \ {b} : thread'[c] = thread[c]
    BY <1>t, PollSteps
  <1>3. \A k \in Numbers \ {NumberOf[b]} : table'[k] = table[k]
    <2>1. \/ table' = table
          \/ table' = [table EXCEPT ![NumberOf[b]] = NoBuild]
          \/ table' = Marked(NumberOf[b])
      BY DEF PollStep, PollEnds, ChecksSpecial, AsksForReview, MarksWaiting, SendsResult, Erases
    <2>2. NumberOf[b] \in Numbers
      BY <1>t DEF MixedUp, TypeOK
    <2> QED
      BY <1>t, <2>1, <2>2, TableAtNumber
  <1>4. MixedUp(b)' /\ MixUpsGrow
    <2>1. missed \subseteq missed'
      BY DEF PollStep, PollEnds, ChecksSpecial, AsksForReview, MarksWaiting, SendsResult, Erases, reviews
    <2> QED
      BY <1>1, <2>1 DEF MixedUp, MixUpsGrow
  <1> QED
    BY <1>1, <1>2, <1>3, <1>4 DEF LooseStep

\* It keeps the invariant: a request it makes is one that no other build waits for.
LEMMA LoosePollReviewInv ==
  ASSUME ReviewInv, NEW b \in Builds, PollStep(b), MixedUp(b)
  PROVE  ReviewInv'
  <1>t. TypeOK /\ HeldInv
    BY DEF ReviewInv, HeldInv, TableInv
  <1>0. HeldInv'
    BY <1>t, PollHeldInv
  <1>1. \A i \in Issues : pending[i] <= pending'[i]
    <2>1. CASE AsksForReview(b)
      BY <1>t, <2>1 DEF AsksForReview, RequestsReview, TypeOK
    <2>2. CASE pending' = pending
      BY <1>t, <2>2 DEF TypeOK
    <2> QED
      BY <2>1, <2>2 DEF PollStep, PollEnds, ChecksSpecial, MarksWaiting, SendsResult, Erases, reviews
  <1> QED
    BY <1>0, <1>1, LoosePollIsLoose, LooseBuildMoves

\* The poll thread of any other, apart from its request for a review.
LEMMA PollReviewInv ==
  ASSUME ReviewInv, NEW b \in Builds, PollStep(b), ~ MixedUp(b), ~ AsksForReview(b)
  PROVE  ReviewInv'
  <1>t. TypeOK /\ BuildOK(b)
    BY DEF ReviewInv, HeldInv, TableInv
  <1>0. HeldInv'
    BY PollHeldInv DEF ReviewInv
  <1>1. thread[b] \in Live /\ \A c \in Builds \ {b} : thread'[c] = thread[c]
    BY <1>t, PollSteps
  <1>2. HasEntry(b) /\ ~ WaitsInTable(b) /\ io # b
    BY <1>t, <1>1 DEF BuildOK, Live
  <1>3. CASE PollEnds(b) \/ ChecksSpecial(b)
    <2>1. /\ UNCHANGED <<table, io, reviews, reported, clashed>>
          /\ thread[b] \in {"polling", "built"} /\ thread'[b] \in Live \ {"mark"}
      BY <1>t, <1>3 DEF PollEnds, ChecksSpecial, TypeOK, Live
    <2>2. \A c \in Builds : (HasEntry(c)' <=> HasEntry(c)) /\ (WaitsInTable(c)' <=> WaitsInTable(c))
      BY <2>1, EntriesKept
    <2>3. OthersKept(b)
      BY <1>1, <2>1, <2>2 DEF OthersKept, reviews
    <2>4. BuildOK(b)'
      BY <1>t, <1>2, <2>1, <2>2 DEF BuildOK, Live, reviews, TypeOK
    <2> QED
      BY <1>0, <2>1, <2>2, <2>3, <2>4, QuietBuildMoves
  <1>4. CASE MarksWaiting(b)
    <2>1. /\ UNCHANGED <<io, reviews, reported, clashed>> /\ table' = Marked(NumberOf[b])
          /\ thread[b] = "mark" /\ thread'[b] = "ended"
      BY <1>t, <1>4 DEF MarksWaiting, TypeOK
    <2>2. /\ HasEntry(b)' /\ WaitsInTable(b)'
          /\ \A c \in Builds \ {b} : /\ HasEntry(c)' <=> HasEntry(c)
                                     /\ WaitsInTable(c)' <=> WaitsInTable(c)
      BY <1>t, <1>2, <2>1, EntryMarked
    <2>3. OthersKept(b)
      BY <1>1, <2>1, <2>2 DEF OthersKept, reviews
    <2>4. BuildOK(b)'
      BY <1>t, <1>2, <2>1, <2>2 DEF BuildOK, Live, reviews, TypeOK
    <2> QED
      BY <1>0, <2>1, <2>2, <2>3, <2>4, QuietBuildMoves
  <1>5. CASE SendsResult(b)
    <2>1. /\ UNCHANGED <<table, io, reviews, clashed>> /\ Reports(b)
          /\ thread[b] = "report" /\ thread'[b] = "erase"
      BY <1>t, <1>5 DEF SendsResult, TypeOK
    <2>2. reported[b] = 0 /\ b \notin asked
      BY <1>t, <2>1 DEF BuildOK, TypeOK
    <2>3. reported'[b] \in {0, 1} /\ \A c \in Builds \ {b} : reported'[c] = reported[c]
      BY <1>t, <2>1, <2>2 DEF TypeOK, Reports
    <2>4. \A c \in Builds : (HasEntry(c)' <=> HasEntry(c)) /\ (WaitsInTable(c)' <=> WaitsInTable(c))
      BY <2>1, EntriesKept
    <2>5. OthersKept(b)
      BY <1>1, <2>1, <2>3, <2>4 DEF OthersKept, reviews
    <2>6. BuildOK(b)'
      BY <1>2, <2>1, <2>2, <2>3, <2>4 DEF BuildOK, Live, reviews
    <2> QED
      BY <1>0, <2>1, <2>2, <2>4, <2>5, <2>6, QuietBuildMoves
  <1>6. CASE Erases(b)
    <2>1. /\ UNCHANGED <<io, reviews, reported, clashed>> /\ table' = [table EXCEPT ![NumberOf[b]] = NoBuild]
          /\ thread[b] = "erase" /\ thread'[b] = "ended"
      BY <1>t, <1>6 DEF Erases, TypeOK
    <2>2. /\ ~ HasEntry(b)' /\ ~ WaitsInTable(b)'
          /\ \A c \in Builds \ {b} : /\ HasEntry(c)' <=> HasEntry(c)
                                     /\ WaitsInTable(c)' <=> WaitsInTable(c)
      BY <1>t, <1>2, <2>1, EntryErased
    <2>3. OthersKept(b)
      BY <1>1, <2>1, <2>2 DEF OthersKept, reviews
    <2>4. BuildOK(b)'
      BY <1>t, <1>2, <2>1, <2>2 DEF BuildOK, Live, reviews, TypeOK
    <2> QED
      BY <1>0, <2>1, <2>2, <2>3, <2>4, QuietBuildMoves
  <1> QED
    BY <1>3, <1>4, <1>5, <1>6 DEF PollStep

\* The request for a review: the build is about to wait, and unless the request
\* is lost it is counted.
LEMMA AskReviewInv ==
  ASSUME ReviewInv, NEW b \in Builds, AsksForReview(b), ~ MixedUp(b)
  PROVE  ReviewInv'
  <1>t. TypeOK /\ BuildOK(b)
    BY DEF ReviewInv, HeldInv, TableInv
  <1>0. HeldInv'
    BY PollHeldInv DEF ReviewInv, PollStep
  <1>1. /\ thread[b] = "ask" /\ thread'[b] = "mark"
        /\ \A c \in Builds \ {b} : thread'[c] = thread[c]
        /\ asked' = asked \cup {b}
        /\ RequestsReview(IssueOf[b])
        /\ missed' = IF pending' = pending THEN missed \cup {IssueOf[b]} ELSE missed
        /\ UNCHANGED <<table, io, reported, clashed>>
    BY <1>t DEF AsksForReview, TypeOK
  <1>m. MixUpsGrow
    BY <1>1 DEF MixUpsGrow
  <1>2. HasEntry(b) /\ ~ WaitsInTable(b) /\ io # b /\ reported[b] = 0 /\ reported'[b] = 0
    BY <1>t, <1>1 DEF BuildOK, Live, TypeOK
  <1>3. \A c \in Builds : (HasEntry(c)' <=> HasEntry(c)) /\ (WaitsInTable(c)' <=> WaitsInTable(c))
    BY <1>1, EntriesKept
  <1>4. OthersKept(b)
    BY <1>1, <1>3 DEF OthersKept
  <1>5. BuildOK(b)'
    BY <1>1, <1>2, <1>3 DEF BuildOK, Live
  <1>6. \A c \in Builds : ~ MixedUp(c)' => BuildOK(c)'
    BY <1>1, <1>m, <1>4, <1>5, OneBuildMoves
  <1>7. RequestsCover'
    <2> SUFFICES ASSUME NEW i \in Issues \ (missed' \cup MixedIssues')
                 PROVE  Cardinality(WaitersOf(i)') <= pending'[i]
      BY DEF RequestsCover
    <2>1. /\ IsFiniteSet(WaitersOf(i)) /\ Cardinality(WaitersOf(i)) \in Nat
          /\ i \notin missed' /\ Cardinality(WaitersOf(i)) <= pending[i] /\ pending[i] \in Nat
      BY <1>t, <1>m, WaitersAreFinite, MixUpsStay DEF ReviewInv, RequestsCover, TypeOK
    <2>2. CASE i = IssueOf[b]
      <3>1. pending'[i] = pending[i] + 1
        BY <1>t, <1>1, <2>2 DEF RequestsReview, TypeOK
      <3>2. WaitersOf(i)' \subseteq WaitersOf(i) \cup {b}
        BY <1>1, <1>3 DEF WaitersOf
      <3>3. /\ IsFiniteSet(WaitersOf(i) \cup {b})
            /\ Cardinality(WaitersOf(i) \cup {b}) <= Cardinality(WaitersOf(i)) + 1
        BY <2>1, OneMore
      <3>4. /\ Cardinality(WaitersOf(i)') <= Cardinality(WaitersOf(i) \cup {b})
            /\ Cardinality(WaitersOf(i)') \in Nat /\ Cardinality(WaitersOf(i) \cup {b}) \in Nat
        BY <3>2, <3>3, FS_Subset, FS_CardinalityType
      <3> QED
        BY <2>1, <3>1, <3>3, <3>4
    <2>3. CASE i # IssueOf[b]
      <3>1. pending'[i] = pending[i]
        BY <1>t, <1>1, <2>3 DEF RequestsReview, TypeOK
      <3>2. WaitersOf(i)' = WaitersOf(i)
        BY <1>1, <1>3, <2>3 DEF WaitersOf
      <3> QED
        BY <2>1, <3>1, <3>2
    <2> QED
      BY <2>2, <2>3
  <1> QED
    BY <1>0, <1>6, <1>7 DEF ReviewInv

\* An entry that waits for issue i is that of a build of the issue.
LEMMA WaitingEntry ==
  ASSUME TableInv, NEW i, NEW n \in WaitingFor(i)
  PROVE  \E b \in Builds : /\ b = table[n].build /\ NumberOf[b] = n /\ IssueOf[b] = i
                           /\ HasEntry(b) /\ WaitsInTable(b)
  <1>1. /\ n \in Active /\ n \in Numbers /\ table[n].build \in Builds
        /\ table[n].waiting_review /\ IssueOf[table[n].build] = i
    BY DEF WaitingFor, Active, TableInv, TypeOK
  <1>2. NumberOf[table[n].build] = n
    BY <1>1 DEF TableInv, EntryAtItsNumber
  <1>3. n # 0
    BY <1>1 DEF Numbers
  <1> QED
    BY <1>1, <1>2, <1>3 DEF HasEntry, WaitsInTable

\* An answer that releases a build that is mixed up.
LEMMA LooseReleaseReviewInv ==
  ASSUME ReviewInv, NEW i \in Issues, ReviewResult(i),
         NEW n \in WaitingFor(i), Release(n), n \in clashed
  PROVE  ReviewInv'
  <1>t. TypeOK /\ HeldInv
    BY DEF ReviewInv, HeldInv, TableInv
  <1>0. HeldInv'
    BY <1>t, AnswerHeldInv
  <1>1. PICK b \in Builds : /\ b = table[n].build /\ NumberOf[b] = n /\ IssueOf[b] = i
                            /\ HasEntry(b) /\ WaitsInTable(b)
    BY <1>t, WaitingEntry DEF HeldInv
  <1>2. io' = b /\ table' = [table EXCEPT ![n] = NoBuild]
    BY <1>1 DEF Release
  <1>3. /\ pending' = [pending EXCEPT ![i] = @ - 1]
        /\ UNCHANGED <<thread, asked, reported, clashed>>
        /\ missed \subseteq missed'
    BY DEF ReviewResult
  <1>4. MixedUp(b)' /\ MixUpsGrow
    BY <1>1, <1>3 DEF MixedUp, MixUpsGrow
  <1>5. \A k \in Numbers \ {NumberOf[b]} : table'[k] = table[k]
    BY <1>t, <1>1, <1>2 DEF TypeOK
  <1>6. LooseStep(b)
    BY <1>2, <1>3, <1>4, <1>5 DEF LooseStep
  <1>7. i \in MixedIssues'
    BY <1>1, <1>4 DEF MixedIssues
  <1>8. \A j \in Issues \ {i} : pending[j] <= pending'[j]
    BY <1>t, <1>3 DEF TypeOK
  <1> QED
    BY <1>0, <1>4, <1>6, <1>7, <1>8, LooseBuildMoves

\* An answer that finds a waiting build takes it out of the table: one review
\* and one waiting build less.
LEMMA ReleaseReviewInv ==
  ASSUME ReviewInv, NEW i \in Issues, ReviewResult(i),
         NEW n \in WaitingFor(i), Release(n), n \notin clashed
  PROVE  ReviewInv'
  <1>t. TypeOK /\ HeldInv
    BY DEF ReviewInv, HeldInv, TableInv
  <1>0. HeldInv'
    BY <1>t, AnswerHeldInv
  <1>1. PICK b \in Builds : /\ b = table[n].build /\ NumberOf[b] = n /\ IssueOf[b] = i
                            /\ HasEntry(b) /\ WaitsInTable(b)
    BY <1>t, WaitingEntry DEF HeldInv
  <1>2. io' = b /\ table' = [table EXCEPT ![NumberOf[b]] = NoBuild]
    BY <1>1 DEF Release
  <1>3. /\ io = None
        /\ pending' = [pending EXCEPT ![i] = @ - 1] /\ pending[i] > 0
        /\ UNCHANGED <<thread, asked, reported, clashed>>
        /\ MixUpsGrow
    BY DEF ReviewResult, MixUpsGrow
  <1>4. /\ ~ HasEntry(b)' /\ ~ WaitsInTable(b)'
        /\ \A c \in Builds \ {b} : /\ HasEntry(c)' <=> HasEntry(c)
                                   /\ WaitsInTable(c)' <=> WaitsInTable(c)
    BY <1>t, <1>1, <1>2, EntryErased
  <1>5. thread[b] = "ended" /\ reported[b] = 0
    <2>1. BuildOK(b)
      BY <1>1 DEF ReviewInv, MixedUp
    <2> QED
      BY <1>t, <1>1, <2>1 DEF BuildOK, TypeOK, Live
  <1>6. ASSUME NEW c \in Builds, ~ MixedUp(c)' PROVE BuildOK(c)'
    <2>1. BuildOK(c)
      BY <1>3, <1>6, MixUpsStay DEF ReviewInv
    <2>2. CASE c = b
      BY <1>2, <1>3, <1>4, <1>5, <2>1, <2>2 DEF BuildOK, Live
    <2>3. CASE c # b
      BY <1>2, <1>3, <1>4, <2>1, <2>3, BuildKept
    <2> QED
      BY <2>2, <2>3
  <1>7. RequestsCover'
    <2> SUFFICES ASSUME NEW j \in Issues \ (missed' \cup MixedIssues')
                 PROVE  Cardinality(WaitersOf(j)') <= pending'[j]
      BY DEF RequestsCover
    <2>1. /\ IsFiniteSet(WaitersOf(j)) /\ Cardinality(WaitersOf(j)) \in Nat
          /\ Cardinality(WaitersOf(j)) <= pending[j] /\ pending[j] \in Nat
      BY <1>t, <1>3, WaitersAreFinite, MixUpsStay DEF ReviewInv, RequestsCover, TypeOK
    <2>2. CASE j = i
      <3>1. pending'[j] = pending[j] - 1
        BY <1>t, <1>3, <2>2 DEF TypeOK
      <3>2. WaitersOf(j)' = WaitersOf(j) \ {b} /\ b \in WaitersOf(j)
        BY <1>1, <1>3, <1>4, <1>5, <2>2 DEF WaitersOf
      <3>3. Cardinality(WaitersOf(j) \ {b}) = Cardinality(WaitersOf(j)) - 1
        BY <2>1, <3>2, FS_RemoveElement
      <3> QED
        BY <2>1, <3>1, <3>2, <3>3
    <2>3. CASE j # i
      <3>1. pending'[j] = pending[j]
        BY <1>t, <1>3, <2>3 DEF TypeOK
      <3>2. WaitersOf(j)' = WaitersOf(j)
        BY <1>1, <1>3, <1>4, <2>3 DEF WaitersOf
      <3> QED
        BY <2>1, <3>1, <3>2
    <2> QED
      BY <2>2, <2>3
  <1> QED
    BY <1>0, <1>6, <1>7 DEF ReviewInv

\* An answer that finds none: either no build is about to wait, or the issue
\* becomes one with a missed answer.
LEMMA DropReviewInv ==
  ASSUME ReviewInv, NEW i \in Issues, ReviewResult(i), WaitingFor(i) = {},
         UNCHANGED <<io, table>>
  PROVE  ReviewInv'
  <1>t. TypeOK /\ HeldInv
    BY DEF ReviewInv, HeldInv, TableInv
  <1>0. HeldInv'
    BY <1>t, AnswerHeldInv
  <1>1. /\ pending' = [pending EXCEPT ![i] = @ - 1] /\ pending[i] > 0
        /\ UNCHANGED <<thread, asked, reported, clashed>>
        /\ missed' = IF \E b \in Builds : thread[b] = "mark" /\ IssueOf[b] = i
                     THEN missed \cup {i} ELSE missed
    BY DEF ReviewResult
  <1>m. MixUpsGrow
    BY <1>1 DEF MixUpsGrow
  <1>2. \A c \in Builds : (HasEntry(c)' <=> HasEntry(c)) /\ (WaitsInTable(c)' <=> WaitsInTable(c))
    BY EntriesKept
  <1>3. \A c \in Builds : ~ MixedUp(c)' => BuildOK(c)'
    BY <1>1, <1>m, <1>2, MixUpsStay, BuildKept DEF ReviewInv
  <1>4. \A j : WaitersOf(j)' = WaitersOf(j)
    BY <1>1, <1>2 DEF WaitersOf
  <1>5. RequestsCover'
    <2> SUFFICES ASSUME NEW j \in Issues \ (missed' \cup MixedIssues')
                 PROVE  Cardinality(WaitersOf(j)) <= pending'[j]
      BY <1>4 DEF RequestsCover
    <2>1. j \notin missed' /\ Cardinality(WaitersOf(j)) <= pending[j] /\ pending'[j] \in Nat
      BY <1>0, <1>m, MixUpsStay DEF ReviewInv, RequestsCover, HeldInv, TableInv, TypeOK
    <2>2. CASE j = i
      <3>1. \A b \in Builds : IssueOf[b] = i => ~ WaitsInTable(b)
        BY NumbersOfBuilds, BuildNoneAssumption DEF WaitingFor, WaitsInTable, HasEntry, Active
      <3>2. WaitersOf(j) = {}
        BY <1>1, <2>2, <3>1 DEF WaitersOf
      <3> QED
        BY <2>1, <3>2, FS_EmptySet
    <2>3. CASE j # i
      BY <1>t, <1>1, <2>1, <2>3 DEF TypeOK
    <2> QED
      BY <2>2, <2>3
  <1> QED
    BY <1>0, <1>3, <1>5 DEF ReviewInv

\* The callback sends the result of the build it took out of the table.
LEMMA ReportReviewInv == ASSUME ReviewInv, ReviewReports PROVE ReviewInv'
  <1>t. TypeOK /\ HeldInv
    BY DEF ReviewInv, HeldInv, TableInv
  <1>0. HeldInv'
    BY <1>t, ReportHeldInv
  <1>1. /\ io \in Builds /\ io' = None /\ Reports(io)
        /\ UNCHANGED <<thread, table, pending, missed, asked, clashed>>
    BY <1>t DEF ReviewReports, TypeOK, reviews
  <1>2. ~ MixedUp(io) => reported[io] = 0 /\ thread[io] = "ended" /\ ~ HasEntry(io)
    BY <1>1 DEF ReviewInv, BuildOK
  <1>3. /\ \A c \in Builds \ {io} : reported'[c] = reported[c]
        /\ ~ MixedUp(io) => reported'[io] \in {0, 1}
    BY <1>t, <1>1, <1>2 DEF TypeOK, Reports
  <1>4. \A c \in Builds : (HasEntry(c)' <=> HasEntry(c)) /\ (WaitsInTable(c)' <=> WaitsInTable(c))
    BY <1>1, EntriesKept
  <1>5. ASSUME NEW c \in Builds, ~ MixedUp(c)' PROVE BuildOK(c)'
    <2>1. BuildOK(c) /\ ~ MixedUp(c)
      BY <1>1, <1>5 DEF ReviewInv, MixedUp
    <2>2. CASE c = io
      BY <1>1, <1>2, <1>3, <1>4, <2>1, <2>2, BuildNoneAssumption DEF BuildOK, Live
    <2>3. CASE c # io
      BY <1>1, <1>3, <1>4, <2>1, <2>3, BuildKept, BuildNoneAssumption
    <2> QED
      BY <2>2, <2>3
  <1>6. \A j : WaitersOf(j)' = WaitersOf(j)
    BY <1>1, <1>4 DEF WaitersOf
  <1>7. RequestsCover'
    BY <1>1, <1>6 DEF ReviewInv, RequestsCover, MixedIssues, MixedUp
  <1> QED
    BY <1>0, <1>5, <1>7 DEF ReviewInv

\* The steps of main, and stuttering: a request of the repository watch is one
\* more review that nobody waits for.
LEMMA MainReviewInv ==
  ASSUME ReviewInv,
         WatchPicks \/ WatchRequests \/ Signal \/ CutsClient \/ Exit \/ UNCHANGED vars
  PROVE  ReviewInv'
  <1>t. TypeOK /\ HeldInv
    BY DEF ReviewInv, HeldInv, TableInv
  <1>0. HeldInv'
    BY <1>t, MainHeldInv
  <1>1. UNCHANGED <<thread, table, io, asked, missed, reported, clashed>> /\ MixUpsGrow
    BY DEF WatchPicks, WatchRequests, Signal, CutsClient, Exit, vars, reviews, MixUpsGrow
  <1>2. \A i \in Issues : pending[i] <= pending'[i]
    <2>1. CASE WatchRequests
      BY <1>t, <2>1 DEF WatchRequests, RequestsReview, TypeOK
    <2>2. CASE pending' = pending
      BY <1>t, <2>2 DEF TypeOK
    <2> QED
      BY <2>1, <2>2 DEF WatchPicks, Signal, CutsClient, Exit, vars, reviews
  <1>3. \A c \in Builds : (HasEntry(c)' <=> HasEntry(c)) /\ (WaitsInTable(c)' <=> WaitsInTable(c))
    BY <1>1, EntriesKept
  <1>4. \A c \in Builds : ~ MixedUp(c)' => BuildOK(c)'
    BY <1>1, <1>3, MixUpsStay, BuildKept DEF ReviewInv
  <1>5. \A j : WaitersOf(j)' = WaitersOf(j)
    BY <1>1, <1>3 DEF WaitersOf
  <1>6. RequestsCover'
    BY <1>0, <1>1, <1>2, <1>5, RequestsKept DEF HeldInv, TableInv, TypeOK
  <1> QED
    BY <1>0, <1>4, <1>6 DEF ReviewInv

\* Every step keeps the invariant of the reviews.
LEMMA StepReviewInv == ASSUME ReviewInv, [Next]_vars PROVE ReviewInv'
  <1>1. ASSUME NEW b \in Builds, TriggerFails(b) \/ Trigger(b) PROVE ReviewInv'
    BY <1>1, TriggerReviewInv
  <1>2. ASSUME NEW b \in Builds, PollStep(b) PROVE ReviewInv'
    BY <1>2, LoosePollReviewInv, PollReviewInv, AskReviewInv
  <1>3. ASSUME NEW i \in Issues, ReviewResult(i) PROVE ReviewInv'
    <2>1. CASE \E n \in WaitingFor(i) : Release(n)
      BY <1>3, <2>1, LooseReleaseReviewInv, ReleaseReviewInv
    <2>2. CASE WaitingFor(i) = {} /\ UNCHANGED <<io, table>>
      BY <1>3, <2>2, DropReviewInv
    <2> QED
      BY <1>3, <2>1, <2>2 DEF ReviewResult
  <1>4. CASE ReviewReports
    BY <1>4, ReportReviewInv
  <1>5. CASE WatchPicks \/ WatchRequests \/ Signal \/ CutsClient \/ Exit \/ UNCHANGED vars
    BY <1>5, MainReviewInv
  <1> QED
    BY <1>1, <1>2, <1>3, <1>4, <1>5 DEF Next

\* So it holds throughout.
LEMMA ReviewInvariant == Spec => []ReviewInv
  <1>1. Init => ReviewInv
    BY InitReviewInv
  <1>2. ReviewInv /\ [Next]_vars => ReviewInv'
    BY StepReviewInv
  <1> QED
    BY <1>1, <1>2, PTL DEF Spec

\* The invariants together are the one that BuildAgent states.
LEMMA InvariantsAreBuildInv == ReportsInv /\ ReviewInv => BuildInv
  <1>1. ReportsInv /\ ReviewInv => ReportedOnce
    BY DEF ReportsInv, ReviewInv, ReportersOK, BuildOK, ReportedOnce
  <1> QED
    BY <1>1 DEF ReportsInv, ReportersOK, HeldInv, ReviewInv, TableInv, BuildInv, BuildOK,
                LiveHasEntry, OneReporter, TwoReporters

\* A build's result is sent once at most, by its poll thread or by the message
\* callback, for any number of builds in any order of polls, reviews and requests
\* of the repository watch; and, once another build has taken over the entry of its
\* number, twice at most (agent_main.cpp:261-307, 364-378, 494).
THEOREM ResultsAreSentOnce == Spec => []ReportedOnce
  <1>1. ReportsInv /\ ReviewInv => ReportedOnce
    BY InvariantsAreBuildInv DEF BuildInv
  <1> QED
    BY <1>1, InitReportsInv, StepReportsInv, ReviewInvariant, PTL DEF Spec

\* Each build that waits in the table has a review under way that may release
\* it, unless a request of its issue was lost, an answer came too early, or a build
\* of the issue has a number under which one took over another's entry
\* (agent_main.cpp:251-271, 344-378, 494).
THEOREM WaitingBuildsHaveReviews == Spec => []WaitsForAnAnswer
  <1>1. ReviewInv => WaitsForAnAnswer
    <2> SUFFICES ASSUME ReviewInv, NEW i \in Issues \ (missed \cup MixedIssues)
                 PROVE  Cardinality(WaitingFor(i)) <= pending[i]
      BY DEF WaitsForAnAnswer, WaitingFor
    <2> DEFINE f == [n \in WaitingFor(i) |-> table[n].build]
    <2>1. \A n \in WaitingFor(i) : table[n].build \in WaitersOf(i) /\ NumberOf[table[n].build] = n
      <3> SUFFICES ASSUME NEW n \in WaitingFor(i)
                   PROVE  table[n].build \in WaitersOf(i) /\ NumberOf[table[n].build] = n
        OBVIOUS
      <3>1. /\ n \in Active /\ n # 0 /\ table[n].build \in Builds
            /\ table[n].waiting_review /\ IssueOf[table[n].build] = i
        BY DEF WaitingFor, Active, Numbers, ReviewInv, HeldInv, TableInv, TypeOK
      <3>2. NumberOf[table[n].build] = n
        BY <3>1 DEF ReviewInv, HeldInv, TableInv, EntryAtItsNumber
      <3> QED
        BY <3>1, <3>2 DEF WaitersOf, WaitsInTable, HasEntry
    <2>2. f \in Injection(WaitingFor(i), WaitersOf(i))
      BY <2>1 DEF Injection, IsInjective
    <2> HIDE DEF f
    <2>3. /\ IsFiniteSet(WaitersOf(i)) /\ Cardinality(WaitersOf(i)) \in Nat
          /\ Cardinality(WaitersOf(i)) <= pending[i] /\ pending[i] \in Nat
      BY WaitersAreFinite DEF ReviewInv, RequestsCover, HeldInv, TableInv, TypeOK
    <2>4. /\ Cardinality(WaitingFor(i)) <= Cardinality(WaitersOf(i))
          /\ Cardinality(WaitingFor(i)) \in Nat
      BY <2>2, <2>3, FS_Injection, FS_CardinalityType
    <2> QED
      BY <2>3, <2>4
  <1> QED
    BY <1>1, ReviewInvariant, PTL

-----------------------------------------------------------------------------
(* The review gate                                                         *)

Gates == [b \in Builds |-> GateOf(b)]

\* A build that is about to wait, or waits, has asked for its review.
WaitersAsked ==
    \A b \in Builds : ~ MixedUp(b) /\ (thread[b] = "mark" \/ WaitsInTable(b)) => b \in asked

GateInv == ReportsInv /\ ReviewInv /\ WaitersAsked

\* A step leaves alone what decides where a build stands at the gate.
SameGate(c) ==
    /\ MixedUp(c)' <=> MixedUp(c)
    /\ ~ MixedUp(c) =>
         /\ c \in asked' <=> c \in asked
         /\ (thread'[c] = "mark") <=> (thread[c] = "mark")
         /\ WaitsInTable(c)' <=> WaitsInTable(c)

\* Then the build stands where it stood.
LEMMA SameGateOf ==
  ASSUME NEW c \in Builds, SameGate(c)
  PROVE  GateOf(c)' = GateOf(c)
  BY DEF SameGate, GateOf

LEMMA GatesKept ==
  ASSUME \A c \in Builds : SameGate(c)
  PROVE  Gates' = Gates /\ (WaitersAsked => WaitersAsked')
  <1>1. \A c \in Builds : GateOf(c)' = GateOf(c)
    BY SameGateOf
  <1>2. Gates' = Gates
    BY <1>1 DEF Gates
  <1>3. WaitersAsked => WaitersAsked'
    BY DEF SameGate, WaitersAsked
  <1> QED
    BY <1>2, <1>3

\* A step of a build that was mixed up before moves no build at the gate.
LEMMA LooseGatesKept ==
  ASSUME NEW b \in Builds, MixedUp(b), clashed' = clashed, LooseStep(b), asked \subseteq asked'
  PROVE  \A c \in Builds : SameGate(c)
  <1> SUFFICES ASSUME NEW c \in Builds PROVE SameGate(c)
    OBVIOUS
  <1>1. MixedUp(c)' <=> MixedUp(c)
    BY DEF MixedUp
  <1>2. ASSUME ~ MixedUp(c)
        PROVE  /\ c \in asked' <=> c \in asked
               /\ (thread'[c] = "mark") <=> (thread[c] = "mark")
               /\ WaitsInTable(c)' <=> WaitsInTable(c)
    <2>1. NumberOf[c] # NumberOf[b]
      BY <1>2 DEF MixedUp
    <2>2. WaitsInTable(c)' <=> WaitsInTable(c)
      BY <2>1, EntriesElsewhere DEF LooseStep
    <2> QED
      BY <2>1, <2>2 DEF LooseStep
  <1> QED
    BY <1>1, <1>2 DEF SameGate

\* When one build moves, the gates change at that build.
LEMMA OneGateMoves ==
  ASSUME NEW b \in Builds, \A c \in Builds \ {b} : SameGate(c)
  PROVE  /\ Gates' = [Gates EXCEPT ![b] = GateOf(b)']
         /\ WaitersAsked /\ b \in asked' => WaitersAsked'
  <1>1. \A c \in Builds \ {b} : GateOf(c)' = GateOf(c)
    BY SameGateOf
  <1>2. Gates' = [Gates EXCEPT ![b] = GateOf(b)']
    BY <1>1 DEF Gates
  <1>3. WaitersAsked /\ b \in asked' => WaitersAsked'
    BY DEF SameGate, WaitersAsked
  <1> QED
    BY <1>2, <1>3

\* What a step of the Agent is at the gate.
GateStep == Abstract!Next \/ UNCHANGED Abstract!vars

\* A result that is sent is a report, and one that finds no client is none.
LEMMA ReportAtGate ==
  ASSUME TypeOK, NEW b \in Builds, Reports(b), Gates' = Gates, pending' = pending,
         \/ GateOf(b) \in {"free", "released"} /\ reported[b] = 0
         \/ GateOf(b) = "loose" /\ reported[b] <= 1
  PROVE  GateStep
  <1>1. CASE HasClient
    <2>1. reported' = [reported EXCEPT ![b] = @ + 1]
      BY <1>1 DEF Reports
    <2>2. \/ Gates[b] \in {"free", "released"} /\ reported[b] = 0
          \/ Gates[b] = "loose" /\ reported[b] < 2
      BY DEF Gates, TypeOK
    <2>3. Abstract!Report(b)
      BY <2>1, <2>2 DEF Abstract!Report, Gates
    <2> QED
      BY <2>3 DEF GateStep, Abstract!Next
  <1>2. CASE ~ HasClient
    BY <1>2 DEF Reports, GateStep, Abstract!vars, Gates
  <1> QED
    BY <1>1, <1>2

\* A step that moves no build at the gate, and makes neither a request nor a report.
LEMMA NothingAtGate ==
  ASSUME Gates' = Gates, pending' = pending, reported' = reported
  PROVE  GateStep
  BY DEF GateStep, Abstract!vars, Gates

\* BUILD_TRIGGER, and Jenkins does not take the build: it is reported.
LEMMA FailureAtGate ==
  ASSUME GateInv, NEW b \in Builds, TriggerFails(b)
  PROVE  GateStep /\ WaitersAsked'
  <1>t. TypeOK /\ WaitersAsked /\ StartedOK(b) /\ ReportersOK(b)
    BY DEF GateInv, ReportsInv, HeldInv, TableInv
  <1>1. /\ thread[b] = "none" /\ thread' = [thread EXCEPT ![b] = "ended"] /\ Reports(b)
        /\ UNCHANGED <<table, asked, pending, clashed>>
    BY DEF TriggerFails, reviews
  <1>2. \A c \in Builds : (thread'[c] = "mark") <=> (thread[c] = "mark")
    BY <1>t, <1>1 DEF TypeOK
  <1>3. \A c \in Builds : SameGate(c)
    BY <1>1, <1>2, EntriesKept DEF SameGate, MixedUp
  <1>4. b \notin asked /\ reported[b] = 0
    BY <1>t, <1>1 DEF StartedOK
  <1>5. GateOf(b) \in {"free", "loose"} /\ reported[b] = 0
    BY <1>4 DEF GateOf
  <1> QED
    BY <1>t, <1>1, <1>3, <1>5, GatesKept, ReportAtGate

\* BUILD_TRIGGER, and the number is free, or its builds are mixed up already: the
\* build stands before the gate.
LEMMA TriggerAtGate ==
  ASSUME GateInv, NEW b \in Builds, Trigger(b), NumberOf[b] \notin Active \/ MixedUp(b)
  PROVE  GateStep /\ WaitersAsked'
  <1>t. TypeOK /\ WaitersAsked /\ StartedOK(b)
    BY DEF GateInv, ReportsInv, HeldInv, TableInv
  <1>1. /\ thread[b] = "none" /\ thread'[b] # "mark"
        /\ \A c \in Builds \ {b} : thread'[c] = thread[c]
        /\ io = None
        /\ UNCHANGED <<io, asked, pending, reported>>
        /\ clashed' = clashed \cup ({NumberOf[b]} \cap Active)
    BY <1>t DEF Trigger, TypeOK, reviews
  <1>2. clashed' = clashed
    BY <1>1 DEF MixedUp
  <1>3. ~ WaitsInTable(b)
    BY <1>t, <1>1, NumbersOfBuilds DEF StartedOK, WaitsInTable, HasEntry
  <1>4. \A c \in Builds : SameGate(c)
    <2>1. CASE NumberOf[b] = 0
      <3>1. table' = table
        BY <2>1 DEF Trigger
      <3> QED
        BY <1>1, <1>2, <3>1, EntriesKept DEF SameGate, MixedUp
    <2>2. CASE NumberOf[b] # 0
      <3>1. table' = [table EXCEPT ![NumberOf[b]] = [build |-> b, waiting_review |-> FALSE,
                                                     trigger_time |-> Now]]
        BY <2>2 DEF Trigger
      <3>2. CASE NumberOf[b] \notin Active
        <4>1. \A c \in Builds : WaitsInTable(c)' <=> WaitsInTable(c)
          BY <1>t, <1>3, <2>2, <3>1, <3>2, EntryAdded
        <4> QED
          BY <1>1, <1>2, <4>1 DEF SameGate, MixedUp
      <3>3. CASE MixedUp(b)
        <4>1. \A k \in Numbers \ {NumberOf[b]} : table'[k] = table[k]
          BY <1>t, <2>2, <3>1, NumbersOfBuilds, TableAtNumber
        <4>2. LooseStep(b)
          BY <1>1, <1>2, <3>3, <4>1 DEF LooseStep, MixedUp
        <4> QED
          BY <1>1, <1>2, <3>3, <4>2, LooseGatesKept
      <3> QED
        BY <3>2, <3>3
    <2> QED
      BY <2>1, <2>2
  <1> QED
    BY <1>t, <1>1, <1>4, GatesKept, NothingAtGate

\* BUILD_TRIGGER, and another build of the number is still in the table: the gate
\* lets the builds of the number loose.
LEMMA MixUpAtGate ==
  ASSUME GateInv, NEW b \in Builds, Trigger(b), NumberOf[b] \in Active, ~ MixedUp(b)
  PROVE  GateStep /\ WaitersAsked'
  <1>t. TypeOK /\ TableInv /\ WaitersAsked /\ StartedOK(b) /\ ReviewInv
    BY DEF GateInv, ReportsInv, HeldInv, TableInv
  <1>1. /\ thread[b] = "none"
        /\ \A c \in Builds \ {b} : thread'[c] = thread[c]
        /\ UNCHANGED <<asked, pending, reported>>
        /\ clashed' = clashed \cup {NumberOf[b]}
    BY <1>t DEF Trigger, TypeOK, reviews
  <1>2. PICK c \in Builds : /\ c = table[NumberOf[b]].build /\ NumberOf[c] = NumberOf[b]
                            /\ NumberOf[b] # 0 /\ NumberOf[b] \in Numbers
    BY <1>t DEF Active, Numbers, TypeOK, TableInv, EntryAtItsNumber
  <1>3. HasEntry(c) /\ ~ MixedUp(c) /\ c # b
    BY <1>t, <1>1, <1>2 DEF HasEntry, MixedUp, StartedOK
  <1>4. /\ b \notin asked /\ reported[b] = 0
    BY <1>t, <1>1 DEF StartedOK
  <1>5. GateOf(b) = "free"
    BY <1>4 DEF GateOf
  <1>6. GateOf(c) \in {"free", "asked", "ready"}
    <2>1. CASE c \notin asked
      BY <1>3, <2>1 DEF GateOf
    <2>2. CASE c \in asked
      <3>1. thread[c] \in {"mark", "ended"}
        BY <1>t, <1>3, <2>2 DEF ReviewInv, BuildOK
      <3>2. thread[c] = "mark" \/ WaitsInTable(c)
        BY <1>t, <1>2, <1>3, <3>1 DEF TableInv, NothingLeaks, WaitsInTable, Live
      <3> QED
        BY <1>3, <3>2 DEF GateOf
    <2> QED
      BY <2>1, <2>2
  <1>7. \A k \in Numbers \ {NumberOf[b]} : table'[k] = table[k]
    <2>1. table' = [table EXCEPT ![NumberOf[b]] = [build |-> b, waiting_review |-> FALSE,
                                                   trigger_time |-> Now]]
      BY <1>2 DEF Trigger
    <2> QED
      BY <1>t, <1>2, <2>1, TableAtNumber
  <1>8. ASSUME NEW d \in Builds, NumberOf[d] # NumberOf[b] PROVE SameGate(d)
    <2>1. WaitsInTable(d)' <=> WaitsInTable(d)
      BY <1>7, <1>8, EntriesElsewhere
    <2> QED
      BY <1>1, <1>8, <2>1 DEF SameGate, MixedUp
  <1>9. ASSUME NEW d \in Builds, NumberOf[d] = NumberOf[b] PROVE MixedUp(d)' /\ GateOf(d)' = "loose"
    BY <1>1, <1>9 DEF MixedUp, GateOf
  <1>10. Gates' = [d \in Builds |-> IF NumberOf[d] = NumberOf[b] THEN "loose" ELSE Gates[d]]
    <2>1. \A d \in Builds : GateOf(d)' = IF NumberOf[d] = NumberOf[b] THEN "loose" ELSE GateOf(d)
      BY <1>8, <1>9, SameGateOf
    <2> QED
      BY <2>1 DEF Gates
  <1>11. WaitersAsked'
    BY <1>t, <1>8, <1>9 DEF WaitersAsked, SameGate
  <1>12. Abstract!MixUp(b, c)
    <2>1. Gates[b] = "free" /\ Gates[c] \in {"free", "asked", "ready"}
      BY <1>5, <1>6 DEF Gates
    <2> QED
      BY <1>1, <1>2, <1>3, <1>4, <1>10, <2>1 DEF Abstract!MixUp, Gates
  <1> QED
    BY <1>11, <1>12 DEF GateStep, Abstract!Next

\* The poll thread of a build that is mixed up reports it, or asks for a review.
LEMMA LoosePollAtGate ==
  ASSUME GateInv, NEW b \in Builds, PollStep(b), MixedUp(b)
  PROVE  GateStep /\ WaitersAsked'
  <1>t. TypeOK /\ WaitersAsked /\ ReportersOK(b)
    BY DEF GateInv, ReportsInv, HeldInv, TableInv
  <1>1. /\ clashed' = clashed /\ asked \subseteq asked'
        /\ LooseStep(b)
    <2>1. LooseStep(b)
      BY LoosePollIsLoose DEF GateInv
    <2>2. clashed' = clashed /\ asked \subseteq asked'
      BY DEF PollStep, PollEnds, ChecksSpecial, AsksForReview, MarksWaiting, SendsResult, Erases, reviews
    <2> QED
      BY <2>1, <2>2
  <1>2. Gates' = Gates /\ WaitersAsked'
    BY <1>t, <1>1, LooseGatesKept, GatesKept
  <1>3. CASE SendsResult(b)
    <2>1. thread[b] = "report" /\ Reports(b) /\ pending' = pending
      BY <1>3 DEF SendsResult, reviews
    <2>2. GateOf(b) = "loose" /\ reported[b] <= 1
      BY <1>t, <2>1 DEF GateOf, ReportersOK, ThreadReports
    <2> QED
      BY <1>t, <1>2, <2>1, <2>2, ReportAtGate
  <1>4. CASE AsksForReview(b)
    <2>1. RequestsReview(IssueOf[b]) /\ reported' = reported
      BY <1>4 DEF AsksForReview
    <2>2. CASE pending' = pending
      BY <1>2, <2>1, <2>2, NothingAtGate
    <2>3. CASE pending' = [pending EXCEPT ![IssueOf[b]] = @ + 1]
      <3>1. Abstract!AskAgain(IssueOf[b])
        BY <1>2, <2>1, <2>3 DEF Abstract!AskAgain, Abstract!OneMorePending, Gates
      <3> QED
        BY <1>2, <3>1, NumbersOfBuilds DEF GateStep, Abstract!Next, Abstract!Issues, Issues
    <2> QED
      BY <2>1, <2>2, <2>3 DEF RequestsReview
  <1>5. CASE PollEnds(b) \/ ChecksSpecial(b) \/ MarksWaiting(b) \/ Erases(b)
    <2>1. pending' = pending /\ reported' = reported
      BY <1>5 DEF PollEnds, ChecksSpecial, MarksWaiting, Erases, reviews
    <2> QED
      BY <1>2, <2>1, NothingAtGate
  <1> QED
    BY <1>3, <1>4, <1>5 DEF PollStep

\* The poll thread asks, makes its build ready, or reports a build for which it
\* has not asked.
LEMMA PollAtGate ==
  ASSUME GateInv, NEW b \in Builds, PollStep(b), ~ MixedUp(b)
  PROVE  GateStep /\ WaitersAsked'
  <1>t. TypeOK /\ BuildOK(b) /\ WaitersAsked
    BY DEF GateInv, ReviewInv, HeldInv, TableInv
  <1>m. (MixedUp(b)' <=> MixedUp(b)) /\ \A c \in Builds : MixedUp(c)' <=> MixedUp(c)
    BY DEF PollStep, PollEnds, ChecksSpecial, AsksForReview, MarksWaiting, SendsResult, Erases, MixedUp
  <1>1. thread[b] \in Live /\ \A c \in Builds \ {b} : thread'[c] = thread[c]
    BY <1>t, PollSteps
  <1>2. HasEntry(b) /\ ~ WaitsInTable(b)
    BY <1>t, <1>1 DEF BuildOK
  <1>3. CASE PollEnds(b) \/ ChecksSpecial(b) \/ SendsResult(b)
    <2>1. /\ UNCHANGED <<table, asked, pending>>
          /\ thread[b] # "mark" /\ thread'[b] # "mark"
      BY <1>t, <1>3 DEF PollEnds, ChecksSpecial, SendsResult, TypeOK, reviews
    <2>2. \A c \in Builds : SameGate(c)
      BY <1>1, <2>1, <1>m, EntriesKept DEF SameGate
    <2>3. CASE SendsResult(b)
      <3>1. Reports(b) /\ thread[b] = "report"
        BY <2>3 DEF SendsResult
      <3>2. b \notin asked /\ reported[b] = 0
        BY <1>t, <3>1 DEF BuildOK, TypeOK
      <3>3. GateOf(b) = "free"
        BY <1>m, <3>2 DEF GateOf
      <3> QED
        BY <1>t, <2>1, <2>2, <3>1, <3>2, <3>3, GatesKept, ReportAtGate
    <2>4. CASE PollEnds(b) \/ ChecksSpecial(b)
      <3>1. reported' = reported
        BY <2>4 DEF PollEnds, ChecksSpecial
      <3> QED
        BY <1>t, <2>1, <2>2, <3>1, GatesKept, NothingAtGate
    <2> QED
      BY <1>3, <2>3, <2>4
  <1>4. CASE AsksForReview(b)
    <2>1. /\ thread[b] = "ask" /\ thread'[b] = "mark" /\ asked' = asked \cup {b}
          /\ RequestsReview(IssueOf[b]) /\ UNCHANGED <<table, reported>>
      BY <1>t, <1>4 DEF AsksForReview, TypeOK
    <2>2. b \notin asked /\ reported[b] = 0
      BY <1>t, <2>1 DEF BuildOK, TypeOK
    <2>3. \A c \in Builds \ {b} : SameGate(c)
      BY <1>1, <2>1, <1>m, EntriesKept DEF SameGate
    <2>4. GateOf(b) = "free" /\ GateOf(b)' = "asked"
      BY <1>m, <2>1, <2>2 DEF GateOf
    <2>5. /\ Gates[b] = "free" /\ Gates' = [Gates EXCEPT ![b] = "asked"]
          /\ WaitersAsked'
      BY <1>t, <2>1, <2>3, <2>4, OneGateMoves DEF Gates
    <2>6. pending' \in {pending, [pending EXCEPT ![IssueOf[b]] = @ + 1]}
      BY <2>1 DEF RequestsReview
    <2>7. Abstract!Ask(b)
      BY <2>1, <2>2, <2>5, <2>6 DEF Abstract!Ask, Abstract!OneMorePending, Gates
    <2> QED
      BY <2>5, <2>7 DEF GateStep, Abstract!Next
  <1>5. CASE MarksWaiting(b)
    <2>1. /\ thread[b] = "mark" /\ thread'[b] = "ended" /\ table' = Marked(NumberOf[b])
          /\ UNCHANGED <<asked, pending, reported>>
      BY <1>t, <1>5 DEF MarksWaiting, TypeOK, reviews
    <2>2. b \in asked
      BY <1>t, <2>1 DEF WaitersAsked
    <2>3. /\ WaitsInTable(b)'
          /\ \A c \in Builds \ {b} : WaitsInTable(c)' <=> WaitsInTable(c)
      BY <1>t, <1>2, <2>1, EntryMarked
    <2>4. \A c \in Builds \ {b} : SameGate(c)
      BY <1>m, <1>1, <2>1, <2>3 DEF SameGate
    <2>5. GateOf(b) = "asked" /\ GateOf(b)' = "ready"
      BY <1>m, <2>1, <2>2, <2>3 DEF GateOf
    <2>6. /\ Gates[b] = "asked" /\ Gates' = [Gates EXCEPT ![b] = "ready"]
          /\ WaitersAsked'
      BY <1>t, <2>1, <2>2, <2>4, <2>5, OneGateMoves DEF Gates
    <2>7. Abstract!BecomeReady(b)
      BY <2>1, <2>6 DEF Abstract!BecomeReady, Gates
    <2> QED
      BY <2>6, <2>7 DEF GateStep, Abstract!Next
  <1>6. CASE Erases(b)
    <2>1. /\ thread[b] = "erase" /\ thread'[b] = "ended"
          /\ table' = [table EXCEPT ![NumberOf[b]] = NoBuild]
          /\ UNCHANGED <<asked, pending, reported>>
      BY <1>t, <1>6 DEF Erases, TypeOK, reviews
    <2>2. \A c \in Builds : WaitsInTable(c)' <=> WaitsInTable(c)
      BY <1>t, <1>2, <2>1, EntryErased
    <2>3. \A c \in Builds : SameGate(c)
      BY <1>m, <1>1, <2>1, <2>2 DEF SameGate
    <2> QED
      BY <1>t, <2>1, <2>3, GatesKept, NothingAtGate
  <1> QED
    BY <1>3, <1>4, <1>5, <1>6 DEF PollStep

\* An answer lets go one build that is ready, or finds none.
LEMMA AnswerAtGate ==
  ASSUME GateInv, NEW i \in Issues, ReviewResult(i)
  PROVE  GateStep /\ WaitersAsked'
  <1>t. TypeOK /\ TableInv /\ WaitersAsked
    BY DEF GateInv, ReviewInv, HeldInv, TableInv
  <1>1. /\ pending[i] > 0 /\ pending' = [pending EXCEPT ![i] = @ - 1]
        /\ UNCHANGED <<thread, asked, reported, clashed>>
        /\ \/ \E n \in WaitingFor(i) : Release(n)
           \/ WaitingFor(i) = {} /\ table' = table
    BY DEF ReviewResult
  <1>m. \A c \in Builds : MixedUp(c)' <=> MixedUp(c)
    BY <1>1 DEF MixedUp
  <1>2. ASSUME NEW n \in WaitingFor(i), Release(n) PROVE GateStep /\ WaitersAsked'
    <2>1. PICK b \in Builds : /\ b = table[n].build /\ NumberOf[b] = n /\ IssueOf[b] = i
                              /\ HasEntry(b) /\ WaitsInTable(b)
      BY <1>t, WaitingEntry
    <2>2. table' = [table EXCEPT ![NumberOf[b]] = NoBuild]
      BY <1>2, <2>1 DEF Release
    <2>3. /\ ~ WaitsInTable(b)'
          /\ \A c \in Builds \ {b} : WaitsInTable(c)' <=> WaitsInTable(c)
      BY <1>t, <2>1, <2>2, EntryErased
    <2>4. \A c \in Builds \ {b} : SameGate(c)
      BY <1>m, <1>1, <2>3 DEF SameGate
    <2>5. CASE ~ MixedUp(b)
      <3>1. b \in asked /\ thread[b] # "mark"
        BY <1>t, <2>1, <2>5 DEF WaitersAsked, GateInv, ReviewInv, BuildOK, Live
      <3>2. GateOf(b) = "ready" /\ GateOf(b)' = "released"
        BY <1>m, <1>1, <2>1, <2>3, <2>5, <3>1 DEF GateOf
      <3>3. /\ Gates[b] = "ready" /\ Gates' = [Gates EXCEPT ![b] = "released"]
            /\ WaitersAsked'
        BY <1>t, <1>1, <2>4, <3>1, <3>2, OneGateMoves DEF Gates
      <3>4. b \in Abstract!ReadyFor(i)
        BY <2>1, <3>3 DEF Abstract!ReadyFor, Gates
      <3>5. Abstract!Answer(i)
        BY <1>1, <3>3, <3>4 DEF Abstract!Answer, Gates
      <3> QED
        BY <3>3, <3>5 DEF GateStep, Abstract!Next, Abstract!Issues, Issues
    <2>6. CASE MixedUp(b)
      <3>1. SameGate(b)
        BY <1>m, <2>6 DEF SameGate
      <3>2. Gates' = Gates /\ WaitersAsked'
        BY <1>t, <2>4, <3>1, GatesKept
      <3>3. b \in Abstract!LooseOf(i)
        BY <2>1, <2>6 DEF Abstract!LooseOf, GateOf
      <3>4. Abstract!Answer(i)
        BY <1>1, <3>2, <3>3 DEF Abstract!Answer, Gates
      <3> QED
        BY <3>2, <3>4 DEF GateStep, Abstract!Next, Abstract!Issues, Issues
    <2> QED
      BY <2>5, <2>6
  <1>3. CASE WaitingFor(i) = {} /\ table' = table
    <2>1. \A c \in Builds : SameGate(c)
      BY <1>m, <1>1, <1>3, EntriesKept DEF SameGate
    <2>2. Gates' = Gates /\ WaitersAsked'
      BY <1>t, <2>1, GatesKept
    <2>3. \A b \in Builds : IssueOf[b] = i => ~ WaitsInTable(b)
      BY <1>3, NumbersOfBuilds, BuildNoneAssumption DEF WaitingFor, WaitsInTable, HasEntry, Active
    <2>4. Abstract!ReadyFor(i) = {}
      BY <2>3 DEF Abstract!ReadyFor, GateOf
    <2>5. Abstract!Answer(i)
      BY <1>1, <2>2, <2>4 DEF Abstract!Answer, Gates
    <2> QED
      BY <2>2, <2>5 DEF GateStep, Abstract!Next, Abstract!Issues, Issues
  <1> QED
    BY <1>1, <1>2, <1>3

\* The callback reports the build that an answer has released.
LEMMA CallbackReportAtGate ==
  ASSUME GateInv, ReviewReports
  PROVE  GateStep /\ WaitersAsked'
  <1>t. TypeOK /\ WaitersAsked
    BY DEF GateInv, ReviewInv, HeldInv, TableInv
  <1>1. /\ io \in Builds /\ Reports(io)
        /\ UNCHANGED <<thread, table, pending, asked, clashed>>
    BY <1>t DEF ReviewReports, TypeOK, reviews
  <1>2. \A c \in Builds : SameGate(c)
    BY <1>1, EntriesKept DEF SameGate, MixedUp
  <1>3. \/ GateOf(io) \in {"free", "released"} /\ reported[io] = 0
        \/ GateOf(io) = "loose" /\ reported[io] <= 1
    <2>1. CASE ~ MixedUp(io)
      <3>1. reported[io] = 0 /\ thread[io] = "ended" /\ ~ HasEntry(io)
        BY <1>1, <2>1 DEF GateInv, ReviewInv, BuildOK
      <3> QED
        BY <2>1, <3>1 DEF GateOf, WaitsInTable
    <2>2. CASE MixedUp(io)
      BY <1>1, <2>2 DEF GateInv, ReportsInv, ReportersOK, CallbackReports, GateOf
    <2> QED
      BY <2>1, <2>2
  <1> QED
    BY <1>t, <1>1, <1>2, <1>3, GatesKept, ReportAtGate

\* The repository watch may ask again; the rest of main does nothing at the gate.
LEMMA MainAtGate ==
  ASSUME GateInv,
         WatchPicks \/ WatchRequests \/ Signal \/ CutsClient \/ Exit \/ UNCHANGED vars
  PROVE  GateStep /\ WaitersAsked'
  <1>t. TypeOK /\ WaitersAsked
    BY DEF GateInv, ReviewInv, HeldInv, TableInv
  <1>1. UNCHANGED <<thread, table, asked, reported, clashed>>
    BY DEF WatchPicks, WatchRequests, Signal, CutsClient, Exit, vars, reviews
  <1>2. \A c \in Builds : SameGate(c)
    BY <1>1, EntriesKept DEF SameGate, MixedUp
  <1>3. Gates' = Gates /\ WaitersAsked'
    BY <1>t, <1>2, GatesKept
  <1>4. CASE pending' = pending
    BY <1>1, <1>3, <1>4, NothingAtGate
  <1>5. CASE WatchRequests /\ pending' # pending
    <2>1. monitor \in Issues /\ pending' = [pending EXCEPT ![monitor] = @ + 1]
      BY <1>t, <1>5 DEF WatchRequests, RequestsReview, TypeOK
    <2>2. Abstract!AskAgain(monitor)
      BY <1>1, <1>3, <2>1 DEF Abstract!AskAgain, Abstract!OneMorePending, Gates
    <2> QED
      BY <1>3, <2>1, <2>2 DEF GateStep, Abstract!Next, Abstract!Issues, Issues
  <1> QED
    BY <1>4, <1>5 DEF WatchPicks, Signal, CutsClient, Exit, vars, reviews

\* Every step of the Agent is a step at the gate, or none.
LEMMA StepAtGate ==
  ASSUME GateInv, [Next]_vars
  PROVE  GateStep /\ GateInv'
  <1>1. ReportsInv' /\ ReviewInv'
    BY StepReportsInv, StepReviewInv DEF GateInv
  <1>2. ASSUME NEW b \in Builds, TriggerFails(b) \/ Trigger(b) PROVE GateStep /\ WaitersAsked'
    BY <1>2, FailureAtGate, TriggerAtGate, MixUpAtGate
  <1>3. ASSUME NEW b \in Builds, PollStep(b) PROVE GateStep /\ WaitersAsked'
    BY <1>3, LoosePollAtGate, PollAtGate
  <1>4. ASSUME NEW i \in Issues, ReviewResult(i) PROVE GateStep /\ WaitersAsked'
    BY <1>4, AnswerAtGate
  <1>5. ASSUME ReviewReports PROVE GateStep /\ WaitersAsked'
    BY <1>5, CallbackReportAtGate
  <1>6. ASSUME WatchPicks \/ WatchRequests \/ Signal \/ CutsClient \/ Exit \/ UNCHANGED vars
        PROVE  GateStep /\ WaitersAsked'
    BY <1>6, MainAtGate
  <1>7. GateStep /\ WaitersAsked'
    BY <1>2, <1>3, <1>4, <1>5, <1>6 DEF Next
  <1> QED
    BY <1>1, <1>7 DEF GateInv

\* The Agent implements the review gate: for any number of builds and issues, and
\* however polls, answers, lost requests, requests of the repository watch and the
\* shutdown interleave, a build that asked is held until an answer lets it go, an
\* answer lets go one build that is ready, and no build is reported twice; what is
\* excepted begins when one build takes over the entry of another of its number,
\* and concerns that number only (agent_main.cpp:182-311, 344-378, 494).
THEOREM AgentImplementsReviewGate == Spec => ImplementsReviewGate
  <1>1. ASSUME Init PROVE GateInv /\ Abstract!Init
    <2>1. ReportsInv /\ ReviewInv
      BY <1>1, InitReportsInv, InitReviewInv
    <2>2. asked = {} /\ clashed = {} /\ \A b \in Builds : thread[b] # "mark"
      BY <1>1 DEF Init
    <2>3. \A b \in Builds : ~ WaitsInTable(b)
      BY <1>1, NoBuildType, NumbersOfBuilds, BuildNoneAssumption DEF Init, HasEntry, WaitsInTable
    <2>4. Abstract!Init
      BY <1>1, <2>2 DEF Init, Abstract!Init, GateOf, MixedUp, Issues, Abstract!Issues
    <2> QED
      BY <2>1, <2>2, <2>3, <2>4 DEF GateInv, WaitersAsked
  <1>2. GateInv /\ [Next]_vars => GateInv' /\ [Abstract!Next]_(Abstract!vars)
    BY StepAtGate DEF GateStep
  <1>3. Spec => Abstract!Spec
    BY <1>1, <1>2, PTL DEF Spec, Abstract!Spec
  <1> QED
    BY <1>3 DEF ImplementsReviewGate
=============================================================================
