--------------------------- MODULE PlatformProofs ---------------------------
(***************************************************************************)
(* Proofs about the components around the agents (MCPlatform), for any     *)
(* numbers of requests and rows: the plans of the scheduler, the payments  *)
(* for a plan, how a person joins, and a system's manager; and, with the   *)
(* theorems of CrawlsProofs, what a crawl accounts for.                    *)
(***************************************************************************)
EXTENDS MCPlatform, CrawlsProofs, WellFoundedInduction

\* A dispatch in progress has dispatched no more than its list.
AttemptInv == attempt # None => attempt.done <= Len(attempt.list)

\* The invariant of the dispatches.
FanInv ==
    /\ fails \in Nat /\ attempts \in Nat
    /\ planRuns \in [FanScripts -> Nat] /\ owed \in [FanScripts -> Nat]
    /\ partial \in [FanScripts -> Nat]
    /\ attempt \in Attempt \cup {None}
    /\ AttemptInv
    /\ FanOutAccounted

\* No run is owed and none committed at first.
LEMMA FanInit == PlanInit => FanInv
BY DEF PlanInit, FanInv, AttemptInv, FanOutAccounted

\* How often a script is in the first entries of a list is a number, and grows with them.
LEMMA TimesFacts ==
    ASSUME NEW s, NEW list, NEW n \in Nat, NEW m \in Nat, m <= n
    PROVE  Times(s, list, m) \in Nat /\ Times(s, list, n) \in Nat
           /\ Times(s, list, m) <= Times(s, list, n)
<1> DEFINE Places(k) == {a \in 1 .. k : list[a] = s}
<1>1. \A k \in Nat : IsFiniteSet(Places(k))
  <2> SUFFICES ASSUME NEW k \in Nat PROVE IsFiniteSet(Places(k))
    OBVIOUS
  <2>1. IsFiniteSet(1 .. k)
    BY FS_Interval
  <2> QED BY <2>1, FS_Subset
<1>2. Places(m) \subseteq Places(n)
  OBVIOUS
<1>3. Cardinality(Places(m)) \in Nat /\ Cardinality(Places(n)) \in Nat
  BY <1>1, FS_CardinalityType
<1>4. Cardinality(Places(m)) <= Cardinality(Places(n))
  BY <1>1, <1>2, FS_Subset
<1> QED BY <1>3, <1>4 DEF Times

\* The entries a dispatch has done are some of its list.
LEMMA DoneFacts ==
    ASSUME FanInv, attempt # None, NEW s \in FanScripts
    PROVE  /\ Times(s, attempt.list, attempt.done) \in Nat
           /\ Times(s, attempt.list, Len(attempt.list)) \in Nat
           /\ Times(s, attempt.list, attempt.done) <= Times(s, attempt.list, Len(attempt.list))
<1>1. /\ attempt.done \in Nat /\ Len(attempt.list) \in Nat
      /\ attempt.done <= Len(attempt.list)
  BY DEF FanInv, AttemptInv, Attempt
<1> QED BY <1>1, TimesFacts

\* A dispatch that counts as a success leaves one run per entry of its list.
LEMMA SuccessKeeps ==
    ASSUME FanInv, DispatchSucceeds
    PROVE  FanInv'
<1> DEFINE Done(s) == Times(s, attempt.list, attempt.done)
<1>1. /\ attempt # None /\ attempt.done = Len(attempt.list) /\ attempt' = None
      /\ planRuns' = [s \in FanScripts |-> planRuns[s] + Done(s)]
      /\ UNCHANGED <<partial, fails, attempts>>
  BY DEF DispatchSucceeds, AllDone, KeepRuns
<1>2. owed' = [s \in FanScripts |-> owed[s] + Done(s)]
  BY <1>1 DEF DispatchSucceeds
<1>3. \A s \in FanScripts : Done(s) \in Nat
  BY <1>1, DoneFacts
<1> HIDE DEF Done
<1>4. planRuns' \in [FanScripts -> Nat] /\ owed' \in [FanScripts -> Nat]
  BY <1>1, <1>2, <1>3 DEF FanInv
<1>5. FanOutAccounted'
  <2> SUFFICES ASSUME NEW s \in FanScripts
               PROVE  planRuns'[s] \in owed'[s] .. owed'[s] + partial'[s]
    BY DEF FanOutAccounted
  <2>1. planRuns[s] \in owed[s] .. owed[s] + partial[s] /\ planRuns[s] \in Nat
        /\ owed[s] \in Nat /\ partial[s] \in Nat
    BY DEF FanInv, FanOutAccounted
  <2> QED BY <1>1, <1>2, <1>3, <2>1
<1> QED BY <1>1, <1>4, <1>5 DEF FanInv, AttemptInv

\* A dispatch that fails leaves at most one run per entry, which its listing allows.
LEMMA FailureKeeps ==
    ASSUME FanInv, DispatchFails
    PROVE  FanInv'
<1> DEFINE Done(s) == Times(s, attempt.list, attempt.done)
           All(s) == Times(s, attempt.list, Len(attempt.list))
<1>1. /\ attempt # None /\ attempt' = None /\ fails' = fails + 1
      /\ planRuns' = [s \in FanScripts |-> planRuns[s] + Done(s)]
      /\ partial' = [s \in FanScripts |-> partial[s] + All(s)]
      /\ UNCHANGED <<owed, attempts>>
  BY DEF DispatchFails, KeepRuns
<1>2. \A s \in FanScripts : Done(s) \in Nat /\ All(s) \in Nat /\ Done(s) <= All(s)
  BY <1>1, DoneFacts
<1> HIDE DEF Done, All
<1>3. /\ planRuns' \in [FanScripts -> Nat] /\ partial' \in [FanScripts -> Nat]
      /\ fails' \in Nat
  BY <1>1, <1>2 DEF FanInv
<1>4. FanOutAccounted'
  <2> SUFFICES ASSUME NEW s \in FanScripts
               PROVE  planRuns'[s] \in owed'[s] .. owed'[s] + partial'[s]
    BY DEF FanOutAccounted
  <2>1. planRuns[s] \in owed[s] .. owed[s] + partial[s] /\ planRuns[s] \in Nat
        /\ owed[s] \in Nat /\ partial[s] \in Nat
    BY DEF FanInv, FanOutAccounted
  <2> QED BY <1>1, <1>2, <2>1
<1> QED BY <1>1, <1>3, <1>4 DEF FanInv, AttemptInv

\* The lists a job_config resolves to are lists of ids, and of what is none.
LEMMA ResolvedLists ==
    ASSUME NEW config \in FanConfigs, NEW l \in Resolved(config)
    PROVE  l \in Seq(Entries)
<1>1. config \in FanConfig
  BY PlanAssumption
<1>2. config.script_ids \in Seq(Entries) /\ <<config.script_id>> \in Seq(Entries)
  BY <1>1 DEF FanConfig
<1>3. ApprovedNotRecentlyRun \subseteq Seq(Entries)
  <2> SUFFICES ASSUME NEW k \in ApprovedNotRecentlyRun PROVE k \in Seq(Entries)
    OBVIOUS
  <2>1. PICK n \in 0 .. Cardinality(FanScripts) : k \in [1 .. n -> FanScripts]
    BY DEF ApprovedNotRecentlyRun
  <2>2. n \in Nat /\ k \in [1 .. n -> Entries]
    BY <2>1 DEF Entries
  <2> QED BY <2>2
<1> QED BY <1>2, <1>3 DEF Resolved

\* Every step keeps the invariant.
LEMMA FanStep == FanInv /\ [PlanNext]_planVars => FanInv'
<1> SUFFICES ASSUME FanInv, [PlanNext]_planVars
             PROVE  FanInv'
  OBVIOUS
<1>1. CASE UNCHANGED fanVars
  BY <1>1 DEF fanVars, FanInv, AttemptInv, FanOutAccounted
<1>2. CASE BeginDispatch
  <2>0. PICK by \in {"pass", "api"}, config \in FanConfigs :
          \E l \in Resolved(config) : attempt' = [by |-> by, list |-> l, done |-> 0]
    BY <1>2 DEF BeginDispatch
  <2>1. PICK l \in Resolved(config) : attempt' = [by |-> by, list |-> l, done |-> 0]
    BY <2>0
  <2>2. l \in Seq(Entries)
    BY ResolvedLists
  <2>3. attempt' \in Attempt /\ attempt'.done <= Len(attempt'.list)
    BY <2>1, <2>2 DEF Attempt
  <2>4. attempts' \in Nat /\ UNCHANGED <<fails, planRuns, owed, partial>>
    BY <1>2 DEF BeginDispatch, FanInv
  <2> QED BY <2>3, <2>4 DEF FanInv, AttemptInv, FanOutAccounted
<1>3. CASE DispatchScript
  <2>1. /\ attempt # None /\ attempt.done < Len(attempt.list)
        /\ attempt' = [attempt EXCEPT !.done = attempt.done + 1]
        /\ UNCHANGED <<attempts, fails, planRuns, owed, partial>>
    BY <1>3 DEF DispatchScript
  <2>2. attempt \in Attempt
    BY <2>1 DEF FanInv
  <2>3. attempt' \in Attempt /\ attempt'.done <= Len(attempt'.list)
    BY <2>1, <2>2 DEF Attempt
  <2> QED BY <2>1, <2>3 DEF FanInv, AttemptInv, FanOutAccounted
<1>4. CASE DispatchRollsBack
  BY <1>4 DEF DispatchRollsBack, FanInv, AttemptInv, FanOutAccounted
<1>6. ASSUME NEW q \in PlanRequests,
             CreatePlan(q) \/ SetPlanActive(q) \/ CommitPlan(q) \/ RollbackPlan(q)
      PROVE  UNCHANGED fanVars
  BY <1>6 DEF CreatePlan, SetPlanActive, CommitPlan, RollbackPlan, PlanRequest
<1>7. CASE UNCHANGED planVars
  BY <1>1, <1>7 DEF planVars, fanVars
<1> QED BY <1>1, <1>2, <1>3, <1>4, <1>6, <1>7, SuccessKeeps, FailureKeeps DEF PlanNext

\* Every dispatch that counts as a success has a run for each entry of its list, and one
\* that failed at most that many (_dispatch_for_type, evaluate_schedules), for any
\* job_configs and any lists of approved scripts.
THEOREM FanOutIsAccounted == PlanSpec => []FanOutAccounted
<1>1. FanInv => FanOutAccounted
  BY DEF FanInv
<1> QED BY <1>1, FanInit, FanStep, PTL DEF PlanSpec


-----------------------------------------------------------------------------
\* A request that creates a job has counted fewer active jobs than the limit.
CountedInv ==
    \A q \in PlanRequests : pReq[q] # None /\ pReq[q].creates => pReq[q].counted < PlanLimit

\* The invariant of the active jobs.
LimitInv ==
    /\ created \subseteq Plans /\ activePlans \subseteq created /\ excused \subseteq Plans
    /\ pReq \in [PlanRequests -> PlanSession \cup {None}] /\ pRequests \in Nat
    /\ CountedInv
    /\ ActiveJobsLimited

\* The jobs are finitely many, so are the active ones, and those that got round the count.
LEMMA ActiveFinite ==
    ASSUME LimitInv
    PROVE  /\ IsFiniteSet(activePlans) /\ Cardinality(activePlans) \in Nat
           /\ IsFiniteSet(excused \cap activePlans)
           /\ Cardinality(excused \cap activePlans) \in Nat
           /\ PlanLimit \in Nat
<1>1. activePlans \subseteq Plans /\ excused \cap activePlans \subseteq activePlans
  BY DEF LimitInv
<1>2. IsFiniteSet(activePlans)
  BY <1>1, PlanAssumption, FS_Subset
<1>3. IsFiniteSet(excused \cap activePlans)
  BY <1>1, <1>2, FS_Subset
<1> QED BY <1>2, <1>3, PlanAssumption, FS_CardinalityType

\* A job switched off, whether it got round the count or not, leaves the rest within it.
LEMMA SwitchedOff ==
    ASSUME LimitInv, NEW p, activePlans' = activePlans \ {p}, excused' = excused
    PROVE  ActiveJobsLimited'
<1>1. Cardinality(activePlans') = IF p \in activePlans THEN Cardinality(activePlans) - 1
                                                       ELSE Cardinality(activePlans)
  BY ActiveFinite, FS_RemoveElement
<1>2. excused' \cap activePlans' = (excused \cap activePlans) \ {p}
  OBVIOUS
<1>3. Cardinality(excused' \cap activePlans') =
        IF p \in excused \cap activePlans THEN Cardinality(excused \cap activePlans) - 1
                                          ELSE Cardinality(excused \cap activePlans)
  <2> DEFINE E == excused \cap activePlans
  <2>1. IsFiniteSet(E)
    BY ActiveFinite
  <2> HIDE DEF E
  <2>2. Cardinality(E \ {p}) = IF p \in E THEN Cardinality(E) - 1 ELSE Cardinality(E)
    BY <2>1, FS_RemoveElement
  <2> QED BY <1>2, <2>2 DEF E
<1> QED BY <1>1, <1>3, ActiveFinite DEF LimitInv, ActiveJobsLimited

\* A job switched on by a request that got round the count is one more on both sides.
LEMMA SwitchedOnExcused ==
    ASSUME LimitInv, NEW p, activePlans' = activePlans \cup {p}, excused' = excused \cup {p}
    PROVE  ActiveJobsLimited'
<1>1. Cardinality(activePlans') = IF p \in activePlans THEN Cardinality(activePlans)
                                                       ELSE Cardinality(activePlans) + 1
  BY ActiveFinite, FS_AddElement
<1>2. excused' \cap activePlans' = (excused \cap activePlans) \cup {p}
  OBVIOUS
<1>3. Cardinality(excused' \cap activePlans') =
        IF p \in excused \cap activePlans THEN Cardinality(excused \cap activePlans)
                                          ELSE Cardinality(excused \cap activePlans) + 1
  BY <1>2, ActiveFinite, FS_AddElement
<1> QED BY <1>1, <1>3, ActiveFinite DEF LimitInv, ActiveJobsLimited

\* One switched on by a request that counted all the active jobs is within the limit.
LEMMA SwitchedOnCounted ==
    ASSUME LimitInv, NEW p, activePlans' = activePlans \cup {p}, excused' = excused,
           Cardinality(activePlans) < PlanLimit
    PROVE  ActiveJobsLimited'
<1>1. Cardinality(activePlans') \in Nat /\ Cardinality(activePlans') <= PlanLimit
  BY ActiveFinite, FS_AddElement
<1>2. IsFiniteSet(activePlans')
  BY ActiveFinite, FS_AddElement
<1>3. IsFiniteSet(excused' \cap activePlans')
  BY <1>2, FS_Subset
<1>4. Cardinality(excused' \cap activePlans') \in Nat
  BY <1>3, FS_CardinalityType
<1> QED BY <1>1, <1>4, ActiveFinite DEF ActiveJobsLimited

\* The commit of a request keeps the limit, whatever it read.
LEMMA CommitKeepsLimit ==
    ASSUME LimitInv, NEW q \in PlanRequests, CommitPlan(q)
    PROVE  LimitInv'
<1> DEFINE s == pReq[q]
           around == ~s.creates \/ Cardinality(activePlans) > s.counted
<1>1. s \in PlanSession /\ (s.creates => s.counted < PlanLimit)
  BY DEF CommitPlan, LimitInv, CountedInv
<1>2. /\ created' = created \cup {s.plan}
      /\ activePlans' = IF s.activate THEN activePlans \cup {s.plan} ELSE activePlans \ {s.plan}
      /\ excused' = IF s.activate /\ around THEN excused \cup {s.plan} ELSE excused
      /\ pReq' = [pReq EXCEPT ![q] = None] /\ pRequests' = pRequests
  BY DEF CommitPlan
<1>3. ActiveJobsLimited'
  <2>1. CASE ~s.activate
    BY <1>2, <2>1, SwitchedOff
  <2>2. CASE s.activate /\ around
    BY <1>2, <2>2, SwitchedOnExcused
  <2>3. CASE s.activate /\ ~around
    <3>1. Cardinality(activePlans) < PlanLimit
      BY <1>1, <2>3, ActiveFinite DEF PlanSession
    <3> QED BY <1>2, <2>3, <3>1, SwitchedOnCounted
  <2> QED BY <2>1, <2>2, <2>3
<1>4. created' \subseteq Plans /\ activePlans' \subseteq created' /\ excused' \subseteq Plans
  BY <1>1, <1>2 DEF LimitInv, PlanSession
<1>5. pReq' \in [PlanRequests -> PlanSession \cup {None}] /\ pRequests' \in Nat /\ CountedInv'
  BY <1>2 DEF LimitInv, CountedInv
<1> QED BY <1>3, <1>4, <1>5 DEF LimitInv

\* A request that begins has counted, and a create only begins below the limit.
LEMMA RequestKeepsLimit ==
    ASSUME LimitInv, NEW q \in PlanRequests, NEW p \in Plans, NEW on \in BOOLEAN,
           NEW creates \in BOOLEAN, creates => Cardinality(activePlans) < PlanLimit,
           PlanRequest(q, p, on, creates)
    PROVE  LimitInv'
<1> DEFINE s == [plan |-> p, activate |-> on, creates |-> creates,
                 counted |-> Cardinality(activePlans)]
<1>1. s \in PlanSession /\ (s.creates => s.counted < PlanLimit)
  BY ActiveFinite DEF PlanSession
<1>2. pReq' = [pReq EXCEPT ![q] = s] /\ pRequests' = pRequests + 1
      /\ UNCHANGED <<created, activePlans, excused>>
  BY DEF PlanRequest
<1> HIDE DEF s
<1>3. pReq' \in [PlanRequests -> PlanSession \cup {None}] /\ CountedInv'
  BY <1>1, <1>2 DEF LimitInv, CountedInv
<1> QED BY <1>2, <1>3 DEF LimitInv, ActiveJobsLimited

\* No job is there at first.
LEMMA LimitInit == PlanInit => LimitInv
<1> SUFFICES ASSUME PlanInit
             PROVE  LimitInv
  OBVIOUS
<1>1. activePlans = {} /\ excused = {} /\ Cardinality({}) = 0 /\ excused \cap activePlans = {}
  BY FS_EmptySet DEF PlanInit
<1>2. ActiveJobsLimited
  BY <1>1, PlanAssumption DEF ActiveJobsLimited
<1> QED BY <1>1, <1>2 DEF PlanInit, LimitInv, CountedInv

\* Every step keeps the limit.
LEMMA LimitStep == LimitInv /\ [PlanNext]_planVars => LimitInv'
<1> SUFFICES ASSUME LimitInv, [PlanNext]_planVars
             PROVE  LimitInv'
  OBVIOUS
<1>1. CASE UNCHANGED <<limitVars, activePlans>>
  BY <1>1 DEF limitVars, LimitInv, CountedInv, ActiveJobsLimited
<1>2. ASSUME NEW q \in PlanRequests, CreatePlan(q)
      PROVE  LimitInv'
  BY <1>2, RequestKeepsLimit DEF CreatePlan, Room
<1>3. ASSUME NEW q \in PlanRequests, SetPlanActive(q)
      PROVE  LimitInv'
  <2>1. PICK p \in created, on \in BOOLEAN : PlanRequest(q, p, on, FALSE)
    BY <1>3 DEF SetPlanActive
  <2>2. p \in Plans
    BY DEF LimitInv
  <2> QED BY <2>1, <2>2, RequestKeepsLimit
<1>4. ASSUME NEW q \in PlanRequests, RollbackPlan(q)
      PROVE  LimitInv'
  BY <1>4 DEF RollbackPlan, LimitInv, CountedInv, ActiveJobsLimited
<1>5. CASE DispatchFails
  <2>1. UNCHANGED limitVars
        /\ activePlans' \in {activePlans, activePlans \ {FanJob}}
    BY <1>5 DEF DispatchFails
  <2>2. CASE activePlans' = activePlans
    BY <1>1, <2>1, <2>2
  <2>3. CASE activePlans' = activePlans \ {FanJob}
    <3>1. ActiveJobsLimited'
      BY <2>1, <2>3, SwitchedOff DEF limitVars
    <3> QED BY <2>1, <2>3, <3>1 DEF limitVars, LimitInv, CountedInv
  <2> QED BY <2>1, <2>2, <2>3
<1>6. CASE BeginDispatch \/ DispatchScript \/ DispatchSucceeds \/ DispatchRollsBack
  BY <1>1, <1>6 DEF BeginDispatch, DispatchScript, DispatchSucceeds, DispatchRollsBack
<1>7. CASE UNCHANGED planVars
  BY <1>1, <1>7 DEF planVars, limitVars
<1> QED BY <1>2, <1>3, <1>4, <1>5, <1>6, <1>7, CommitKeepsLimit DEF PlanNext

\* A system has no more active jobs than the limit and those a PATCH switched on or that
\* were created while others were (_check_active_job_limit counts before the insert).
THEOREM ActiveJobsAreLimited == PlanSpec => []ActiveJobsLimited
<1>1. LimitInv => ActiveJobsLimited
  BY DEF LimitInv
<1> QED BY <1>1, LimitInit, LimitStep, PTL DEF PlanSpec

\* The jobs of a system, their requests and dispatches keep their types.
THEOREM PlanTypes == PlanSpec => []PlanTypeOK
<1>1. FanInv /\ LimitInv => PlanTypeOK
  BY DEF FanInv, LimitInv, PlanTypeOK
<1> QED BY <1>1, FanInit, FanStep, LimitInit, LimitStep, PTL DEF PlanSpec

-----------------------------------------------------------------------------
(* The payments for a plan.                                                *)

\* A session that will write a paid tier is of a paid checkout, and if the company was
\* in that tier when it read the plan, the payment has had its effect already.
BillSessionInv(q) ==
    bReq[q] # None /\ bReq[q].of # None =>
        /\ bReq[q].of \in paid /\ bReq[q].new = TierPaid(bReq[q].of)
        /\ bReq[q].new = bReq[q].read => bReq[q].of \in had

\* The invariant: paid checkouts exist, at the price of their tier; a payment for the
\* tier the company is in has had its effect; and the tier has been paid for or set.
BillInv ==
    /\ BillTypeOK
    /\ \A q \in BillRequests : BillSessionInv(q)
    /\ \A c \in paid : checkout[c] # None
    /\ \A c \in Checkouts : checkout[c] # None => checkout[c].price = Price(checkout[c].plan_tier)
    /\ \A c \in paid : PaysFor(c, tier) => c \in had
    /\ PaymentHonoured
    /\ tier \in {None} \cup given \cup {TierPaid(c) : c \in paid}

\* A checkout that is created has the price of its tier, and is nobody's yet.
LEMMA CheckoutKeeps ==
    ASSUME BillInv, NEW c \in Checkouts, CreateCheckout(c)
    PROVE  BillInv'
<1>1. PICK asked \in AskedTiers :
        checkout' = [checkout EXCEPT ![c] = [plan_tier |-> asked, price |-> Price(asked)]]
  BY DEF CreateCheckout
<1>2. checkout[c] = None /\ UNCHANGED <<tier, paid, answered, bReq, bills, given, had, failed>>
  BY DEF CreateCheckout
<1>3. \A d \in Checkouts \ {c} : checkout'[d] = checkout[d]
  BY <1>1 DEF BillInv, BillTypeOK
<1>4. checkout'[c] = [plan_tier |-> asked, price |-> Price(asked)]
  BY <1>1 DEF BillInv, BillTypeOK
<1>5. c \notin paid /\ paid \subseteq Checkouts
  BY <1>2 DEF BillInv, BillTypeOK
<1>6. BillTypeOK'
  BY <1>1, <1>2 DEF BillInv, BillTypeOK, Price
<1>7. \A d \in paid : TierPaid(d)' = TierPaid(d)
  BY <1>3, <1>5 DEF TierPaid
<1>8. \A q \in BillRequests : BillSessionInv(q)'
  BY <1>2, <1>7 DEF BillInv, BillSessionInv
<1>9. PaymentHonoured'
  BY <1>2, <1>7 DEF BillInv, BillTypeOK, PaymentHonoured
<1>10. tier' \in {None} \cup given' \cup {TierPaid(d)' : d \in paid'}
  BY <1>2, <1>7 DEF BillInv
<1>11. \A d \in Checkouts : checkout'[d] # None => checkout'[d].price = Price(checkout'[d].plan_tier)
  BY <1>3, <1>4 DEF BillInv
<1>12. \A d \in paid' : PaysFor(d, tier)' => d \in had'
  BY <1>2, <1>3, <1>5 DEF BillInv, PaysFor
<1> QED BY <1>2, <1>3, <1>5, <1>6, <1>8, <1>9, <1>10, <1>11, <1>12 DEF BillInv

\* A payment for the tier the company is in has had its effect.
LEMMA PayKeeps ==
    ASSUME BillInv, NEW c \in Checkouts, Pay(c)
    PROVE  BillInv'
<1>1. /\ checkout[c] # None /\ c \notin paid /\ paid' = paid \cup {c}
      /\ had' = IF PaysFor(c, tier) THEN had \cup {c} ELSE had
      /\ UNCHANGED <<tier, checkout, answered, bReq, bills, given, failed>>
  BY DEF Pay
<1>2. BillTypeOK'
  BY <1>1 DEF BillInv, BillTypeOK
<1>3. \A q \in BillRequests : BillSessionInv(q)'
  BY <1>1 DEF BillInv, BillSessionInv, TierPaid
<1>4. \A d \in paid' : PaysFor(d, tier)' => d \in had'
  BY <1>1 DEF BillInv, PaysFor
<1>5. PaymentHonoured'
  BY <1>1 DEF BillInv, PaymentHonoured, TierPaid
<1>6. tier' \in {None} \cup given' \cup {TierPaid(d)' : d \in paid'}
  BY <1>1 DEF BillInv, TierPaid
<1> QED BY <1>1, <1>2, <1>3, <1>4, <1>5, <1>6 DEF BillInv

\* A request that begins: an event is of a paid checkout.
LEMMA BillBeginsKeeps ==
    ASSUME BillInv, NEW q \in BillRequests, NEW of \in Checkouts \cup {None}, NEW new \in PlanTiers,
           BillBegins(q, of, new), of # None => of \in paid /\ new = TierPaid(of)
    PROVE  BillInv'
<1>1. /\ bReq' = [bReq EXCEPT ![q] = [of |-> of, read |-> tier, new |-> new]]
      /\ bills < MaxBills /\ bills' = bills + 1
      /\ UNCHANGED <<tier, checkout, paid, answered, given, had, failed>>
  BY DEF BillBegins
<1>2. BillTypeOK'
  BY <1>1, BillAssumption DEF BillInv, BillTypeOK, BillSession
<1>3. BillSessionInv(q)'
  <2>1. bReq'[q] = [of |-> of, read |-> tier, new |-> new]
    BY <1>1 DEF BillInv, BillTypeOK
  <2>2. of # None /\ new = tier => of \in had
    BY DEF BillInv, PaysFor, TierPaid
  <2> QED BY <1>1, <2>1, <2>2 DEF BillSessionInv, TierPaid
<1>4. \A p \in BillRequests \ {q} : BillSessionInv(p)'
  BY <1>1 DEF BillInv, BillTypeOK, BillSessionInv, TierPaid
<1> QED BY <1>1, <1>2, <1>3, <1>4 DEF BillInv, PaysFor, PaymentHonoured, TierPaid

\* A commit: whichever way the tier goes, the payment it is of has had its effect.
LEMMA CommitBillKeeps ==
    ASSUME BillInv, NEW q \in BillRequests, CommitBill(q)
    PROVE  BillInv'
<1> DEFINE s == bReq[q]
<1>1. /\ s # None /\ tier' = TierLeft(s) /\ had' = had \cup {c \in paid : PaysFor(c, tier')}
      /\ given' = IF s.of = None THEN given \cup {s.new} ELSE given
      /\ answered' \in {answered, answered \cup EventOf(s)}
      /\ bReq' = [bReq EXCEPT ![q] = None]
      /\ UNCHANGED <<checkout, paid, bills, failed>>
  BY DEF CommitBill
<1>2. s \in BillSession /\ BillSessionInv(q)
  BY <1>1 DEF BillInv, BillTypeOK
<1>3. EventOf(s) \subseteq paid
  BY <1>1, <1>2 DEF BillSessionInv, EventOf
<1>4. BillTypeOK'
  BY <1>1, <1>2, <1>3 DEF BillInv, BillTypeOK, BillSession, TierLeft
<1>5. \A p \in BillRequests : BillSessionInv(p)'
  BY <1>1 DEF BillInv, BillTypeOK, BillSessionInv, TierPaid
<1>6. \A c \in paid' : PaysFor(c, tier)' => c \in had'
  BY <1>1 DEF PaysFor
<1>7. \A c \in EventOf(s) : c \in had'
  BY <1>1, <1>2 DEF BillSessionInv, EventOf, TierLeft, TierPaid, PaysFor
<1>8. PaymentHonoured'
  BY <1>1, <1>7 DEF BillInv, PaymentHonoured, TierPaid
<1>9. tier' \in {None} \cup given' \cup {TierPaid(c)' : c \in paid'}
  <2>1. CASE s.new = s.read
    BY <1>1, <2>1 DEF BillInv, TierLeft, TierPaid
  <2>2. CASE s.new # s.read
    BY <1>1, <1>2, <2>2 DEF BillSessionInv, TierLeft, TierPaid
  <2> QED BY <2>1, <2>2
<1> QED BY <1>1, <1>4, <1>5, <1>6, <1>8, <1>9 DEF BillInv

\* A transaction that fails or dies.
LEMMA LostBillKeeps ==
    ASSUME BillInv, NEW q \in BillRequests, FailBill(q) \/ CrashBill(q)
    PROVE  BillInv'
<1>1. /\ bReq[q] # None /\ bReq' = [bReq EXCEPT ![q] = None]
      /\ UNCHANGED <<tier, checkout, paid, bills, given, had>>
      /\ \/ answered' = answered \cup EventOf(bReq[q]) /\ failed' = failed \cup EventOf(bReq[q])
         \/ UNCHANGED <<answered, failed>>
  BY DEF FailBill, CrashBill
<1>2. EventOf(bReq[q]) \subseteq paid
  BY <1>1 DEF BillInv, BillSessionInv, EventOf
<1>3. BillTypeOK'
  BY <1>1, <1>2 DEF BillInv, BillTypeOK
<1>4. \A p \in BillRequests : BillSessionInv(p)'
  BY <1>1 DEF BillInv, BillTypeOK, BillSessionInv, TierPaid
<1>5. PaymentHonoured'
  BY <1>1 DEF BillInv, PaymentHonoured, TierPaid
<1> QED BY <1>1, <1>3, <1>4, <1>5 DEF BillInv, PaysFor, TierPaid

\* Every step keeps the invariant.
LEMMA BillStep == BillInv /\ [BillNext]_billVars => BillInv'
<1> SUFFICES ASSUME BillInv, [BillNext]_billVars PROVE BillInv'
  OBVIOUS
<1>1. ASSUME NEW q \in BillRequests, NEW c \in Checkouts, Receive(q, c) PROVE BillInv'
  BY <1>1, BillBeginsKeeps DEF Receive
<1>2. ASSUME NEW q \in BillRequests, SetPlan(q) PROVE BillInv'
  BY <1>2, BillBeginsKeeps DEF SetPlan
<1>3. ASSUME NEW c \in Checkouts, ReceiveUnknown(c) PROVE BillInv'
  <2>1. /\ c \in paid /\ TierPaid(c) \notin PlanTiers /\ answered' = answered \cup {c}
        /\ UNCHANGED <<tier, checkout, paid, bReq, bills, given, had, failed>>
    BY <1>3 DEF ReceiveUnknown
  <2>2. PaymentHonoured'
    BY <2>1 DEF BillInv, PaymentHonoured, TierPaid
  <2> QED BY <2>1, <2>2 DEF BillInv, BillTypeOK, BillSessionInv, PaysFor, TierPaid
<1>4. CASE UNCHANGED billVars
  BY <1>4 DEF billVars, BillInv, BillTypeOK, BillSessionInv, PaymentHonoured, PaysFor, TierPaid
<1> QED BY <1>1, <1>2, <1>3, <1>4, CheckoutKeeps, PayKeeps, CommitBillKeeps, LostBillKeeps
        DEF BillNext

\* Nobody has paid at first.
LEMMA BillStarts == BillInit => BillInv
BY BillAssumption DEF BillInit, BillInv, BillTypeOK, BillSessionInv, PaymentHonoured

\* A payment Stripe will not tell of again has had its effect, and the company is in no
\* tier that nobody paid for or set, for any number of checkouts and requests and any
\* order and repetition of Stripe's events (stripe_webhook, upsert_plan).
THEOREM BillingAlwaysAgrees == BillSpec => []BillingAgrees
<1>1. ASSUME BillInv PROVE BillingAgrees
  <2>1. PaymentHonoured /\ tier \in {None} \cup given \cup {TierPaid(c) : c \in paid}
    BY <1>1 DEF BillInv
  <2>2. ASSUME tier = "enterprise", tier \notin given
        PROVE  \E c \in paid : checkout[c].price = "enterprise"
    <3>1. tier # None
      BY <2>2, TierAssumption DEF AskedTiers, PlanTiers
    <3>2. PICK c \in paid : tier = TierPaid(c)
      BY <2>1, <2>2, <3>1
    <3> QED BY <1>1, <2>2, <3>2 DEF BillInv, BillTypeOK, TierPaid, Price
  <2> QED BY <2>1, <2>2 DEF BillingAgrees, TierPaidFor
<1> QED BY <1>1, BillStarts, BillStep, PTL DEF BillSpec

-----------------------------------------------------------------------------
(* A system's manager.                                                     *)

\* A request nothing has overlapped has read what is committed; an assign_manager deletes
\* the rows of the manager it read and adds one where the new manager has none.
SystemSessionInv(q) ==
    yReq[q] # None =>
        /\ yReq[q].alone => yReq[q].read = sys /\ yReq[q].held = holds
        /\ yReq[q].assigns =>
            LET u == yReq[q].new.manager IN
            /\ yReq[q].loser = yReq[q].read.manager
            /\ yReq[q].rows = IF yReq[q].read.manager = u THEN 0
                               ELSE yReq[q].held[yReq[q].read.manager]
            /\ yReq[q].gains = IF yReq[q].held[u] = 0 THEN {u} ELSE {}

SystemInv ==
    SystemTypeOK /\ ManagerHoldsRole /\ \A q \in SystemRequests : SystemSessionInv(q)

\* A row merged is a row; a session that read the committed row leaves its own.
LEMMA MergedSystem ==
    ASSUME NEW base \in System, NEW read \in System, NEW new \in System
    PROVE  /\ Merge(base, read, new) \in System
           /\ base = read => Merge(base, read, new).manager = new.manager
BY DEF Merge, System

\* Requests that begin.
LEMMA SystemRequestKeeps ==
    ASSUME SystemInv, NEW q \in SystemRequests, NEW session \in SystemSession,
           SystemRequest(q, session), session.read = sys, session.held = holds,
           session.assigns =>
               LET u == session.new.manager IN
               /\ session.loser = sys.manager /\ session.rows = RevokedFor(u)
               /\ session.gains = IF holds[u] = 0 THEN {u} ELSE {}
    PROVE  SystemInv'
<1>1. /\ yEdits < MaxSystemEdits /\ yEdits' = yEdits + 1
      /\ yReq' = [yReq EXCEPT ![q] = session] /\ UNCHANGED <<sys, holds, active, arranged>>
  BY DEF SystemRequest
<1>2. SystemTypeOK'
  BY <1>1, SystemAssumption DEF SystemInv, SystemTypeOK
<1>3. SystemSessionInv(q)'
  <2>1. yReq'[q] = session
    BY <1>1 DEF SystemInv, SystemTypeOK
  <2> QED BY <1>1, <2>1 DEF SystemSessionInv, RevokedFor
<1>4. \A p \in SystemRequests \ {q} : SystemSessionInv(p)'
  BY <1>1 DEF SystemInv, SystemTypeOK, SystemSessionInv
<1> QED BY <1>1, <1>2, <1>3, <1>4 DEF SystemInv, ManagerHoldsRole

\* Each of the requests is such a request.
LEMMA SystemApiKeeps ==
    ASSUME SystemInv, NEW q \in SystemRequests,
           \/ AssignManager(q) \/ UpdateSystem(q) \/ DeleteSystem(q)
           \/ AssignSystemRole(q) \/ RevokeSystemRole(q)
    PROVE  SystemInv'
<1>0. sys \in System /\ holds \in Holding /\ active \subseteq Managers
  BY DEF SystemInv, SystemTypeOK
<1>1. sys \in System /\ holds \in Holding /\ active \subseteq Managers /\ AsRead \in SystemSession
  <2>1. sys.manager \in Managers
    BY <1>0 DEF System
  <2> QED BY <1>0, <2>1 DEF SystemSession, AsRead
<1>2. ASSUME NEW u \in active,
             SystemRequest(q, [AsRead EXCEPT !.new.manager = u, !.rows = RevokedFor(u),
                                   !.gains = IF holds[u] = 0 THEN {u} ELSE {}, !.assigns = TRUE])
      PROVE  SystemInv'
  <2> DEFINE s == [AsRead EXCEPT !.new.manager = u, !.rows = RevokedFor(u),
                       !.gains = IF holds[u] = 0 THEN {u} ELSE {}, !.assigns = TRUE]
  <2>1. s \in SystemSession
    <3>1. RevokedFor(u) \in Nat
      BY <1>1 DEF RevokedFor, System, Holding
    <3> QED BY <1>1, <3>1 DEF AsRead, SystemSession, System
  <2>2. /\ s.read = sys /\ s.held = holds /\ s.new.manager = u /\ s.rows = RevokedFor(u)
        /\ s.loser = sys.manager
        /\ s.gains = IF holds[u] = 0 THEN {u} ELSE {}
    BY <1>1 DEF AsRead, System
  <2>3. SystemRequest(q, s)
    BY <1>2
  <2> HIDE DEF s
  <2> QED BY <2>1, <2>2, <2>3, SystemRequestKeeps
<1>3. ASSUME NEW s \in SystemSession, SystemRequest(q, s), s.read = sys, s.held = holds, ~s.assigns
      PROVE  SystemInv'
  BY <1>3, SystemRequestKeeps
<1>4. CASE UpdateSystem(q)
  <2>1. PICK u \in Managers : SystemRequest(q, [AsRead EXCEPT !.new.manager = u])
    BY <1>4 DEF UpdateSystem
  <2>2. LET s == [AsRead EXCEPT !.new.manager = u]
        IN  s \in SystemSession /\ s.read = sys /\ s.held = holds /\ ~s.assigns
    BY <1>1 DEF AsRead, SystemSession, System
  <2> QED BY <1>3, <2>1, <2>2
<1>5. CASE DeleteSystem(q)
  <2>1. LET s == [AsRead EXCEPT !.new.is_deleted = TRUE]
        IN  s \in SystemSession /\ s.read = sys /\ s.held = holds /\ ~s.assigns
    BY <1>1 DEF AsRead, SystemSession, System
  <2> QED BY <1>3, <1>5, <2>1 DEF DeleteSystem
<1>6. CASE AssignSystemRole(q)
  <2>1. PICK u \in Managers : SystemRequest(q, [AsRead EXCEPT !.gains = {u}])
    BY <1>6 DEF AssignSystemRole
  <2>2. LET s == [AsRead EXCEPT !.gains = {u}]
        IN  s \in SystemSession /\ s.read = sys /\ s.held = holds /\ ~s.assigns
    BY <1>1 DEF AsRead, SystemSession
  <2> QED BY <1>3, <2>1, <2>2
<1>7. CASE RevokeSystemRole(q)
  <2>1. PICK u \in Managers : SystemRequest(q, [AsRead EXCEPT !.loser = u, !.rows = 1])
    BY <1>7 DEF RevokeSystemRole
  <2>2. LET s == [AsRead EXCEPT !.loser = u, !.rows = 1]
        IN  s \in SystemSession /\ s.read = sys /\ s.held = holds /\ ~s.assigns
    BY <1>1 DEF AsRead, SystemSession
  <2> QED BY <1>3, <2>1, <2>2
<1> QED BY <1>2, <1>4, <1>5, <1>6, <1>7 DEF AssignManager

\* A commit: an assign_manager that nothing overlapped moves the role from the one who
\* had it, if the others had none, to the new manager.
LEMMA CommitSystemKeeps ==
    ASSUME SystemInv, NEW q \in SystemRequests, CommitSystem(q)
    PROVE  SystemInv'
<1> DEFINE s == yReq[q]
<1> PICK n \in Met(s) :
        holds' = [u \in Managers |-> holds[u] - (IF u = s.loser THEN n ELSE 0)
                                           + (IF u \in s.gains THEN 1 ELSE 0)]
  BY DEF CommitSystem
<1>1. /\ s # None /\ sys' = Merge(sys, s.read, s.new)
      /\ arranged' = IF s.assigns
                      THEN s.alone /\ (arranged \/ \A u \in Managers \ {sys.manager} : holds[u] = 0)
                      ELSE arranged /\ sys'.manager = sys.manager /\ holds' = holds
      /\ yReq' = [p \in SystemRequests |->
                     IF p = q \/ yReq[p] = None THEN None ELSE [yReq[p] EXCEPT !.alone = FALSE]]
      /\ UNCHANGED <<active, yEdits>>
  BY DEF CommitSystem
<1>2. s \in SystemSession /\ SystemSessionInv(q) /\ sys \in System /\ holds \in Holding
  BY <1>1 DEF SystemInv, SystemTypeOK
<1>3. sys' \in System /\ (s.read = sys => sys'.manager = s.new.manager)
  BY <1>1, <1>2, MergedSystem DEF SystemSession
<1>4. holds' \in Holding /\ \A u \in Managers :
        holds'[u] = holds[u] - (IF u = s.loser THEN n ELSE 0) + (IF u \in s.gains THEN 1 ELSE 0)
  <2>1. /\ \A u \in Managers : holds[u] \in Nat
        /\ s.loser \in Managers /\ s.rows \in Nat
    BY <1>2 DEF SystemSession, Holding
  <2>2. n \in Nat /\ n <= holds[s.loser]
    BY <2>1 DEF Met
  <2> QED BY <2>1, <2>2 DEF Holding
<1>5. ASSUME NEW p \in SystemRequests
      PROVE  /\ yReq'[p] \in SystemSession \cup {None}
             /\ SystemSessionInv(p)'
  <2>1. CASE yReq'[p] = None
    BY <2>1 DEF SystemSessionInv
  <2>2. CASE yReq'[p] # None
    <3>1. yReq[p] # None /\ yReq[p] \in SystemSession /\ yReq'[p] = [yReq[p] EXCEPT !.alone = FALSE]
      BY <1>1, <2>2 DEF SystemInv, SystemTypeOK
    <3>2. /\ yReq'[p] \in SystemSession /\ ~yReq'[p].alone /\ yReq'[p].assigns = yReq[p].assigns
          /\ yReq'[p].loser = yReq[p].loser /\ yReq'[p].rows = yReq[p].rows
          /\ yReq'[p].gains = yReq[p].gains
          /\ yReq'[p].held = yReq[p].held /\ yReq'[p].read = yReq[p].read /\ yReq'[p].new = yReq[p].new
      BY <3>1 DEF SystemSession
    <3>3. SystemSessionInv(p)
      BY DEF SystemInv
    <3> QED BY <3>1, <3>2, <3>3 DEF SystemSessionInv
  <2> QED BY <2>1, <2>2
<1>6. yReq' \in [SystemRequests -> SystemSession \cup {None}]
  BY <1>1, <1>5
<1>7. arranged' \in BOOLEAN
  BY <1>1, <1>2 DEF SystemInv, SystemTypeOK, SystemSession
<1>8. ManagerHoldsRole'
  <2> SUFFICES ASSUME arranged'
               PROVE  holds'[sys'.manager] > 0 /\ \A u \in Managers \ {sys'.manager} : holds'[u] = 0
    BY DEF ManagerHoldsRole
  <2>1. \A u \in Managers : holds[u] \in Nat
    BY <1>2 DEF Holding
  <2>2. CASE s.assigns
    <3>1. s.alone /\ \A u \in Managers \ {sys.manager} : holds[u] = 0
      BY <1>1, <2>2 DEF SystemInv, ManagerHoldsRole
    <3>2. s.read = sys /\ s.held = holds /\ sys'.manager = s.new.manager /\ s.new.manager \in Managers
      BY <1>1, <1>2, <1>3, <3>1 DEF SystemSessionInv, SystemSession, System
    <3>3. /\ s.loser = sys.manager
          /\ n = IF sys.manager = s.new.manager THEN 0 ELSE holds[sys.manager]
          /\ s.gains = IF holds[s.new.manager] = 0 THEN {s.new.manager} ELSE {}
      BY <1>1, <1>2, <2>2, <3>1, <3>2 DEF SystemSessionInv, Met
    <3>4. sys.manager \in Managers
      BY <1>2 DEF System
    <3> DEFINE u == s.new.manager
    <3>5. u \in Managers /\ sys'.manager = u
      BY <3>2
    <3>6. \A v \in Managers : holds'[v] = holds[v] - (IF v = sys.manager THEN n ELSE 0)
                                           + (IF v \in s.gains THEN 1 ELSE 0)
      BY <1>4, <3>3
    <3>7. n = (IF sys.manager = u THEN 0 ELSE holds[sys.manager])
          /\ s.gains = IF holds[u] = 0 THEN {u} ELSE {}
      BY <3>3
    <3> HIDE DEF u
    <3>8. holds'[u] > 0
      BY <2>1, <3>5, <3>6, <3>7
    <3>9. \A v \in Managers \ {u} : holds'[v] = 0
      BY <2>1, <3>1, <3>4, <3>5, <3>6, <3>7
    <3> QED BY <3>5, <3>8, <3>9
  <2>3. CASE ~s.assigns
    BY <1>1, <2>3 DEF SystemInv, ManagerHoldsRole
  <2> QED BY <2>2, <2>3
<1> QED BY <1>1, <1>3, <1>4, <1>5, <1>6, <1>7, <1>8 DEF SystemInv, SystemTypeOK

\* Every step keeps the invariant.
LEMMA SystemStep == SystemInv /\ [SystemNext]_systemVars => SystemInv'
<1> SUFFICES ASSUME SystemInv, [SystemNext]_systemVars PROVE SystemInv'
  OBVIOUS
<1>1. ASSUME NEW q \in SystemRequests, RollbackSystem(q) PROVE SystemInv'
  BY <1>1 DEF RollbackSystem, SystemInv, SystemTypeOK, SystemSessionInv, ManagerHoldsRole
<1>2. CASE DeactivateManager \/ UNCHANGED systemVars
  <2>1. UNCHANGED <<sys, holds, yReq, yEdits, arranged>> /\ active' \subseteq Managers
    BY <1>2 DEF DeactivateManager, systemVars, SystemInv, SystemTypeOK
  <2>2. SystemTypeOK'
    BY <2>1 DEF SystemInv, SystemTypeOK
  <2>3. (\A q \in SystemRequests : SystemSessionInv(q)') /\ ManagerHoldsRole'
    BY <2>1 DEF SystemInv, SystemSessionInv, ManagerHoldsRole
  <2> QED BY <2>2, <2>3 DEF SystemInv
<1> QED BY <1>1, <1>2, SystemApiKeeps, CommitSystemKeeps DEF SystemNext

\* Nobody has a role on the system at first.
LEMMA SystemStarts == SystemInit => SystemInv
<1> SUFFICES ASSUME SystemInit PROVE SystemInv
  OBVIOUS
<1>1. PICK u \in Managers : sys = [manager |-> u, is_deleted |-> FALSE]
  BY DEF SystemInit
<1>2. sys \in System
  BY <1>1 DEF System
<1>3. SystemTypeOK
  <2>1. yEdits \in 0 .. MaxSystemEdits /\ active \subseteq Managers
    BY SystemAssumption DEF SystemInit
  <2>2. yReq \in [SystemRequests -> SystemSession \cup {None}]
    BY DEF SystemInit
  <2>3. holds \in Holding /\ arranged \in BOOLEAN
    BY Zenon DEF SystemInit, Holding
  <2> QED BY <1>2, <2>1, <2>2, <2>3 DEF SystemTypeOK
<1> QED BY <1>3 DEF SystemInit, SystemInv, SystemSessionInv, ManagerHoldsRole

\* After an assign_manager that nothing overlapped the manager alone has the role, until
\* the manager or a role is edited directly, for any number of users and of requests
\* (assign_manager, update_system, assign_role, revoke_role).
THEOREM ManagerAlwaysHoldsRole == SystemSpec => []ManagerHoldsRole
<1>1. SystemInv => ManagerHoldsRole
  BY DEF SystemInv
<1> QED BY <1>1, SystemStarts, SystemStep, PTL DEF SystemSpec

-----------------------------------------------------------------------------
(* How a person joins.                                                     *)

\* What a session that has read the rows may write: an invitation from the status it
\* checked, a role it looked for only where it found none, a checklist that is completed
\* when its steps are done; and rows that existed when it read them exist.
SessionFits(s) ==
    /\ s.of = None => s.status = None
    /\ s.of # None => (s.status = "pending" /\ s.was = None)
                      \/ (s.status \in {"accepted", "revoked"} /\ s.was = "pending")
    /\ s.user # None => account # None
    /\ s.list # None => checklist # None
    /\ s.adds = 1 /\ s.looked => s.found = 0
    /\ s.asList # None /\ (\A m \in Milestones : s.asList[m]) => s.asList["completed_at"]

OnePending == \A i, k \in PendingTokens : i = k

UsedOnce == \A i \in InviteTokens \ stale : uses[i] <= (IF invitation[i] = "accepted" THEN 1 ELSE 0)

JoinInv ==
    /\ JoinTypeOK
    /\ \A q \in JoinRequests : jReq[q] # None => SessionFits(jReq[q])
    /\ UsedOnce
    /\ OnePending \/ "invited" \in stale
    /\ RoleHeldOnce /\ ChecklistCompletes

\* A request that begins.
LEMMA JoinRequestKeeps ==
    ASSUME JoinInv, NEW q \in JoinRequests, NEW s \in Session, SessionFits(s), JoinRequest(q, s)
    PROVE  JoinInv'
<1>1. /\ joins < MaxJoins /\ joins' = joins + 1 /\ jReq' = [jReq EXCEPT ![q] = s]
      /\ UNCHANGED <<invitation, lapsed, account, grants, checklist, uses, stale>>
  BY DEF JoinRequest
<1>2. JoinTypeOK'
  BY <1>1, JoinAssumption DEF JoinInv, JoinTypeOK
<1>3. \A p \in JoinRequests : jReq'[p] = IF p = q THEN s ELSE jReq[p]
  BY <1>1 DEF JoinInv, JoinTypeOK
<1>4. \A p \in JoinRequests : jReq'[p] # None => SessionFits(jReq[p])'
  BY <1>1, <1>3 DEF JoinInv, SessionFits
<1> QED BY <1>1, <1>2, <1>4
        DEF JoinInv, UsedOnce, OnePending, PendingTokens, RoleHeldOnce, ChecklistCompletes

\* The checklist a request starts from is one, and so is the one it makes of it, which is
\* completed when its steps are done.
LEMMA ListFacts ==
    ASSUME JoinInv
    PROVE  /\ CurrentList \in Checklist
           /\ (\A m \in Milestones : CurrentList[m]) /\ checklist = None => FALSE
           /\ \A steps \in SUBSET Milestones : \A changes \in [steps -> BOOLEAN] :
                /\ Advanced(changes) \in Checklist
                /\ (\A m \in Milestones : Advanced(changes)[m])
                        => Advanced(changes)["completed_at"]
<1>1. CurrentList \in Checklist
  BY DEF JoinInv, JoinTypeOK, CurrentList, Checklist
<1>2. checklist = None => ~CurrentList["has_team_member"]
  BY JoinAssumption DEF CurrentList
<1>3. ASSUME NEW steps \in SUBSET Milestones, NEW changes \in [steps -> BOOLEAN]
      PROVE  /\ Advanced(changes) \in Checklist
             /\ (\A m \in Milestones : Advanced(changes)[m]) => Advanced(changes)["completed_at"]
  <2> DEFINE row == [c \in DOMAIN CurrentList |->
                        IF c \in DOMAIN changes THEN changes[c] ELSE CurrentList[c]]
  <2>1. row \in Checklist
    BY <1>1 DEF Checklist
  <2> HIDE DEF row
  <2> DEFINE done == \A m \in Milestones : row[m]
  <2>2. Advanced(changes) = [row EXCEPT !["completed_at"] = row["completed_at"] \/ done]
    BY DEF Advanced, CheckAndComplete, row
  <2>3. (row["completed_at"] \/ done) \in BOOLEAN
    OBVIOUS
  <2>4. [row EXCEPT !["completed_at"] = row["completed_at"] \/ done] \in Checklist
    BY <2>1, <2>3 DEF Checklist
  <2>5. ASSUME \A m \in Milestones : [row EXCEPT !["completed_at"] = row["completed_at"] \/ done][m]
        PROVE  row["completed_at"] \/ done
    <3>1. CASE "completed_at" \in Milestones
      BY <2>1, <2>5, <3>1 DEF Checklist
    <3>2. CASE "completed_at" \notin Milestones
      BY <2>1, <2>5, <3>2 DEF Checklist
    <3> QED BY <3>1, <3>2
  <2>6. [row EXCEPT !["completed_at"] = row["completed_at"] \/ done]["completed_at"]
            = (row["completed_at"] \/ done)
    BY <2>1 DEF Checklist
  <2> QED BY <2>2, <2>4, <2>5, <2>6
<1> QED BY <1>1, <1>2, <1>3, JoinAssumption

\* Sessions that write neither an invitation nor the checklist, and give a role unseen.
LEMMA QuietSession ==
    ASSUME NEW s, s.of = None, s.status = None, s.asList = None, s.list = None,
           s.user # None => account # None, s.adds = 1 => ~s.looked
    PROVE  SessionFits(s)
BY DEF SessionFits

\* Sessions that change the person's row only, or give or take a role.
LEMMA UserSessions ==
    ASSUME JoinInv
    PROVE  /\ \A row \in Account : LET s == WritesAccount(row)
                                   IN  s \in Session /\ SessionFits(s)
           /\ \A row \in Account :
                LET s == [WritesAccount(row) EXCEPT !.found = grants, !.adds = 1, !.looked = FALSE]
                IN  s \in Session /\ SessionFits(s)
           /\ LET s == [Nothing EXCEPT !.found = grants, !.adds = 1, !.looked = FALSE]
              IN  s \in Session /\ SessionFits(s)
           /\ LET s == [Nothing EXCEPT !.found = grants, !.adds = -1]
              IN  s \in Session /\ SessionFits(s)
<1>1. Nothing \in Session /\ grants \in Nat /\ account \in Account \cup {None}
  BY DEF Nothing, Session, JoinInv, JoinTypeOK
<1>2. ASSUME NEW row \in Account
      PROVE  LET s == WritesAccount(row) IN s \in Session /\ SessionFits(s)
  <2> DEFINE s == WritesAccount(row)
  <2>1. s \in Session
    BY <1>1 DEF WritesAccount, Session
  <2>2. /\ s.of = None /\ s.status = None /\ s.asList = None /\ s.list = None
        /\ s.user = account /\ s.adds = 0
    BY DEF WritesAccount, Nothing
  <2> HIDE DEF s
  <2>3. SessionFits(s)
    BY <2>2, QuietSession
  <2> QED BY <2>1, <2>3 DEF s
<1>3. ASSUME NEW row \in Account
      PROVE  LET s == [WritesAccount(row) EXCEPT !.found = grants, !.adds = 1, !.looked = FALSE]
             IN  s \in Session /\ SessionFits(s)
  <2> DEFINE s == [WritesAccount(row) EXCEPT !.found = grants, !.adds = 1, !.looked = FALSE]
  <2>1. s \in Session
    BY <1>1, <1>2 DEF Session
  <2>2. /\ s.of = None /\ s.status = None /\ s.asList = None /\ s.list = None
        /\ s.user = account /\ ~s.looked
    BY DEF WritesAccount, Nothing
  <2> HIDE DEF s
  <2>3. SessionFits(s)
    BY <2>2, QuietSession
  <2> QED BY <2>1, <2>3 DEF s
<1>4. LET s == [Nothing EXCEPT !.found = grants, !.adds = 1, !.looked = FALSE]
      IN  s \in Session /\ SessionFits(s)
  <2> DEFINE s == [Nothing EXCEPT !.found = grants, !.adds = 1, !.looked = FALSE]
  <2>1. s \in Session
    BY <1>1 DEF Session
  <2>2. s.of = None /\ s.status = None /\ s.asList = None /\ s.list = None /\ s.user = None /\ ~s.looked
    BY DEF Nothing
  <2> HIDE DEF s
  <2>3. SessionFits(s)
    BY <2>2, QuietSession
  <2> QED BY <2>1, <2>3 DEF s
<1>5. LET s == [Nothing EXCEPT !.found = grants, !.adds = -1]
      IN  s \in Session /\ SessionFits(s)
  <2> DEFINE s == [Nothing EXCEPT !.found = grants, !.adds = -1]
  <2>1. s \in Session
    BY <1>1 DEF Session
  <2>2. s.of = None /\ s.status = None /\ s.asList = None /\ s.list = None /\ s.user = None /\ s.adds = -1
    BY DEF Nothing
  <2> HIDE DEF s
  <2>3. SessionFits(s)
    BY <2>2, QuietSession
  <2> QED BY <2>1, <2>3 DEF s
<1> QED BY <1>2, <1>3, <1>4, <1>5

\* Sessions that write an invitation or the checklist.
LEMMA InvitationSessions ==
    ASSUME JoinInv, NEW i \in InviteTokens, NEW status \in InvitationStatus,
           NEW was \in InvitationStatus \cup {None},
           (status = "pending" /\ was = None) \/ (status \in {"accepted", "revoked"} /\ was = "pending")
    PROVE  LET s == [Nothing EXCEPT !.of = i, !.was = was, !.status = status]
           IN  s \in Session /\ SessionFits(s)
<1> DEFINE s == [Nothing EXCEPT !.of = i, !.was = was, !.status = status]
<1>1. s \in Session
  BY DEF Nothing, Session
<1>2. /\ s.of = i /\ s.was = was /\ s.status = status /\ s.asList = None /\ s.list = None
      /\ s.user = None /\ s.adds = 0
  BY DEF Nothing
<1> HIDE DEF s
<1>3. SessionFits(s)
  BY <1>2, NoneAssumption DEF SessionFits
<1> QED BY <1>1, <1>3 DEF s

\* Sessions that write the checklist only.
LEMMA ListSessions ==
    ASSUME JoinInv, NEW was \in {None, checklist}, NEW list \in Checklist,
           (\A m \in Milestones : list[m]) => list["completed_at"]
    PROVE  LET s == [Nothing EXCEPT !.list = was, !.asList = list]
           IN  s \in Session /\ SessionFits(s)
<1> DEFINE s == [Nothing EXCEPT !.list = was, !.asList = list]
<1>1. s \in Session
  BY DEF Nothing, Session, JoinInv, JoinTypeOK
<1>2. /\ s.of = None /\ s.status = None /\ s.asList = list /\ s.list = was
      /\ s.user = None /\ s.adds = 0
  BY DEF Nothing
<1> HIDE DEF s
<1>3. SessionFits(s)
  BY <1>2, NoneAssumption DEF SessionFits
<1> QED BY <1>1, <1>3 DEF s

\* accept_invitation.
LEMMA AcceptSession ==
    ASSUME JoinInv, NEW i \in InviteTokens, invitation[i] = "pending"
    PROVE  LET s == [Nothing EXCEPT !.of = i, !.was = invitation[i], !.status = "accepted",
                 !.user = account,
                 !.asUser = IF account = None THEN [linked |-> FALSE, is_active |-> TRUE] ELSE account,
                 !.found = grants, !.adds = GrantMissing(grants),
                 !.list = checklist, !.asList = Advanced(TeamJoined)]
           IN  s \in Session /\ SessionFits(s)
<1> DEFINE row == IF account = None THEN [linked |-> FALSE, is_active |-> TRUE] ELSE account
           list == Advanced(TeamJoined)
<1>1. row \in Account /\ account \in Account \cup {None} /\ grants \in Nat
      /\ checklist \in Checklist \cup {None} /\ GrantMissing(grants) \in {0, 1}
  BY DEF Account, JoinInv, JoinTypeOK, GrantMissing
<1>2. list \in Checklist /\ ((\A m \in Milestones : list[m]) => list["completed_at"])
  <2>1. {"has_team_member"} \in SUBSET Milestones /\ TeamJoined \in [{"has_team_member"} -> BOOLEAN]
    BY JoinAssumption DEF TeamJoined
  <2> QED BY <2>1, ListFacts
<1> HIDE DEF row, list
<1> DEFINE s == [Nothing EXCEPT !.of = i, !.was = invitation[i], !.status = "accepted",
                 !.user = account, !.asUser = row, !.found = grants, !.adds = GrantMissing(grants),
                 !.list = checklist, !.asList = list]
<1>3. s \in Session
  BY <1>1, <1>2 DEF Nothing, Session, InvitationStatus
<1>4. /\ s.of = i /\ s.was = "pending" /\ s.status = "accepted" /\ s.asList = list
      /\ s.list = checklist /\ s.user = account /\ s.found = grants /\ s.adds = GrantMissing(grants)
  BY DEF Nothing
<1> HIDE DEF s
<1>5. SessionFits(s)
  BY <1>1, <1>2, <1>4, NoneAssumption DEF SessionFits, GrantMissing
<1> QED BY <1>3, <1>5 DEF s, row, list

\* Each of the requests begins with a session that fits.
LEMMA JoinApiKeeps ==
    ASSUME JoinInv, NEW q \in JoinRequests,
           \/ CreateInvitation(q) \/ AcceptInvitation(q) \/ RevokeInvitation(q)
           \/ OnboardingStatus(q) \/ PatchOnboarding(q)
           \/ SignIn(q) \/ InviteWithRole(q) \/ InviteUser(q)
           \/ AssignRole(q) \/ RevokeRole(q) \/ SetActive(q)
    PROVE  JoinInv'
<1>0. /\ account \in Account \cup {None} /\ [linked |-> FALSE, is_active |-> TRUE] \in Account
      /\ [linked |-> TRUE, is_active |-> TRUE] \in Account
  BY DEF JoinInv, JoinTypeOK, Account
<1>1. CASE CreateInvitation(q)
  <2>1. PICK i \in InviteTokens : JoinRequest(q, [Nothing EXCEPT !.of = i, !.status = "pending"])
    BY <1>1 DEF CreateInvitation
  <2> DEFINE s == [Nothing EXCEPT !.of = i, !.status = "pending"]
  <2>2. s \in Session
    BY DEF Nothing, Session, InvitationStatus
  <2>3. /\ s.of = i /\ s.was = None /\ s.status = "pending" /\ s.asList = None /\ s.list = None
        /\ s.user = None /\ s.adds = 0
    BY DEF Nothing
  <2>4. JoinRequest(q, s)
    BY <2>1
  <2> HIDE DEF s
  <2>5. SessionFits(s)
    BY <2>3, NoneAssumption DEF SessionFits
  <2> QED BY <2>2, <2>4, <2>5, JoinRequestKeeps
<1>2. CASE AcceptInvitation(q)
  BY <1>2, AcceptSession, JoinRequestKeeps DEF AcceptInvitation, Usable
<1>3. CASE RevokeInvitation(q)
  <2>1. PICK i \in InviteTokens :
            JoinRequest(q, [Nothing EXCEPT !.of = i, !.was = "pending", !.status = "revoked"])
    BY <1>3 DEF RevokeInvitation, PendingTokens
  <2>2. LET s == [Nothing EXCEPT !.of = i, !.was = "pending", !.status = "revoked"]
        IN  s \in Session /\ SessionFits(s)
    BY InvitationSessions DEF InvitationStatus
  <2> QED BY <2>1, <2>2, JoinRequestKeeps
<1>4. CASE OnboardingStatus(q)
  <2>1. checklist = None /\ JoinRequest(q, [Nothing EXCEPT !.asList = CurrentList])
    BY <1>4 DEF OnboardingStatus
  <2> DEFINE s == [Nothing EXCEPT !.asList = CurrentList]
  <2>2. s \in Session
    BY ListFacts DEF Nothing, Session
  <2>3. /\ s.of = None /\ s.status = None /\ s.asList = CurrentList /\ s.list = None
        /\ s.user = None /\ s.adds = 0
    BY DEF Nothing
  <2>4. JoinRequest(q, s)
    BY <2>1
  <2> HIDE DEF s
  <2>5. SessionFits(s)
    BY <2>1, <2>3, ListFacts, NoneAssumption DEF SessionFits
  <2> QED BY <2>2, <2>4, <2>5, JoinRequestKeeps
<1>5. CASE PatchOnboarding(q)
  <2>0. PICK steps \in SUBSET Milestones : \E changes \in [steps -> BOOLEAN] :
            JoinRequest(q, [Nothing EXCEPT !.list = checklist, !.asList = Advanced(changes)])
    BY <1>5 DEF PatchOnboarding
  <2>1. PICK changes \in [steps -> BOOLEAN] :
            JoinRequest(q, [Nothing EXCEPT !.list = checklist, !.asList = Advanced(changes)])
    BY <2>0
  <2>2. LET s == [Nothing EXCEPT !.list = checklist, !.asList = Advanced(changes)]
        IN  s \in Session /\ SessionFits(s)
    BY ListFacts, ListSessions
  <2> QED BY <2>1, <2>2, JoinRequestKeeps
<1>6. ASSUME NEW row \in Account, JoinRequest(q, WritesAccount(row)) PROVE JoinInv'
  BY <1>6, UserSessions, JoinRequestKeeps
<1>7. CASE SignIn(q)
  <2>1. account # None => [account EXCEPT !.linked = TRUE] \in Account
    BY <1>0 DEF Account
  <2> QED BY <1>0, <1>6, <1>7, <2>1 DEF SignIn
<1>8. CASE InviteWithRole(q)
  BY <1>0, <1>8, UserSessions, JoinRequestKeeps DEF InviteWithRole
<1>9. CASE InviteUser(q)
  BY <1>0, <1>6, <1>9 DEF InviteUser
<1>10. CASE AssignRole(q) \/ RevokeRole(q)
  BY <1>10, UserSessions, JoinRequestKeeps DEF AssignRole, RevokeRole
<1>11. CASE SetActive(q)
  <2>1. \A b \in BOOLEAN : account # None => [account EXCEPT !.is_active = b] \in Account
    BY <1>0 DEF Account
  <2> QED BY <1>6, <1>11, <2>1 DEF SetActive
<1> QED BY <1>1, <1>2, <1>3, <1>4, <1>5, <1>7, <1>8, <1>9, <1>10, <1>11

\* What the commit of a session does to a row that may not exist yet.
LEMMA RowFacts ==
    ASSUME NEW now, NEW read, NEW new
    PROVE  /\ now \in Account \cup {None} /\ read \in Account \cup {None}
                /\ new \in Account \cup {None} /\ (read # None => now # None)
             => /\ Row(now, read, new) \in Account \cup {None}
                /\ now # None => Row(now, read, new) # None
           /\ now \in Checklist \cup {None} /\ read \in Checklist \cup {None}
                /\ new \in Checklist \cup {None} /\ (read # None => now # None)
             => /\ Row(now, read, new) \in Checklist \cup {None}
                /\ now # None => Row(now, read, new) # None
                /\ new # None /\ read = now => Row(now, read, new) = new
<1>1. ASSUME now \in Account, read \in Account, new \in Account PROVE Merge(now, read, new) \in Account
  BY <1>1 DEF Account, Merge
<1>2. ASSUME now \in Checklist, read \in Checklist, new \in Checklist
      PROVE  /\ Merge(now, read, new) \in Checklist
             /\ read = now => Merge(now, read, new) = new
  BY <1>2 DEF Checklist, Merge
<1> QED BY <1>1, <1>2, NoneAssumption DEF Row

\* A commit.
LEMMA CommitJoinKeeps ==
    ASSUME JoinInv, NEW q \in JoinRequests, CommitJoin(q)
    PROVE  JoinInv'
<1> DEFINE s == jReq[q]
<1>1. /\ s # None /\ s \in Session /\ SessionFits(s)
      /\ jReq' = [jReq EXCEPT ![q] = None] /\ UNCHANGED <<lapsed, joins>>
  BY DEF CommitJoin, JoinInv, JoinTypeOK
<1>2. /\ invitation' = IF s.of = None THEN invitation ELSE [invitation EXCEPT ![s.of] = s.status]
      /\ account' = Row(account, s.user, s.asUser)
      /\ grants' = IF grants = 0 /\ s.adds = -1 THEN 0 ELSE grants + s.adds
      /\ checklist' = Row(checklist, s.list, s.asList)
      /\ uses' = IF s.status = "accepted" THEN [uses EXCEPT ![s.of] = @ + 1] ELSE uses
      /\ stale' = stale
           \cup {i \in {s.of} \ {None} : invitation[i] # s.was}
           \cup (IF s.status = "pending" /\ PendingTokens # {} THEN {"invited"} ELSE {})
           \cup (IF s.adds = 1 /\ (~s.looked \/ grants # s.found) THEN {"grant"} ELSE {})
           \cup (IF s.asList # None /\ s.list # checklist THEN {"checklist"} ELSE {})
  BY DEF CommitJoin
<1>3. /\ s.of \in InviteTokens \cup {None} /\ s.status \in InvitationStatus \cup {None}
      /\ s.user \in Account \cup {None} /\ s.asUser \in Account \cup {None}
      /\ s.list \in Checklist \cup {None} /\ s.asList \in Checklist \cup {None}
      /\ s.adds \in {-1, 0, 1} /\ s.found \in Nat /\ s.looked \in BOOLEAN
  BY <1>1 DEF Session
<1>4. /\ account' \in Account \cup {None} /\ (account # None => account' # None)
      /\ checklist' \in Checklist \cup {None} /\ (checklist # None => checklist' # None)
      /\ s.asList # None /\ s.list = checklist => checklist' = s.asList
      /\ s.asList = None => checklist' = checklist
  <2>1. account \in Account \cup {None} /\ checklist \in Checklist \cup {None}
    BY DEF JoinInv, JoinTypeOK
  <2>2. (s.user # None => account # None) /\ (s.list # None => checklist # None)
    BY <1>1 DEF SessionFits
  <2>3. s.asList = None => checklist' = checklist
    BY <1>2 DEF Row
  <2> HIDE DEF s
  <2> QED BY <1>2, <1>3, <2>1, <2>2, <2>3, RowFacts
<1>5. JoinTypeOK'
  <2>1. invitation' \in [InviteTokens -> InvitationStatus \cup {None}]
    BY <1>2, <1>3 DEF JoinInv, JoinTypeOK
  <2>2. uses' \in [InviteTokens -> Nat] /\ grants' \in Nat
    <3>1. uses \in [InviteTokens -> Nat] /\ grants \in Nat
      BY DEF JoinInv, JoinTypeOK
    <3>2. grants' \in Nat
      <4> HIDE DEF s
      <4> QED BY <1>1, <1>2, <1>3, <3>1
    <3>3. uses' \in [InviteTokens -> Nat]
      <4>1. s.status = "accepted" => s.of \in InviteTokens
        BY <1>1, <1>3, NoneAssumption DEF SessionFits, InvitationStatus
      <4> HIDE DEF s
      <4> QED BY <1>2, <3>1, <4>1
    <3> QED BY <3>2, <3>3
  <2>3. stale' \subseteq InviteTokens \cup {"invited", "grant", "checklist"}
    BY <1>2, <1>3 DEF JoinInv, JoinTypeOK
  <2>4. jReq' \in [JoinRequests -> Session \cup {None}]
    BY <1>1 DEF JoinInv, JoinTypeOK
  <2> QED BY <1>1, <1>4, <2>1, <2>2, <2>3, <2>4 DEF JoinInv, JoinTypeOK
<1>6. \A p \in JoinRequests : jReq'[p] # None => SessionFits(jReq[p])'
  <2> SUFFICES ASSUME NEW p \in JoinRequests, jReq'[p] # None PROVE SessionFits(jReq[p])'
    OBVIOUS
  <2>1. jReq'[p] = jReq[p] /\ SessionFits(jReq[p])
    BY <1>1 DEF JoinInv, JoinTypeOK
  <2> QED BY <1>4, <2>1 DEF SessionFits
<1>7. UsedOnce'
  <2> SUFFICES ASSUME NEW i \in InviteTokens \ stale'
               PROVE  uses'[i] <= (IF invitation'[i] = "accepted" THEN 1 ELSE 0)
    BY DEF UsedOnce
  <2>1. i \notin stale /\ uses[i] <= (IF invitation[i] = "accepted" THEN 1 ELSE 0) /\ uses[i] \in Nat
        /\ i # None
    BY <1>2, NoneAssumption DEF JoinInv, UsedOnce, JoinTypeOK
  <2>2. CASE s.of # i
    <3>1. invitation'[i] = invitation[i] /\ uses'[i] = uses[i]
      BY <1>2, <2>2 DEF JoinInv, JoinTypeOK
    <3> QED BY <2>1, <3>1
  <2>3. CASE s.of = i
    <3>1. invitation[i] = s.was
      BY <1>2, <2>1, <2>3
    <3>2. invitation[i] # "accepted"
      BY <1>1, <2>1, <2>3, <3>1, NoneAssumption DEF SessionFits, InvitationStatus
    <3>3. invitation'[i] = s.status /\ uses'[i] = IF s.status = "accepted" THEN uses[i] + 1 ELSE uses[i]
      BY <1>2, <2>1, <2>3 DEF JoinInv, JoinTypeOK
    <3> QED BY <2>1, <3>2, <3>3
  <2> QED BY <2>2, <2>3
<1>8. OnePending' \/ "invited" \in stale'
  <2>1. "invited" \in stale => "invited" \in stale'
    BY <1>2
  <2>2. CASE s.status = "pending" /\ PendingTokens # {}
    BY <1>2, <2>2
  <2>3. CASE s.status = "pending" /\ PendingTokens = {}
    <3>1. \A i \in PendingTokens' : i = s.of
      BY <1>2, <2>3 DEF PendingTokens, JoinInv, JoinTypeOK
    <3> QED BY <3>1 DEF OnePending
  <2>4. CASE s.status # "pending"
    <3>1. PendingTokens' \subseteq PendingTokens
      BY <1>2, <2>4 DEF PendingTokens, JoinInv, JoinTypeOK
    <3> QED BY <2>1, <3>1 DEF JoinInv, OnePending
  <2> QED BY <2>2, <2>3, <2>4
<1>9. RoleHeldOnce'
  <2>1. grants \in Nat /\ (grants > 1 => "grant" \in stale)
    BY DEF JoinInv, JoinTypeOK, RoleHeldOnce
  <2>2. s.adds = 1 /\ s.looked => s.found = 0
    BY <1>1 DEF SessionFits
  <2> QED BY <1>2, <1>3, <2>1, <2>2 DEF RoleHeldOnce
<1>10. ChecklistCompletes'
  <2>1. CASE s.asList = None
    BY <1>2, <1>4, <2>1 DEF JoinInv, ChecklistCompletes
  <2>2. CASE s.asList # None /\ s.list # checklist
    BY <1>2, <2>2 DEF ChecklistCompletes
  <2>3. CASE s.asList # None /\ s.list = checklist
    BY <1>1, <1>4, <2>3 DEF SessionFits, ChecklistCompletes
  <2> QED BY <2>1, <2>2, <2>3
<1> QED BY <1>5, <1>6, <1>7, <1>8, <1>9, <1>10 DEF JoinInv

\* Every step keeps the invariant.
LEMMA JoinStep == JoinInv /\ [JoinNext]_joinVars => JoinInv'
<1> SUFFICES ASSUME JoinInv, [JoinNext]_joinVars PROVE JoinInv'
  OBVIOUS
<1>1. ASSUME NEW q \in JoinRequests, RollbackJoin(q) PROVE JoinInv'
  <2>1. /\ jReq' = [jReq EXCEPT ![q] = None]
        /\ UNCHANGED <<invitation, lapsed, account, grants, checklist, joins, uses, stale>>
    BY <1>1 DEF RollbackJoin
  <2>2. JoinTypeOK'
    BY <2>1 DEF JoinInv, JoinTypeOK
  <2>3. \A p \in JoinRequests : jReq'[p] # None => jReq'[p] = jReq[p]
    BY <2>1 DEF JoinInv, JoinTypeOK
  <2>4. \A p \in JoinRequests : jReq'[p] # None => SessionFits(jReq[p])'
    BY <2>1, <2>3 DEF JoinInv, SessionFits
  <2> QED BY <2>1, <2>2, <2>4
          DEF JoinInv, UsedOnce, OnePending, PendingTokens, RoleHeldOnce, ChecklistCompletes
<1>2. CASE Lapse \/ UNCHANGED joinVars
  <2>1. /\ UNCHANGED <<invitation, account, grants, checklist, jReq, joins, uses, stale>>
        /\ lapsed' \subseteq InviteTokens
    BY <1>2 DEF Lapse, joinVars, JoinInv, JoinTypeOK
  <2>2. JoinTypeOK'
    BY <2>1 DEF JoinInv, JoinTypeOK
  <2>3. \A p \in JoinRequests : jReq'[p] # None => SessionFits(jReq[p])'
    BY <2>1 DEF JoinInv, SessionFits
  <2> QED BY <2>1, <2>2, <2>3
          DEF JoinInv, UsedOnce, OnePending, PendingTokens, RoleHeldOnce, ChecklistCompletes
<1> QED BY <1>1, <1>2, JoinApiKeeps, CommitJoinKeeps DEF JoinNext

\* Nobody is invited at first.
LEMMA JoinStarts == JoinInit => JoinInv
<1> SUFFICES ASSUME JoinInit PROVE JoinInv
  OBVIOUS
<1>1. JoinTypeOK
  <2>1. joins \in 0 .. MaxJoins /\ grants \in Nat /\ lapsed \subseteq InviteTokens
        /\ stale \subseteq InviteTokens \cup {"invited", "grant", "checklist"}
    BY JoinAssumption DEF JoinInit
  <2>2. /\ invitation \in [InviteTokens -> InvitationStatus \cup {None}]
        /\ jReq \in [JoinRequests -> Session \cup {None}] /\ uses \in [InviteTokens -> Nat]
    BY DEF JoinInit
  <2>3. account \in Account \cup {None} /\ checklist \in Checklist \cup {None}
    BY DEF JoinInit
  <2> QED BY <2>1, <2>2, <2>3 DEF JoinTypeOK
<1>2. UsedOnce
  BY NoneAssumption DEF JoinInit, UsedOnce
<1>3. OnePending
  BY NoneAssumption DEF JoinInit, OnePending, PendingTokens, InvitationStatus
<1> QED BY <1>1, <1>2, <1>3 DEF JoinInit, JoinInv, RoleHeldOnce, ChecklistCompletes

\* An invitation is used once at most, at most one is pending, invitations give a role
\* once, and a checklist whose steps are done is completed, but for requests that
\* overlapped on the same rows; for any number of them and of invitations.
THEOREM JoiningAlwaysSettles == JoinSpec => []JoiningSettles
<1>1. ASSUME JoinInv PROVE JoiningSettles
  <2>1. ASSUME OnePending PROVE Cardinality(PendingTokens) \in {0, 1}
    <3>1. CASE PendingTokens = {}
      BY <3>1, FS_EmptySet
    <3>2. CASE PendingTokens # {}
      <4>1. PICK i : i \in PendingTokens
        BY <3>2
      <4>2. PendingTokens = {i}
        BY <2>1, <4>1 DEF OnePending
      <4> QED BY <4>2, FS_Singleton
    <3> QED BY <3>1, <3>2
  <2>2. Cardinality(PendingTokens) > 1 => "invited" \in stale
    BY <1>1, <2>1 DEF JoinInv
  <2> QED BY <1>1, <2>2 DEF JoinInv, UsedOnce, JoiningSettles, InvitationSettlesOnce
<1> QED BY <1>1, JoinStarts, JoinStep, PTL DEF JoinSpec

-----------------------------------------------------------------------------
(* The interval of cron expressions.                                       *)

\* A set of natural numbers has a least element.
LEMMA MinFacts ==
    ASSUME NEW S \in SUBSET Nat, S # {}
    PROVE  Min(S) \in S /\ \A y \in S : Min(S) <= y
<1>1. PICK x \in S : \A y \in S : ~(<<y, x>> \in OpToRel(<, Nat))
  BY WFMin, NatLessThanWellFounded
<1>2. ASSUME NEW y \in S PROVE x <= y
  <2>1. <<y, x>> \in Nat \X Nat
    OBVIOUS
  <2>2. y < x => <<y, x>> \in OpToRel(<, Nat)
    BY <2>1 DEF OpToRel
  <2>3. ~(y < x)
    BY <1>1, <2>2, Zenon
  <2> QED BY <2>3
<1> QED BY <1>2 DEF Min

\* A bounded set of them has a greatest.
LEMMA MaxFacts ==
    ASSUME NEW N \in Nat, NEW S \in SUBSET (0 .. N), S # {}
    PROVE  Max(S) \in S /\ \A y \in S : y <= Max(S)
<1> DEFINE T == {N - y : y \in S}
<1>1. T \subseteq Nat
  OBVIOUS
<1>2. T # {}
  OBVIOUS
<1> HIDE DEF T
<1>3. PICK y \in T : \A z \in T : y <= z
  BY <1>1, <1>2, MinFacts
<1>4. PICK x \in S : y = N - x
  BY <1>3 DEF T
<1>5. \A z \in S : z <= x
  <2> SUFFICES ASSUME NEW z \in S PROVE z <= x
    OBVIOUS
  <2>1. y <= N - z
    BY <1>3 DEF T
  <2> QED BY <1>4, <2>1
<1> QED BY <1>5 DEF Max

\* The expression fires next at one of its ticks, within a day.
LEMMA WaitFacts ==
    ASSUME NEW expr \in SUBSET (0 .. Day - 1), expr # {}, NEW t \in 0 .. Day - 1
    PROVE  Wait(expr, t) \in 0 .. Day /\ (t + Wait(expr, t)) % Day \in expr
<1> DEFINE S == {IF f > t THEN f - t ELSE f + Day - t : f \in expr}
<1>1. \A f \in expr : (IF f > t THEN f - t ELSE f + Day - t) \in 0 .. Day
  BY CronAssumption
<1>2. S \subseteq Nat /\ S # {}
  <2>1. S # {}
    OBVIOUS
  <2>2. 0 .. Day \subseteq Nat
    BY CronAssumption
  <2> QED BY <1>1, <2>1, <2>2
<1>3. PICK f \in expr : Wait(expr, t) = IF f > t THEN f - t ELSE f + Day - t
  <2> HIDE DEF S
  <2>1. Min(S) \in S
    BY <1>2, MinFacts
  <2> QED BY <2>1 DEF S, Wait
<1>4. f % Day = f /\ (f + Day) % Day = f
  BY CronAssumption
<1>5. t + Wait(expr, t) \in {f, f + Day}
  BY <1>3, CronAssumption
<1> QED BY <1>1, <1>3, <1>4, <1>5

\* An answer was given by the interval between two firings of the expression.
CronInv ==
    /\ CronTypeOK /\ expression # {}
    /\ FALSE \in accepted => \E g \in Gaps : g < MinInterval
    /\ TRUE \in accepted => \E g \in Gaps : g >= MinInterval

\* The intervals are of a day at most, and the one measured is one of them.
LEMMA GapFacts ==
    ASSUME CronInv
    PROVE  Gaps \subseteq 0 .. Day /\ Gaps # {} /\ Gap(expression, clockTick) \in Gaps
<1>1. /\ expression \in SUBSET (0 .. Day - 1) /\ expression # {} /\ clockTick \in 0 .. Day - 1
  BY CronAssumption DEF CronInv, CronTypeOK
<1>2. Gaps \subseteq 0 .. Day /\ Gaps # {}
  BY <1>1, WaitFacts DEF Gaps
<1>3. (clockTick + Wait(expression, clockTick)) % Day \in expression
  BY <1>1, WaitFacts
<1> QED BY <1>2, <1>3 DEF Gaps, Gap

\* Every step keeps the invariant.
LEMMA CronStep == CronInv /\ [CronNext]_cronVars => CronInv'
<1> SUFFICES ASSUME CronInv, [CronNext]_cronVars PROVE CronInv'
  OBVIOUS
<1>1. CASE Validate
  <2>1. /\ accepted' = accepted \cup {Long(expression, clockTick)}
        /\ UNCHANGED <<expression, clockTick>> /\ Gaps' = Gaps
    BY <1>1 DEF Validate, Gaps
  <2>2. Long(expression, clockTick) \in BOOLEAN
    BY DEF Long
  <2>3. CronTypeOK'
    BY <2>1, <2>2 DEF CronInv, CronTypeOK
  <2>4. Gap(expression, clockTick) \in Gaps /\ Gaps \subseteq 0 .. Day
    BY GapFacts
  <2>5. CASE Long(expression, clockTick)
    <3>1. accepted' = accepted \cup {TRUE} /\ Gap(expression, clockTick) >= MinInterval
      BY <2>1, <2>5 DEF Long
    <3> QED BY <2>1, <2>3, <2>4, <3>1 DEF CronInv
  <2>6. CASE ~Long(expression, clockTick)
    <3>1. Long(expression, clockTick) = FALSE
      BY <2>2, <2>6, Zenon
    <3>2. accepted' = accepted \cup {FALSE}
      BY <2>1, <3>1, Zenon
    <3>3. Gap(expression, clockTick) < MinInterval
      <4>1. Gap(expression, clockTick) \in 0 .. Day
        BY <2>4
      <4>2. Day \in Nat /\ MinInterval \in Nat
        BY CronAssumption
      <4>3. ~(Gap(expression, clockTick) >= MinInterval)
        BY <2>6 DEF Long
      <4> HIDE DEF Gap
      <4> QED BY <4>1, <4>2, <4>3
    <3> QED BY <3>2, <3>3, <2>1, <2>3, <2>4 DEF CronInv
  <2> QED BY <2>5, <2>6
<1>2. CASE Pass
  <2>1. clockTick' = (clockTick + 1) % Day /\ UNCHANGED <<expression, accepted>> /\ Gaps' = Gaps
    BY <1>2 DEF Pass, Gaps
  <2>2. clockTick' \in 0 .. Day - 1
    BY <2>1, CronAssumption DEF CronInv, CronTypeOK
  <2> QED BY <2>1, <2>2 DEF CronInv, CronTypeOK
<1>3. CASE UNCHANGED cronVars
  <2>1. UNCHANGED <<expression, clockTick, accepted>> /\ Gaps' = Gaps
    BY <1>3 DEF cronVars, Gaps
  <2> QED BY <2>1 DEF CronInv, CronTypeOK
<1> QED BY <1>1, <1>2, <1>3 DEF CronNext

\* Nothing has been validated at first.
LEMMA CronStarts == CronInit => CronInv
BY DEF CronInit, CronInv, CronTypeOK

\* An expression whose intervals are all long enough is accepted whenever it is validated,
\* and one whose intervals are all too short is refused, for every length of the day and
\* every expression (validate_min_interval).
THEOREM EvenSchedulesAlwaysAccepted == CronSpec => []EvenSchedulesAccepted
<1>1. ASSUME CronInv PROVE EvenSchedulesAccepted
  <2>1. Gaps \subseteq 0 .. Day /\ Gaps # {} /\ Day \in Nat /\ MinInterval \in Nat
    BY <1>1, GapFacts, CronAssumption
  <2>2. Min(Gaps) \in Gaps /\ \A g \in Gaps : Min(Gaps) <= g
    BY <2>1, MinFacts
  <2>3. Max(Gaps) \in Gaps /\ \A g \in Gaps : g <= Max(Gaps)
    BY <2>1, MaxFacts
  <2>4. Min(Gaps) >= MinInterval => ~\E g \in Gaps : g < MinInterval
    <3> SUFFICES ASSUME Min(Gaps) >= MinInterval, NEW g \in Gaps, g < MinInterval PROVE FALSE
      OBVIOUS
    <3>1. Min(Gaps) <= g /\ Min(Gaps) \in 0 .. Day /\ g \in 0 .. Day
      BY <2>1, <2>2
    <3> QED BY <2>1, <3>1
  <2>5. Max(Gaps) < MinInterval => ~\E g \in Gaps : g >= MinInterval
    <3> SUFFICES ASSUME Max(Gaps) < MinInterval, NEW g \in Gaps, g >= MinInterval PROVE FALSE
      OBVIOUS
    <3>1. g <= Max(Gaps) /\ Max(Gaps) \in 0 .. Day /\ g \in 0 .. Day
      BY <2>1, <2>3
    <3> QED BY <2>1, <3>1
  <2> QED BY <1>1, <2>4, <2>5, Zenon DEF CronInv, EvenSchedulesAccepted
<1> QED BY <1>1, CronStarts, CronStep, PTL DEF CronSpec

-----------------------------------------------------------------------------
(* The components side by side (MCPlatform).                               *)

\* Each of them starts as it does alone, and moves as it does or not at all.
LEMMA PlatformParts ==
    /\ PlatformInit => /\ CrawlInit /\ WalkInit /\ JoinInit /\ SystemInit /\ PlanInit
                       /\ CronInit /\ BillInit
    /\ [PlatformNext]_mcVars =>
          /\ [CrawlNext]_crawlVars /\ [WalkNext]_walkVars /\ [JoinNext]_joinVars
          /\ [SystemNext]_systemVars /\ [PlanNext]_planVars /\ [CronNext]_cronVars
          /\ [BillNext]_billVars
<1>1. ASSUME PlatformInit
      PROVE  /\ CrawlInit /\ WalkInit /\ JoinInit /\ SystemInit /\ PlanInit
             /\ CronInit /\ BillInit
  BY <1>1 DEF PlatformInit
<1>2. ASSUME [PlatformNext]_mcVars
      PROVE  /\ [CrawlNext]_crawlVars /\ [WalkNext]_walkVars /\ [JoinNext]_joinVars
             /\ [SystemNext]_systemVars /\ [PlanNext]_planVars /\ [CronNext]_cronVars
             /\ [BillNext]_billVars
  BY <1>2 DEF PlatformNext, mcVars
<1> QED BY <1>1, <1>2

\* What a crawl does and what it leaves agree with what it reports, for any number of
\* crawls, of browsers and of calls and for any site.
THEOREM CrawlsAreAccounted == PlatformSpec => []CrawlAccounted
<1>1. PlatformSpec => CrawlSpec /\ WalkSpec
  BY PlatformParts, PTL DEF PlatformSpec, CrawlSpec, WalkSpec
<1>2. CommittedCrawlConsistent /\ LostOnlyInOpen /\ WalkAccounted => CrawlAccounted
  BY DEF CrawlAccounted
<1> QED BY <1>1, <1>2, CommittedCrawlsAgree, OnlyOpenLoses, WalkIsAccounted, PTL

\* Every variable of the seven components keeps its type.
THEOREM PlatformTypes == PlatformSpec => []PlatformTypeOK
<1>1. PlatformSpec => /\ CrawlSpec /\ WalkSpec /\ JoinSpec /\ SystemSpec /\ PlanSpec
                      /\ CronSpec /\ BillSpec
  BY PlatformParts, PTL
  DEF PlatformSpec, CrawlSpec, WalkSpec, JoinSpec, SystemSpec, PlanSpec, CronSpec, BillSpec
<1>2. JoinSpec => []JoinTypeOK
  <2>1. JoinInv => JoinTypeOK
    BY DEF JoinInv
  <2> QED BY <2>1, JoinStarts, JoinStep, PTL DEF JoinSpec
<1>3. SystemSpec => []SystemTypeOK
  <2>1. SystemInv => SystemTypeOK
    BY DEF SystemInv
  <2> QED BY <2>1, SystemStarts, SystemStep, PTL DEF SystemSpec
<1>4. BillSpec => []BillTypeOK
  <2>1. BillInv => BillTypeOK
    BY DEF BillInv
  <2> QED BY <2>1, BillStarts, BillStep, PTL DEF BillSpec
<1>5. ASSUME CrawlTypeOK, WalkTypeOK, JoinTypeOK, SystemTypeOK, PlanTypeOK, CronTypeOK, BillTypeOK
      PROVE  PlatformTypeOK
  BY <1>5 DEF PlatformTypeOK
<1>6. CronSpec => []CronTypeOK
  <2>1. CronInv => CronTypeOK
    BY DEF CronInv
  <2> QED BY <2>1, CronStarts, CronStep, PTL DEF CronSpec
<1> QED BY <1>1, <1>2, <1>3, <1>4, <1>5, <1>6, CrawlTypes, WalkTypes, PlanTypes, PTL
=============================================================================
