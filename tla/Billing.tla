------------------------------ MODULE Billing ------------------------------
(***************************************************************************)
(* The plan of one company, paid for at Stripe (routers/billing.py,        *)
(* services/billing_service.py) or set by a platform administrator         *)
(* (routers/usage.py, routers/admin.py), both through upsert_plan          *)
(* (services/usage_service.py).                                            *)
(*                                                                         *)
(* Stripe is outside.  It tells of a completed checkout by an event that   *)
(* it repeats until it is answered with 200, may repeat after that, and    *)
(* may deliver in any order.  An event without a valid signature, or       *)
(* without the Bearer token TenantMiddleware asks of every path but the    *)
(* login, is refused and changes nothing; the model has the deliveries     *)
(* that get through.                                                       *)
(***************************************************************************)
EXTENDS Sessions, Integers

CONSTANTS
    Checkouts,     \* checkout sessions that may be created
    BillRequests,  \* requests in progress at the same time
    MaxBills       \* bound on the requests in all (TLC)

ASSUME BillAssumption == None \notin Checkouts /\ MaxBills \in Nat

VARIABLES
    tier,        \* plan_tier of the company's row, None before there is one
    checkout,    \* checkout[c]: the session at Stripe, None before it is created
    paid,        \* the checkouts that have been paid
    answered,    \* the checkouts one of whose events was answered with 200
    bReq,        \* bReq[q]: what request q has read and will write
    bills,       \* requests so far
    given,       \* the tiers administrators have committed (history)
    had,         \* the paid checkouts whose tier the company has had since (history)
    failed       \* the checkouts for whose event a transaction failed (history)

billVars == <<tier, checkout, paid, answered, bReq, bills, given, had, failed>>

\* _TIER_DEFAULTS; a checkout may ask for any string.
PlanTiers == {"free", "pro", "enterprise"}
AskedTiers == PlanTiers \cup {"unknown"}

ASSUME TierAssumption == None \notin AskedTiers

BillSession == [of : Checkouts \cup {None}, read : PlanTiers \cup {None}, new : PlanTiers]

BillTypeOK ==
    /\ tier \in PlanTiers \cup {None}
    /\ checkout \in [Checkouts -> [plan_tier : AskedTiers, price : {"pro", "enterprise"}] \cup {None}]
    /\ paid \subseteq Checkouts /\ answered \subseteq paid
    /\ bReq \in [BillRequests -> BillSession \cup {None}]
    /\ bills \in 0 .. MaxBills
    /\ given \subseteq PlanTiers /\ had \subseteq paid /\ failed \subseteq paid

BillInit ==
    /\ tier = None
    /\ checkout = [c \in Checkouts |-> None] /\ paid = {} /\ answered = {}
    /\ bReq = [q \in BillRequests |-> None] /\ bills = 0
    /\ given = {} /\ had = {} /\ failed = {}

-----------------------------------------------------------------------------
\* Everything but "enterprise" costs what "pro" costs.
Price(asked) == IF asked = "enterprise" THEN "enterprise" ELSE "pro"

\* create_checkout: the tier asked for goes into the metadata as it is.
CreateCheckout(c) ==
    /\ checkout[c] = None
    /\ \E asked \in AskedTiers :
        checkout' = [checkout EXCEPT ![c] = [plan_tier |-> asked, price |-> Price(asked)]]
    /\ UNCHANGED <<tier, paid, answered, bReq, bills, given, had, failed>>

PaysFor(c, now) == checkout[c].plan_tier = now

\* The company pays at Stripe, for a tier it may have already.
Pay(c) ==
    /\ checkout[c] # None /\ c \notin paid
    /\ paid' = paid \cup {c}
    /\ had' = IF PaysFor(c, tier) THEN had \cup {c} ELSE had
    /\ UNCHANGED <<tier, checkout, answered, bReq, bills, given, failed>>

-----------------------------------------------------------------------------
\* Mutant: every subscription is a pro one.
TierDefault(c) == "pro"
TierPaid(c) == checkout[c].plan_tier

\* A request has read the plan, and has a tier to write.
BillBegins(q, of, new) ==
    /\ bReq[q] = None /\ bills < MaxBills
    /\ bills' = bills + 1
    /\ bReq' = [bReq EXCEPT ![q] = [of |-> of, read |-> tier, new |-> new]]
    /\ UNCHANGED <<tier, checkout, paid, answered, given, had, failed>>

\* stripe_webhook, on an event of c that Stripe sends for the first time or again.
Receive(q, c) == c \in paid /\ TierPaid(c) \in PlanTiers /\ BillBegins(q, c, TierPaid(c))

\* upsert_plan raises on an unknown tier; the exception is swallowed.
ReceiveUnknown(c) ==
    /\ c \in paid /\ TierPaid(c) \notin PlanTiers
    /\ answered' = answered \cup {c}
    /\ UNCHANGED <<tier, checkout, paid, bReq, bills, given, had, failed>>

\* update_plan, update_company_plan; on an unknown tier they are refused.
SetPlan(q) == \E new \in PlanTiers : BillBegins(q, None, new)

\* The row's constraint is unique: the second insert fails.  An update whose value is
\* the one read writes nothing.
Writable(s) == s.read = None => tier = None
TierLeft(s) == IF s.new = s.read THEN tier ELSE s.new

EventOf(s) == {s.of} \ {None}

\* The process may die between the commit and the answer.
CommitBill(q) ==
    /\ bReq[q] # None /\ Writable(bReq[q])
    /\ LET s == bReq[q] IN
        /\ tier' = TierLeft(s)
        /\ had' = had \cup {c \in paid : PaysFor(c, tier')}
        /\ given' = IF s.of = None THEN given \cup {s.new} ELSE given
        /\ answered' \in {answered, answered \cup EventOf(s)}
    /\ bReq' = [bReq EXCEPT ![q] = None]
    /\ UNCHANGED <<checkout, paid, bills, failed>>

\* The insert or the commit fails: stripe_webhook swallows it, and answers 200.
FailBill(q) ==
    /\ bReq[q] # None
    /\ answered' = answered \cup EventOf(bReq[q])
    /\ failed' = failed \cup EventOf(bReq[q])
    /\ bReq' = [bReq EXCEPT ![q] = None]
    /\ UNCHANGED <<tier, checkout, paid, bills, given, had>>

\* The process dies before either.
CrashBill(q) ==
    /\ bReq[q] # None
    /\ bReq' = [bReq EXCEPT ![q] = None]
    /\ UNCHANGED <<tier, checkout, paid, answered, bills, given, had, failed>>

BillNext ==
    \/ \E c \in Checkouts : CreateCheckout(c) \/ Pay(c) \/ ReceiveUnknown(c)
    \/ \E q \in BillRequests :
        \/ \E c \in Checkouts : Receive(q, c)
        \/ SetPlan(q) \/ CommitBill(q) \/ FailBill(q) \/ CrashBill(q)

BillSpec == BillInit /\ [][BillNext]_billVars

-----------------------------------------------------------------------------
\* A payment Stripe will not tell of again has had its effect: the company has been in
\* the tier since it paid, however often and in whatever order events came, and whatever
\* administrators set meanwhile.  Only a tier that does not exist, and a transaction that
\* failed under an answer of 200, are exceptions.
PaymentHonoured ==
    \A c \in answered : TierPaid(c) \in PlanTiers /\ c \notin failed => c \in had

\* No event, however old, puts the company into a tier that nobody paid for or set, and
\* an enterprise plan that nobody set has been paid for at its price.
TierPaidFor ==
    /\ tier \in {None} \cup given \cup {TierPaid(c) : c \in paid}
    /\ tier = "enterprise" /\ tier \notin given =>
         \E c \in paid : checkout[c].price = "enterprise"

\* What a company pays for and the plan it is on agree.
BillingAgrees == PaymentHonoured /\ TierPaidFor
=============================================================================
