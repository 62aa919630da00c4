----------------------------- MODULE MCPlatform -----------------------------
(***************************************************************************)
(* The components around the agents and the content, for TLC: crawls and   *)
(* their browsers, a crawl's walk through a site, invitations and the      *)
(* checklist, a system's manager, the plans of the scheduler and the       *)
(* interval of cron expressions, and the payments for a plan.  They share  *)
(* no row that both sides write, so each is explored alone: part, chosen   *)
(* at the start, is the component that moves.                              *)
(***************************************************************************)
EXTENDS Crawls, CrawlWalk, Invitations, Systems, JobPlans, CronExpressions, Billing, TLC

VARIABLE part

\* A site of three pages, one of which redirects, that links to a server whose name begins
\* with its own, which links back; the app is also a tile.
WalkUrls == {"home", "home?", "app", "near"}
WalkLeads == [u \in WalkUrls |-> IF u = "home?" THEN "app" ELSE u]
WalkLinks == [u \in WalkUrls |-> CASE u = "home" -> {"home?", "app", "near"}
                                   [] u = "app" -> {"home", "home?"} [] OTHER -> {"home"}]
WalkBase == [u \in WalkUrls |-> IF u = "home?" THEN "home" ELSE u]
WalkOrigin == [u \in WalkUrls |-> IF u = "near" THEN "server1+" ELSE "server1"]
WalkStartsWith == [u \in WalkUrls |-> IF u = "near" THEN {"server1", "server1+"} ELSE {"server1"}]
WalkTiles == {"app"}

\* Jobs that list a script twice, end in something that is no id, name a single script, or
\* take whatever is approved, with a script to fall back on or without one.
PlanConfigs ==
    {[auto |-> FALSE, script_ids |-> <<"s1", "s2", "s1">>, script_id |-> None],
     [auto |-> FALSE, script_ids |-> <<"s1", "s1", None>>, script_id |-> "s2"],
     [auto |-> FALSE, script_ids |-> <<>>, script_id |-> "s2"],
     [auto |-> TRUE, script_ids |-> <<>>, script_id |-> "s1"],
     [auto |-> TRUE, script_ids |-> <<"s2">>, script_id |-> None]}

\* Crawls, and the tool calls of a turn, are alike.
Alike == Permutations(Crawls) \cup Permutations(Calls)

mcVars == <<part, crawlVars, walkVars, joinVars, systemVars, planVars, cronVars, billVars>>

PlatformInit ==
    /\ part \in {"crawls", "walk", "joins", "system", "plans", "cron", "billing"}
    /\ IF part = "crawls" THEN CrawlInit ELSE CrawlInit /\ launched = None
    /\ WalkInit /\ JoinInit /\ PlanInit
    /\ IF part = "system" THEN SystemInit ELSE SystemInit /\ sys.manager = CHOOSE u \in Managers : TRUE
    /\ IF part = "cron" THEN CronInit ELSE CronInit /\ expression = FireTicks /\ clockTick = 0
    /\ BillInit

PlatformNext ==
    /\ UNCHANGED part
    /\ \/ /\ part = "crawls" /\ CrawlNext
          /\ UNCHANGED <<walkVars, joinVars, systemVars, planVars, cronVars, billVars>>
       \/ /\ part = "walk" /\ WalkNext
          /\ UNCHANGED <<crawlVars, joinVars, systemVars, planVars, cronVars, billVars>>
       \/ /\ part = "joins" /\ JoinNext
          /\ UNCHANGED <<crawlVars, walkVars, systemVars, planVars, cronVars, billVars>>
       \/ /\ part = "system" /\ SystemNext
          /\ UNCHANGED <<crawlVars, walkVars, joinVars, planVars, cronVars, billVars>>
       \/ /\ part = "plans" /\ PlanNext
          /\ UNCHANGED <<crawlVars, walkVars, joinVars, systemVars, cronVars, billVars>>
       \/ /\ part = "cron" /\ CronNext
          /\ UNCHANGED <<crawlVars, walkVars, joinVars, systemVars, planVars, billVars>>
       \/ /\ part = "billing" /\ BillNext
          /\ UNCHANGED <<crawlVars, walkVars, joinVars, systemVars, planVars, cronVars>>

PlatformSpec == PlatformInit /\ [][PlatformNext]_mcVars

\* Every variable of the seven components has its type.
PlatformTypeOK ==
    CrawlTypeOK /\ WalkTypeOK /\ JoinTypeOK /\ SystemTypeOK /\ PlanTypeOK /\ CronTypeOK /\ BillTypeOK

\* What a crawl does and what it leaves agree with what it reports: the committed job
\* with its rows and its run, a browser that is missing with a page that did not open,
\* and the pages it opened and was told of with the links there were (crawl_agent.py,
\* tool_registry.py's crawl tools).
CrawlAccounted == CommittedCrawlConsistent /\ LostOnlyInOpen /\ WalkAccounted
=============================================================================
