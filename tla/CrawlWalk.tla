----------------------------- MODULE CrawlWalk -----------------------------
(***************************************************************************)
(* How a crawl agent walks a site: the tools of agents/tool_registry.py    *)
(* that move the browser or say where it has been.  The language model     *)
(* issues one or more tool calls a turn; the calls of a turn run           *)
(* concurrently, on one page and one working memory, and the next turn     *)
(* begins when all of them have answered.  Which calls a turn makes is the *)
(* model's choice.                                                         *)
(***************************************************************************)
EXTENDS Sessions, Integers, FiniteSets

CONSTANTS
    Urls,           \* the URLs of the site and of the servers it redirects to
    Leads,          \* Leads[u]: the URL the browser shows after u, redirects followed
    LinksOf,        \* LinksOf[u]: the hrefs on the page shown as u
    Base,           \* Base[u]: u without its query string
    Origin,         \* Origin[u]: u's scheme, host and port
    StartsWith,     \* StartsWith[u]: the origins u starts with, as text; its own is one
    Tiles,          \* the URLs the tiles of a SAP Fiori launchpad open
    Calls,          \* tool calls that a turn can make at the same time
    MaxLinks,       \* get_unvisited_links' argument
    MaxTurns        \* bound on the turns (TLC)

ASSUME WalkAssumption ==
    /\ Leads \in [Urls -> Urls] /\ LinksOf \in [Urls -> SUBSET Urls] /\ Tiles \subseteq Urls
    /\ \A u \in Urls : IsFiniteSet(LinksOf[u])
    /\ DOMAIN Base = Urls /\ DOMAIN Origin = Urls /\ DOMAIN StartsWith = Urls
    /\ \A u \in Urls : Origin[u] \in StartsWith[u]
    /\ None \notin Urls /\ MaxLinks \in Nat \ {0} /\ MaxTurns \in Nat

VARIABLES
    shown,      \* page.url
    visited,    \* the set visited_urls of the working memory
    tiles,      \* sap_tile_groups of the working memory
    call,       \* call[k]: the tool call in progress in slot k, None when it has answered
    told,       \* what the last get_unvisited_links answered, None before
    turns,      \* turns so far
    loads,      \* the URLs navigate_to_url has moved to, as a sequence of sets (history):
                \* loads[n] are those opened at least n times
    reopens     \* URLs that two calls of one turn were sent to, or whose goto raised
                \* when the page had moved (history)

walkVars == <<shown, visited, tiles, call, told, turns, loads, reopens>>

Kinds == {"navigate", "login", "tiles", "launch", "links"}
ToolCall == [kind : Kinds, url : Urls \cup {None}, at : {"begun", "waiting"}, origin : Urls \cup {None}]

WalkTypeOK ==
    /\ shown \in Urls \cup {None}
    /\ visited \subseteq Urls /\ tiles \subseteq Tiles
    /\ call \in [Calls -> ToolCall \cup {None}]
    /\ told # None =>
         told.links \subseteq Urls /\ told.page \in Urls /\ told.left \subseteq Urls
    /\ turns \in 0 .. MaxTurns
    /\ loads \in [1 .. 2 -> SUBSET Urls] /\ reopens \subseteq Urls

\* run_agent empties visited_urls; the pool's page is blank.
WalkInit ==
    /\ shown = None /\ visited = {} /\ tiles = {}
    /\ call = [k \in Calls |-> None]
    /\ told = None /\ turns = 0
    /\ loads = [n \in 1 .. 2 |-> {}] /\ reopens = {}

-----------------------------------------------------------------------------
Begun(kind, url) == [kind |-> kind, url |-> url, at |-> "begun", origin |-> None]
NewCalls ==
    {Begun("navigate", u) : u \in Urls} \cup {Begun("launch", u) : u \in Tiles}
        \cup {Begun(kind, None) : kind \in {"login", "tiles", "links"}}

\* The model's answer: some tool calls.
TurnBegins ==
    /\ \A k \in Calls : call[k] = None
    /\ turns < MaxTurns
    /\ turns' = turns + 1
    /\ call' \in [Calls -> NewCalls \cup {None}]
    /\ reopens' = reopens \cup {u \in Urls : \E k, l \in Calls :
                                    k # l /\ call'[k] = Begun("navigate", u) /\ call'[l] = call'[k]}
    /\ UNCHANGED <<shown, visited, tiles, told, loads>>

At(k, kind, where) == call[k] # None /\ call[k].kind = kind /\ call[k].at = where
Waits(k) == call' = [call EXCEPT ![k].at = "waiting"]
Answers(k) == call' = [call EXCEPT ![k] = None]

\* navigate_to_url, up to the goto: a URL in visited_urls is not opened again.
MayOpen(u) == u \notin visited

NavigateChecks(k) ==
    /\ At(k, "navigate", "begun")
    /\ IF MayOpen(call[k].url) THEN Waits(k) ELSE Answers(k)
    /\ UNCHANGED <<shown, visited, tiles, told, turns, loads, reopens>>

\* Mutant: the URL the browser ended on is remembered.
RememberShown(u) == visited \cup {Leads[u]}
\* The requested URL is remembered, wherever it led.
RememberAsked(u) == visited \cup {u}

\* The page moves to u.
MovesTo(u) ==
    /\ shown' = Leads[u]
    /\ loads' = [n \in 1 .. 2 |-> loads[n] \cup (IF n = 1 \/ u \in loads[n - 1] THEN {u} ELSE {})]

\* The goto has loaded the page ...
NavigateLoads(k) ==
    /\ At(k, "navigate", "waiting")
    /\ MovesTo(call[k].url)
    /\ visited' = RememberAsked(call[k].url)
    /\ Answers(k)
    /\ UNCHANGED <<tiles, told, turns, reopens>>

\* ... or raises, before or after the page has moved: a timeout, or another navigation.
NavigateRaises(k) ==
    /\ At(k, "navigate", "waiting")
    /\ \/ UNCHANGED <<shown, loads, reopens>>
       \/ MovesTo(call[k].url) /\ reopens' = reopens \cup {call[k].url}
    /\ Answers(k)
    /\ UNCHANGED <<visited, tiles, told, turns>>

\* handle_sap_fiori_login: the form is submitted and leads anywhere, or is not found.
SapLogin(k) ==
    /\ At(k, "login", "begun") /\ shown # None
    /\ shown' \in {shown} \cup {Leads[u] : u \in Urls}
    /\ Answers(k)
    /\ UNCHANGED <<visited, tiles, told, turns, loads, reopens>>

\* discover_sap_fiori_tiles, on a launchpad; elsewhere the wait for a tile raises.
DiscoverTiles(k) ==
    /\ At(k, "tiles", "begun")
    /\ shown # None /\ LinksOf[shown] \cap Tiles # {}
    /\ tiles' = LinksOf[shown] \cap Tiles
    /\ Answers(k)
    /\ UNCHANGED <<shown, visited, told, turns, loads, reopens>>

\* launch_sap_fiori_app: the tile is clicked if the page has it ...
LaunchClicks(k) ==
    /\ At(k, "launch", "begun")
    /\ IF shown # None /\ call[k].url \in LinksOf[shown]
       THEN shown' = Leads[call[k].url] /\ Waits(k)
       ELSE Answers(k) /\ UNCHANGED shown
    /\ UNCHANGED <<visited, tiles, told, turns, loads, reopens>>

\* ... and the URL the page has by the time it is quiet is remembered.
LaunchSettles(k) ==
    /\ At(k, "launch", "waiting")
    /\ visited' = visited \cup {shown}
    /\ Answers(k)
    /\ UNCHANGED <<shown, tiles, told, turns, loads, reopens>>

\* get_unvisited_links reads the origin of the page ...
LinksOrigin(k) ==
    /\ At(k, "links", "begun")
    /\ IF shown = None THEN Answers(k)
       ELSE call' = [call EXCEPT ![k] = [@ EXCEPT !.at = "waiting", !.origin = shown]]
    /\ UNCHANGED <<shown, visited, tiles, told, turns, loads, reopens>>

\* The test of get_unvisited_links: the link's text starts with the origin's.
SameOrigin(links, page) == {h \in links : Origin[page] \in StartsWith[h]}

Unvisited(links) == links \ visited

\* ... and then its links: of those that start with it and are not visited, the first of each
\* base, and the first MaxLinks of these.  The order is the document's.
LinksAnswered(k) ==
    /\ At(k, "links", "waiting")
    /\ LET links == IF shown = None THEN {} ELSE SameOrigin(LinksOf[shown], call[k].origin)
           left == Unvisited(links)
           bases == {Base[h] : h \in left}
           size == IF Cardinality(bases) < MaxLinks THEN Cardinality(bases) ELSE MaxLinks
       IN \E L \in SUBSET left :
            /\ Cardinality(L) = size /\ Cardinality({Base[h] : h \in L}) = size
            /\ told' = [links |-> L, page |-> call[k].origin, left |-> links \ visited]
    /\ Answers(k)
    /\ UNCHANGED <<shown, visited, tiles, turns, loads, reopens>>

\* Any other call that awaits the page may raise, and answers with the error.
CallRaises(k) ==
    /\ \E kind \in {"login", "tiles", "launch", "links"} : At(k, kind, "begun") \/ At(k, kind, "waiting")
    /\ Answers(k)
    /\ UNCHANGED <<shown, visited, tiles, told, turns, loads, reopens>>

WalkNext ==
    \/ TurnBegins
    \/ \E k \in Calls :
        \/ NavigateChecks(k) \/ NavigateLoads(k) \/ NavigateRaises(k) \/ SapLogin(k)
        \/ DiscoverTiles(k) \/ LaunchClicks(k) \/ LaunchSettles(k)
        \/ LinksOrigin(k) \/ LinksAnswered(k) \/ CallRaises(k)

WalkSpec == WalkInit /\ [][WalkNext]_walkVars

-----------------------------------------------------------------------------
\* A URL is opened twice only if two calls of one turn asked for it, or its goto raised when
\* the page had moved there: redirects, tiles and other failures do not matter
\* (navigate_to_url looks in visited_urls before the goto and adds after it).
OpenedOnce == loads[2] \subseteq reopens

\* What get_unvisited_links answers is a set of links that start with the origin it read,
\* one per base, none of them visited, and empty only when no such link is left on the page
\* ("Returns [] when crawl is complete"), though the page may move while it looks.
LinksHonest ==
    told # None =>
        /\ \A h \in told.links : Origin[told.page] \in StartsWith[h]
        /\ \A g, h \in told.links : Base[g] = Base[h] => g = h
        /\ told.links \subseteq told.left
        /\ told.links = {} => told.left = {}

\* The walk visits each URL once and hides no link.
WalkAccounted == OpenedOnce /\ LinksHonest
=============================================================================
