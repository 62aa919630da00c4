---------------------------- MODULE Invitations ----------------------------
(***************************************************************************)
(* How one person joins one company: invitations and the onboarding        *)
(* checklist (routers/onboarding.py), the user row that signing in or      *)
(* accepting creates (auth/azure_ad.py), and the role an administrator may *)
(* give directly (services/user_service.py).                               *)
(*                                                                         *)
(* A request reads in one step and commits in another; in between others   *)
(* commit.  The database has one user row per e-mail address and one       *)
(* checklist per company (unique constraints), and nothing else.           *)
(***************************************************************************)
EXTENDS Sessions, Integers, FiniteSets

CONSTANTS
    InviteTokens,   \* invitations that may be sent to the person
    Milestones,     \* the flags of the checklist; "has_team_member" is one of them
    JoinRequests,   \* requests in progress at the same time
    MaxJoins        \* bound on the requests in all (TLC)

ASSUME JoinAssumption == "has_team_member" \in Milestones /\ MaxJoins \in Nat

VARIABLES
    invitation,  \* invitation[i]: its status, None before it is sent
    lapsed,      \* the invitations whose expires_at has passed; their status stays
    account,     \* the user row with the person's address, None before it exists
    grants,      \* the role rows the person holds for the invited role
    checklist,   \* the company's row, None before it exists
    jReq,        \* jReq[q]: what request q has read and will write
    joins,       \* requests so far
    uses,        \* uses[i]: how often i has been accepted (history)
    stale        \* which rows a request has written that had changed since it read
                 \* them, and "grant" if a role was given without looking (history)

joinVars == <<invitation, lapsed, account, grants, checklist, jReq, joins, uses, stale>>

InvitationStatus == {"pending", "accepted", "revoked"}
Account == [linked : BOOLEAN, is_active : BOOLEAN]
Checklist == [Milestones \cup {"completed_at"} -> BOOLEAN]

ASSUME NoneAssumption == None \notin InviteTokens \cup InvitationStatus \cup Account \cup Checklist

\* A session: the invitation, account and checklist rows as read and as they will be,
\* and the number of role rows it found and will add.
Nothing == [of |-> None, was |-> None, status |-> None, user |-> None, asUser |-> None,
            found |-> 0, adds |-> 0, list |-> None, asList |-> None, looked |-> TRUE]
Session == [of : InviteTokens \cup {None}, was : InvitationStatus \cup {None},
            status : InvitationStatus \cup {None}, user : Account \cup {None},
            asUser : Account \cup {None}, found : Nat, adds : {-1, 0, 1},
            list : Checklist \cup {None}, asList : Checklist \cup {None}, looked : BOOLEAN]

JoinTypeOK ==
    /\ invitation \in [InviteTokens -> InvitationStatus \cup {None}]
    /\ lapsed \subseteq InviteTokens
    /\ account \in Account \cup {None} /\ grants \in Nat
    /\ checklist \in Checklist \cup {None}
    /\ jReq \in [JoinRequests -> Session \cup {None}]
    /\ joins \in 0 .. MaxJoins
    /\ uses \in [InviteTokens -> Nat]
    /\ stale \subseteq InviteTokens \cup {"invited", "grant", "checklist"}

JoinInit ==
    /\ invitation = [i \in InviteTokens |-> None] /\ lapsed = {}
    /\ account = None /\ grants = 0 /\ checklist = None
    /\ jReq = [q \in JoinRequests |-> None] /\ joins = 0
    /\ uses = [i \in InviteTokens |-> 0] /\ stale = {}

\* Request q has read what is committed, and will write what session says.
JoinRequest(q, session) ==
    /\ jReq[q] = None /\ joins < MaxJoins
    /\ joins' = joins + 1
    /\ jReq' = [jReq EXCEPT ![q] = session]
    /\ UNCHANGED <<invitation, lapsed, account, grants, checklist, uses, stale>>

-----------------------------------------------------------------------------
(* Onboarding.                                                             *)

PendingTokens == {i \in InviteTokens : invitation[i] = "pending"}

NobodyInvited(tokens) == tokens = {}

\* create_invitation: with two pending ones it fails as well.
CreateInvitation(q) ==
    /\ NobodyInvited(PendingTokens)
    /\ \E i \in InviteTokens :
        /\ invitation[i] = None
        /\ \A p \in JoinRequests : jReq[p] # None => jReq[p].of # i
        /\ JoinRequest(q, [Nothing EXCEPT !.of = i, !.status = "pending"])

\* Mutant: only the expiry is looked at.
NotExpired(i) == i \notin lapsed
Usable(i) == invitation[i] = "pending" /\ i \notin lapsed

\* _get_or_create_onboarding
CurrentList == IF checklist = None THEN [c \in Milestones \cup {"completed_at"} |-> FALSE] ELSE checklist

\* Mutant: completeness is judged by the row as it was.
CompletedLate(was, row) == [row EXCEPT !["completed_at"] = @ \/ \A m \in Milestones : was[m]]
\* _check_and_complete
CheckAndComplete(was, row) == [row EXCEPT !["completed_at"] = @ \/ \A m \in Milestones : row[m]]

\* The flags of changes, the others as they are.
Advanced(changes) ==
    CheckAndComplete(CurrentList,
        [c \in DOMAIN CurrentList |-> IF c \in DOMAIN changes THEN changes[c] ELSE CurrentList[c]])

TeamJoined == [m \in {"has_team_member"} |-> TRUE]

\* Mutant: the role is given without a look at those the person has.
GrantAnyway(n) == 1
GrantMissing(n) == IF n = 0 THEN 1 ELSE 0

\* accept_invitation: the user found by address or created, the role unless it is there,
\* the invitation, the checklist.  A look-up that finds two role rows raises.
AcceptInvitation(q) ==
    \E i \in InviteTokens :
        /\ Usable(i) /\ grants <= 1
        /\ JoinRequest(q,
             [Nothing EXCEPT !.of = i, !.was = invitation[i], !.status = "accepted",
                 !.user = account,
                 !.asUser = IF account = None THEN [linked |-> FALSE, is_active |-> TRUE] ELSE account,
                 !.found = grants, !.adds = GrantMissing(grants),
                 !.list = checklist, !.asList = Advanced(TeamJoined)])

RevokeInvitation(q) ==
    \E i \in PendingTokens :
        JoinRequest(q, [Nothing EXCEPT !.of = i, !.was = "pending", !.status = "revoked"])

\* get_onboarding_status creates the row; patch_onboarding_status sets the flags it is
\* given, which may be none.
OnboardingStatus(q) ==
    checklist = None /\ JoinRequest(q, [Nothing EXCEPT !.asList = CurrentList])
PatchOnboarding(q) ==
    \E steps \in SUBSET Milestones : \E changes \in [steps -> BOOLEAN] :
        JoinRequest(q, [Nothing EXCEPT !.list = checklist, !.asList = Advanced(changes)])

Lapse ==
    /\ \E i \in InviteTokens \ lapsed : invitation[i] # None /\ lapsed' = lapsed \cup {i}
    /\ UNCHANGED <<invitation, account, grants, checklist, jReq, joins, uses, stale>>

-----------------------------------------------------------------------------
(* Users and their roles.                                                  *)

WritesAccount(row) == [Nothing EXCEPT !.user = account, !.asUser = row]

\* _get_or_create_user: by directory object, else by address; the row is linked to it.
SignIn(q) ==
    JoinRequest(q, WritesAccount(IF account = None THEN [linked |-> TRUE, is_active |-> TRUE]
                                 ELSE [account EXCEPT !.linked = TRUE]))

\* invite_user_with_role: a role row whatever the person already holds.
InviteWithRole(q) ==
    JoinRequest(q, [WritesAccount(IF account = None THEN [linked |-> FALSE, is_active |-> TRUE] ELSE account)
                        EXCEPT !.found = grants, !.adds = 1, !.looked = FALSE])
\* invite_user: no role.
InviteUser(q) == account = None /\ JoinRequest(q, WritesAccount([linked |-> FALSE, is_active |-> TRUE]))

\* assign_role, revoke_role, and deactivate_user (update_user may activate again).
AssignRole(q) ==
    account # None /\ JoinRequest(q, [Nothing EXCEPT !.found = grants, !.adds = 1, !.looked = FALSE])
RevokeRole(q) ==
    grants > 0 /\ JoinRequest(q, [Nothing EXCEPT !.found = grants, !.adds = -1])
SetActive(q) ==
    account # None /\ \E b \in BOOLEAN : JoinRequest(q, WritesAccount([account EXCEPT !.is_active = b]))

-----------------------------------------------------------------------------
\* Rows that two requests insert: the second one breaks the unique constraint.
Insertable(read, now) == read = None => now = None
Row(now, read, new) == IF new = None THEN now ELSE IF read = None THEN new ELSE Merge(now, read, new)

\* A DELETE of a role row that is gone is only warned about.
CommitJoin(q) ==
    /\ jReq[q] # None
    /\ LET s == jReq[q] IN
        /\ s.asUser # None => Insertable(s.user, account)
        /\ s.asList # None => Insertable(s.list, checklist)
        /\ invitation' = IF s.of = None THEN invitation ELSE [invitation EXCEPT ![s.of] = s.status]
        /\ account' = Row(account, s.user, s.asUser)
        /\ grants' = IF grants = 0 /\ s.adds = -1 THEN 0 ELSE grants + s.adds
        /\ checklist' = Row(checklist, s.list, s.asList)
        /\ uses' = IF s.status = "accepted" THEN [uses EXCEPT ![s.of] = @ + 1] ELSE uses
        /\ stale' = stale
             \cup {i \in {s.of} \ {None} : invitation[i] # s.was}
             \cup (IF s.status = "pending" /\ PendingTokens # {} THEN {"invited"} ELSE {})
             \cup (IF s.adds = 1 /\ (~s.looked \/ grants # s.found) THEN {"grant"} ELSE {})
             \cup (IF s.asList # None /\ s.list # checklist THEN {"checklist"} ELSE {})
    /\ jReq' = [jReq EXCEPT ![q] = None]
    /\ UNCHANGED <<lapsed, joins>>

RollbackJoin(q) ==
    /\ jReq[q] # None
    /\ jReq' = [jReq EXCEPT ![q] = None]
    /\ UNCHANGED <<invitation, lapsed, account, grants, checklist, joins, uses, stale>>

JoinNext ==
    \/ \E q \in JoinRequests :
        \/ CreateInvitation(q) \/ AcceptInvitation(q) \/ RevokeInvitation(q)
        \/ OnboardingStatus(q) \/ PatchOnboarding(q)
        \/ SignIn(q) \/ InviteWithRole(q) \/ InviteUser(q)
        \/ AssignRole(q) \/ RevokeRole(q) \/ SetActive(q)
        \/ CommitJoin(q) \/ RollbackJoin(q)
    \/ Lapse

JoinSpec == JoinInit /\ [][JoinNext]_joinVars

-----------------------------------------------------------------------------
\* An invitation is used at most once, and not at all once it is revoked; at most one is
\* pending.  Only requests that overlapped on the same invitation, or two invitations
\* sent at the same time, are exceptions (accept_invitation, revoke_invitation and
\* create_invitation check a status that they read without a lock).
InvitationSettlesOnce ==
    /\ \A i \in InviteTokens \ stale : uses[i] <= (IF invitation[i] = "accepted" THEN 1 ELSE 0)
    /\ Cardinality(PendingTokens) > 1 => "invited" \in stale

\* Invitations alone never give a role twice, though a person may be invited again after
\* each one: two rows make every later acceptance fail (accept_invitation, "idempotent —
\* skip if already has it").  Only a role given directly, or at the same time, does.
RoleHeldOnce == grants > 1 => "grant" \in stale

\* A checklist all of whose steps are done is completed, unless two requests changed it at
\* the same time: each then misses the step of the other (_check_and_complete).
ChecklistCompletes ==
    /\ checklist # None
    /\ \A m \in Milestones : checklist[m]
    /\ "checklist" \notin stale
    => checklist["completed_at"]

\* Joining settles: invitations, the role and the checklist.
JoiningSettles == InvitationSettlesOnce /\ RoleHeldOnce /\ ChecklistCompletes
=============================================================================
