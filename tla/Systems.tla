------------------------------ MODULE Systems ------------------------------
(***************************************************************************)
(* One system, its manager and the SYSTEM_MANAGER roles scoped to it       *)
(* (services/system_service.py, routers/systems.py, with assign_role and   *)
(* revoke_role of services/user_service.py).                               *)
(***************************************************************************)
EXTENDS Sessions, Integers, FiniteSets

CONSTANTS
    Managers,        \* users of the company
    SystemRequests,  \* requests in progress at the same time
    MaxSystemEdits   \* bound on the requests in all (TLC)

ASSUME SystemAssumption == None \notin Managers /\ MaxSystemEdits \in Nat

VARIABLES
    sys,         \* the committed row
    holds,       \* holds[u]: the SYSTEM_MANAGER rows user u has on the system; whether a
                 \* row's expires_at has passed is not asked where these rows are read
    active,      \* the users whose account is active
    yReq,        \* yReq[q]: what request q has read and will write
    yEdits,      \* requests so far
    arranged     \* TRUE while the last change of manager or of such a role was an
                 \* assign_manager that nothing overlapped (history)

systemVars == <<sys, holds, active, yReq, yEdits, arranged>>

System == [manager : Managers, is_deleted : BOOLEAN]
Holding == [Managers -> Nat]
SystemSession == [read : System, new : System, held : Holding, loser : Managers, rows : Nat,
                  gains : SUBSET Managers, assigns : BOOLEAN, alone : BOOLEAN]

SystemTypeOK ==
    /\ sys \in System /\ holds \in Holding
    /\ active \subseteq Managers
    /\ yReq \in [SystemRequests -> SystemSession \cup {None}]
    /\ yEdits \in 0 .. MaxSystemEdits /\ arranged \in BOOLEAN

\* create_system: the manager is the one named or the creator, who gets no role row.
SystemInit ==
    /\ \E u \in Managers : sys = [manager |-> u, is_deleted |-> FALSE]
    /\ holds = [u \in Managers |-> 0]
    /\ active = Managers
    /\ yReq = [q \in SystemRequests |-> None] /\ yEdits = 0
    /\ arranged = FALSE

\* The rows as a request reads them, and no change: it may change the system's row, delete
\* role rows of one user, and give one to another.
AsRead == [read |-> sys, new |-> sys, held |-> holds, loser |-> sys.manager, rows |-> 0,
           gains |-> {}, assigns |-> FALSE, alone |-> TRUE]

SystemRequest(q, session) ==
    /\ yReq[q] = None /\ yEdits < MaxSystemEdits
    /\ yEdits' = yEdits + 1
    /\ yReq' = [yReq EXCEPT ![q] = session]
    /\ UNCHANGED <<sys, holds, active, arranged>>

SystemLoaded == ~sys.is_deleted

\* Mutant: the old manager's roles stay.
RevokesNone(new) == 0
\* The roles of the manager read are deleted, unless it is the new one.
RevokedFor(new) == IF sys.manager = new THEN 0 ELSE holds[sys.manager]

AssignManager(q) ==
    /\ SystemLoaded
    /\ \E u \in active :
        SystemRequest(q, [AsRead EXCEPT !.new.manager = u, !.rows = RevokedFor(u),
                              !.gains = IF holds[u] = 0 THEN {u} ELSE {}, !.assigns = TRUE])

\* update_system: the manager may be any user, and no role follows.
UpdateSystem(q) ==
    SystemLoaded /\ \E u \in Managers : SystemRequest(q, [AsRead EXCEPT !.new.manager = u])

\* delete_system; that it is refused while a cycle is planned or running is left out.
DeleteSystem(q) == SystemLoaded /\ SystemRequest(q, [AsRead EXCEPT !.new.is_deleted = TRUE])

\* assign_role, whatever the user holds, and revoke_role, of one role row on the system.
AssignSystemRole(q) == \E u \in Managers : SystemRequest(q, [AsRead EXCEPT !.gains = {u}])
RevokeSystemRole(q) ==
    \E u \in Managers :
        holds[u] > 0 /\ SystemRequest(q, [AsRead EXCEPT !.loser = u, !.rows = 1])

DeactivateManager ==
    /\ \E u \in active : active' = active \ {u}
    /\ UNCHANGED <<sys, holds, yReq, yEdits, arranged>>

\* How many of the rows that a session has found its DELETEs still meet: one that somebody
\* else has deleted is only warned about.
Met(s) == {n \in 0 .. s.rows : n <= holds[s.loser] /\ (s.alone => n = s.rows)}

CommitSystem(q) ==
    /\ yReq[q] # None
    /\ LET s == yReq[q] IN
        /\ sys' = Merge(sys, s.read, s.new)
        /\ \E n \in Met(s) :
             holds' = [u \in Managers |-> holds[u] - (IF u = s.loser THEN n ELSE 0)
                                                + (IF u \in s.gains THEN 1 ELSE 0)]
        /\ arranged' =
             IF s.assigns
             THEN s.alone /\ (arranged \/ \A u \in Managers \ {sys.manager} : holds[u] = 0)
             ELSE arranged /\ sys'.manager = sys.manager /\ holds' = holds
    /\ yReq' = [p \in SystemRequests |->
           IF p = q \/ yReq[p] = None THEN None ELSE [yReq[p] EXCEPT !.alone = FALSE]]
    /\ UNCHANGED <<active, yEdits>>

RollbackSystem(q) ==
    /\ yReq[q] # None
    /\ yReq' = [yReq EXCEPT ![q] = None]
    /\ UNCHANGED <<sys, holds, active, yEdits, arranged>>

SystemNext ==
    \/ \E q \in SystemRequests :
        \/ AssignManager(q) \/ UpdateSystem(q) \/ DeleteSystem(q)
        \/ AssignSystemRole(q) \/ RevokeSystemRole(q)
        \/ CommitSystem(q) \/ RollbackSystem(q)
    \/ DeactivateManager

SystemSpec == SystemInit /\ [][SystemNext]_systemVars

-----------------------------------------------------------------------------
\* After an assign_manager, the manager is the only one with a role row on the system,
\* until somebody edits the manager or a role directly; overlapping requests, and roles
\* that others held before, are exceptions (assign_manager, "Revokes any existing SM role
\* for the old manager on this system and grants the SM role to the new manager").
ManagerHoldsRole ==
    arranged => holds[sys.manager] > 0 /\ \A u \in Managers \ {sys.manager} : holds[u] = 0
=============================================================================
