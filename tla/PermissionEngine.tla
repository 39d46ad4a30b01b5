--------------------------- MODULE PermissionEngine ---------------------------
(***************************************************************************)
(* crates/permissions: the engine's decision for one action call, as a     *)
(* function of what grants.toml says, who calls, and what was approved so  *)
(* far for this call.  Nothing here has state.                             *)
(*                                                                         *)
(* grants:  [deniedActions, deniedPermissions, services, serviceActions,   *)
(*           interfaceActions, runnerActions, granted, skip]               *)
(* call:    [action, requires, confirm, tool, runner, service, interface,  *)
(*           run, args, approval]; `requires` is the action's and its      *)
(*           tool's together, No stands for an absent tool, runner, ...    *)
(* approved: [permissions, runner_action, confirm]                         *)
(***************************************************************************)
EXTENDS Naturals

CONSTANTS
    Actions, Permissions, Tools, Runners, Services, Interfaces,
    Runs,           \* run ids
    Covers,         \* <<held, required>>: Permission::covers
    Denies,         \* <<denied, required>>: the same with the folder rule
    Unsupported,    \* permissions whose pattern check_grants rejects
    No              \* an absent identity

ASSUME CoversAssumption ==
    /\ Covers \subseteq Permissions \X Permissions
    /\ Covers \subseteq Denies
    /\ Unsupported \subseteq Permissions

ASSUME AbsentAssumption ==
    No \notin Tools \cup Runners \cup Services \cup Interfaces \cup Runs

Settings == {"human", "classifier", "nobody"}

Grants ==
    [deniedActions     : SUBSET Actions,
     deniedPermissions : SUBSET Permissions,
     services          : SUBSET Services,
     serviceActions    : [Services -> SUBSET Actions],
     interfaceActions  : [Interfaces -> SUBSET Actions],
     runnerActions     : [Runners -> SUBSET Actions],
     granted           : [Tools -> SUBSET Permissions],
     skip              : SUBSET Actions]

CallRecords ==
    [action : Actions, requires : SUBSET Permissions, confirm : BOOLEAN,
     tool : Tools \cup {No}, runner : Runners \cup {No},
     service : Services \cup {No}, interface : Interfaces \cup {No},
     run : Runs \cup {No}, args : Nat, approval : Settings]

Approvals ==
    [permissions : SUBSET Permissions, runner_action : BOOLEAN, confirm : BOOLEAN]

NothingApproved == [permissions |-> {}, runner_action |-> FALSE, confirm |-> FALSE]

-----------------------------------------------------------------------------
(* What grants.toml holds. *)

\* PermissionSet::contains
Held(held, r) == \E h \in held : <<h, r>> \in Covers

ToolGrants(g, c) == IF c.tool \in Tools THEN g.granted[c.tool] ELSE {}

\* check_grants: a granted or denied pattern that could never match is an
\* error, and the whole file does not load.
Loads(g) ==
    /\ g.deniedPermissions \cap Unsupported = {}
    /\ \A t \in Tools : g.granted[t] \cap Unsupported = {}

-----------------------------------------------------------------------------
(* The gates, in the order check_approved tries them. *)

DeniedAction(g, c) == c.action \in g.deniedActions

DeniedPermission(g, c) ==
    \E r \in c.requires, d \in g.deniedPermissions : <<d, r>> \in Denies

\* A service needs an entry; an empty allowlist does not constrain it.
ServiceRefuses(g, c) ==
    /\ c.service \in Services
    /\ \/ c.service \notin g.services
       \/ /\ g.serviceActions[c.service] # {}
          /\ c.action \notin g.serviceActions[c.service]

\* An interface needs no entry.
InterfaceRefuses(g, c) ==
    /\ c.interface \in Interfaces
    /\ g.interfaceActions[c.interface] # {}
    /\ c.action \notin g.interfaceActions[c.interface]

Blocked(g, c) ==
    \/ DeniedAction(g, c)
    \/ DeniedPermission(g, c)
    \/ ServiceRefuses(g, c)
    \/ InterfaceRefuses(g, c)

\* A runner's allowlist is default-deny.
RunnerUnlisted(g, c) ==
    c.runner \in Runners /\ c.action \notin g.runnerActions[c.runner]

Lacks(g, c, held) ==
    {r \in c.requires : ~ Held(ToolGrants(g, c) \cup held, r)}

ConfirmGated(g, c) == c.confirm /\ c.action \notin g.skip

Decisions ==
    {"Allow", "Denial", "Service", "Interface", "Runner", "Tool", "Confirm"}

CheckApproved(g, c, approved) ==
    IF DeniedAction(g, c) \/ DeniedPermission(g, c) THEN "Denial"
    ELSE IF ServiceRefuses(g, c) THEN "Service"
    ELSE IF InterfaceRefuses(g, c) THEN "Interface"
    ELSE IF RunnerUnlisted(g, c) /\ ~ approved.runner_action THEN "Runner"
    ELSE IF Lacks(g, c, approved.permissions) # {} THEN "Tool"
    ELSE IF ConfirmGated(g, c) /\ ~ approved.confirm THEN "Confirm"
    ELSE "Allow"

\* Decision::is_escalatable
Escalatable == {"Runner", "Tool", "Confirm"}
=============================================================================
