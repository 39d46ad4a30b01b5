---------------------------- MODULE MCActionCheck ----------------------------
(***************************************************************************)
(* Small instances of ActionCheck.  Each scenario is a set of calls with   *)
(* the grants that make their questions meet.                              *)
(***************************************************************************)
EXTENDS ActionCheck, TLC

CONSTANTS pull, push, read, net, git, bot, cron, web, r1, c1, c2, c3

MCActions     == {pull, push}
MCPermissions == {read, net}
MCTools       == {git}
MCRunners     == {bot}
MCServices    == {cron}
MCInterfaces  == {web}
MCRuns        == {r1}

Equal  == {<<p, p>> : p \in MCPermissions}

MCNothing == [deniedActions |-> {}, deniedPermissions |-> {}, services |-> {cron},
            serviceActions |-> [s \in MCServices |-> {}],
            interfaceActions |-> [i \in MCInterfaces |-> {}],
            runnerActions |-> [r \in MCRunners |-> {}],
            granted |-> [t \in MCTools |-> {}], skip |-> {}]
Granting(P)   == [MCNothing EXCEPT !.granted[git] = P]
NoPush        == [Granting({net}) EXCEPT !.deniedActions = {push}]
NoNet         == [Granting({read}) EXCEPT !.deniedPermissions = {net}]

Plain == [action |-> pull, requires |-> {read, net}, confirm |-> FALSE,
          tool |-> git, runner |-> No, service |-> No, interface |-> No,
          run |-> No, args |-> 0, approval |-> "human"]
\* A runner's call that raises all three questions.
Gated == [Plain EXCEPT !.action = push, !.confirm = TRUE, !.runner = bot, !.run = r1]

\* Two identical calls that raise all three questions.
Twins == c1 :> Gated @@ c2 :> Gated
\* Two identical calls of a run the classifier answers for, and a service's
\* call that nobody answers for.
Light  == [Plain EXCEPT !.run = r1, !.runner = bot, !.approval = "classifier"]
Silent == [Plain EXCEPT !.service = cron, !.interface = web, !.approval = "nobody"]
LightAndSilent == c1 :> Light @@ c2 :> Light @@ c3 :> Silent

OnlyNothing == {MCNothing}
MCFirst     == {MCNothing, Granting({net})}
MCEdits     == {NoPush, NoNet, Broken}
=============================================================================
