----------------------------- MODULE MCMaintenance -----------------------------
(***************************************************************************)
(* An instance for TLC of the components that maintain the machine: the    *)
(* updater's cycle, its check for candidates and its attempts at one app,  *)
(* the learning from what was done, and the registry's way back.  The      *)
(* models share no variable, so a behaviour takes the steps of one of      *)
(* them, its focus; the others stay in one initial state.                  *)
(***************************************************************************)
EXTENDS RegistryUndo, Updates, Healing, UpdateCheck, Learning, TLC

CONSTANTS absent, v1, v2, r1, r2

Symmetry == Permutations(Apps)

VARIABLE focus

\* UpdateCheck: what is registered and what the catalog offers.
MCVersion(nums, tag) == [nums |-> nums, tag |-> tag]
MCVersions == {MCVersion(<<1, 2, 3>>, ""), MCVersion(<<1, 2, 3>>, "beta"),
               MCVersion(<<1, 3>>, ""), MCVersion(<<1, 2, 3, 5>>, ""), Unknown}
MCBase == [a \in Packages |-> IF a = "vlc.install" THEN "vlc" ELSE a]
MCKin  == {<<"vlc", "vlc.install">>, <<"vlc.install", "vlc">>, <<"vlc", "ghost">>}
MCEntry(registered, row) == [registry |-> registered, row |-> row]
MCTwoRows  == [a \in Packages |-> IF a = "vlc" THEN MCEntry("user", "machine")
                                               ELSE MCEntry("both", "catalog")]
MCTwice    == [a \in Packages |-> IF a = "vlc" THEN MCEntry("none", "machine")
                                               ELSE MCEntry("twice", "machine")]
MCMachines == {MCTwoRows, MCTwice}
MCManagers == <<"winget", "choco">>

\* Healing: what the AI answers for an installer, what a candidate allows, what
\* a command prints.
MCGoodUrl == [https |-> TRUE, bare |-> TRUE, named |-> TRUE, host |-> <<"github", "com">>,
              repo |-> TRUE]
MCPlan == [parsed |-> TRUE, url |-> MCGoodUrl, kind |-> "exe", sha |-> "given",
           version |-> "reaches", inner |-> "none", silent |-> TRUE, publisher |-> TRUE,
           github |-> FALSE]
MCPlans ==
    {MCPlan,
     [MCPlan EXCEPT !.kind = "msi", !.silent = FALSE, !.sha = "none"],
     [MCPlan EXCEPT !.kind = "zip", !.inner = "safe", !.silent = FALSE],
     [MCPlan EXCEPT !.version = "below", !.github = TRUE],
     [MCPlan EXCEPT !.silent = FALSE],
     [MCPlan EXCEPT !.url.host = <<"brand", "evil", "com">>],
     [MCPlan EXCEPT !.url.host = <<"brand", "co", "uk">>, !.publisher = FALSE],
     [MCPlan EXCEPT !.sha = "malformed"]}
MCOffer(methods, known, slow) ==
    [methods |-> methods, id |-> known, target |-> known, ai |-> known, slow |-> slow]
MCOffers ==
    {MCOffer(<<"winget", "native">>, TRUE, {"winget"}), MCOffer(<<"winget", "native">>, TRUE, {}),
     [MCOffer(<<"choco", "native">>, TRUE, {}) EXCEPT !.target = FALSE], MCOffer(<<"msstore">>, FALSE, {}),
     MCOffer(<<"scoop">>, FALSE, {})}
MCMessages == {"hash", "signature", "modified", "reboot", "lock", "denied", "network",
               "current", "no_package"}
MCOutputs  == {{}} \cup {{m} : m \in MCMessages} \cup {{"modified", "no_package"}, {"hash", "lock"}}

\* Learning: fixes, outcomes of updates, and what earlier runs have left.
MCKill     == [type |-> "ProcessKill", label |-> "ProcessKill x", key |-> "process_kill|x", target |-> ""]
MCRestart  == [type |-> "ServiceRestart", label |-> "ServiceRestart s", key |-> "service_restart|s",
               target |-> "s"]
MCFirewall == [type |-> "FirewallEnable", label |-> "FirewallEnable all", key |-> "firewall_enable|all",
               target |-> ""]
MCActions  == {MCKill, MCRestart, MCFirewall}
MCAttempt(app, how, why, late) ==
    [app |-> app, method |-> how, ok |-> why = "", category |-> why, late |-> late]
MCAttempts ==
    {MCAttempt("tool", "choco", "", FALSE),
     MCAttempt("tool.install", "choco", "network_transient", TRUE),
     MCAttempt("tool", "native", "hash_mismatch", TRUE),
     MCAttempt("tool", "native", "installer_failed", FALSE)}
MCBaseOf == [a \in {"tool", "tool.install"} |-> "tool"]
MCOldFact(id, kind, subject, amount, status) ==
    [id |-> id, kind |-> kind, subject |-> subject, amount |-> amount, status |-> status,
     tried |-> FALSE, text |-> FALSE, basis |-> {}]
MCRow(n, c, row) == [n |-> n, cycle |-> c, row |-> row]
MCNothing == [attempts |-> {}, feedback |-> {}, rejections |-> {}, facts |-> {}]
MCSlow ==
    [MCNothing EXCEPT
        !.attempts   = {MCRow(1, -1, MCAttempt("tool.install", "choco", "network_transient", TRUE))},
        !.rejections = {[n |-> 1, subject |-> <<MCFirewall.key>>]}]
MCLearned ==
    [MCNothing EXCEPT
        !.attempts = {MCRow(1, 0, MCAttempt("tool", "native", "installer_failed", FALSE))},
        !.facts    = {MCOldFact(1, "self_updater", <<"tool">>, 0, "active")}]
MCFixed ==
    [MCNothing EXCEPT
        !.feedback   = {[n |-> 1, act |-> MCRestart, ok |-> TRUE, age |-> "settled", res |-> "no"]},
        !.rejections = {[n |-> 1, subject |-> <<MCRestart.key>>]},
        !.facts      = {MCOldFact(1, "fix", <<"ServiceRestart">>, 99, "active")}]
MCPinned ==
    [MCNothing EXCEPT !.facts = {MCOldFact(1, "rejected", <<MCRestart.key>>, 99, "user_pinned")}]
MCHistories == {MCSlow, MCLearned, MCFixed, MCPinned}

\* A component out of focus stays in one initial state.
MCInit ==
    /\ focus \in {"registry", "cycle", "healing", "check", "learning"}
    /\ Init /\ UpdatesInit /\ HealingInit /\ CheckInit /\ LearnInit
    /\ focus # "registry" => value = absent
    /\ focus # "check"    => machine = MCTwice /\ \A a \in Packages : version[a] = Unknown
    /\ focus # "learning" => facts = {MCOldFact(1, "self_updater", <<"tool">>, 0, "active")}

\* A third cycle only of those without an edit or without a fault.
CycleBound == edits + faults <= 1 \/ runs <= 2

RegistrySteps == focus = "registry" /\ Next /\ UNCHANGED <<focus, updVars, healVars, checkVars, learnVars>>
CycleSteps    == focus = "cycle" /\ UpdatesNext /\ CycleBound' /\ UNCHANGED <<focus, vars, healVars, checkVars, learnVars>>
HealingSteps  == focus = "healing" /\ HealingNext /\ UNCHANGED <<focus, vars, updVars, checkVars, learnVars>>
CheckSteps    == focus = "check" /\ CheckNext /\ UNCHANGED <<focus, vars, updVars, healVars, learnVars>>
LearningSteps == focus = "learning" /\ LearnNext /\ UNCHANGED <<focus, vars, updVars, healVars, checkVars>>

MCNext == RegistrySteps \/ CycleSteps \/ HealingSteps \/ CheckSteps \/ LearningSteps

MCSpec == MCInit /\ [][MCNext]_<<focus, vars, updVars, healVars, checkVars, learnVars>>

=============================================================================
