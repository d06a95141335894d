------------------------------- MODULE MCDesktop -------------------------------
(***************************************************************************)
(* An instance for TLC of what the user has of the service: the pipe to    *)
(* it, Ask Eir and the settings.  The models share no variable, so a       *)
(* behaviour takes the steps of one of them, its focus; the others stay in *)
(* one initial state.                                                      *)
(***************************************************************************)
EXTENDS PipeLink, AskEir, Settings, TLC

CONSTANTS q1, q2, p1, nobody, r1, r2

VARIABLE focus

\* PipeLink: who may be at the other end.
MCTray == [unix |-> FALSE, portable |-> FALSE, active |-> TRUE, sameUser |-> TRUE,
               elevated |-> FALSE, image |-> "installed", uid |-> "other", gid |-> "other"]

MCClients ==
    {MCTray,
     [MCTray EXCEPT !.active = FALSE],
     [MCTray EXCEPT !.image = "beside"],
     [MCTray EXCEPT !.portable = TRUE, !.image = "beside"],
     [MCTray EXCEPT !.unix = TRUE],
     [MCTray EXCEPT !.unix = TRUE, !.uid = "root"],
     [MCTray EXCEPT !.unix = TRUE, !.gid = "listed"]}

MCService == [portable |-> FALSE, running |-> TRUE, changed |-> FALSE, sameUser |-> FALSE,
               elevated |-> TRUE, account |-> "system", image |-> "trusted"]

MCServers ==
    {MCService,
     [MCService EXCEPT !.changed = TRUE],
     [MCService EXCEPT !.account = "user"],
     [MCService EXCEPT !.portable = TRUE, !.sameUser = TRUE, !.elevated = FALSE,
                        !.image = "beside"]}

\* Settings: files found on disk, and what the settings page may send.
MCName(k, as, ok) == [key |-> k, as |-> as, ok |-> ok]
MCSystem == MCName("system", "System", TRUE)
MCWinget == MCName("winget", "winget", TRUE)
MCNote(txt, urls, size) == [txt |-> txt, urls |-> urls, within |-> {}, size |-> size]
MCNoteA == MCNote("a", {"u"}, 100)
MCNoteB == MCNote("b", {}, 20)
MCLongNote == MCNote("long", {"u"}, 2001)
MCBlankNote == MCNote("", {}, 0)
MCNotes == {MCNoteA, MCLongNote, MCBlankNote}
MCRewrites == {[MCNote("concise", {}, 60) EXCEPT !.within = {"u"}], MCNote("lossy", {}, 30)}
MCUpdaterCfg == [on |-> FALSE, every |-> 86400, methods |-> <<MCWinget>>, native |-> FALSE, signed |-> "valid",
            ignored |-> <<>>, notes |-> <<>>, proven |-> <<>>]
MCCfg == [api |-> [provider |-> "claude", model |-> <<"sonnet">>, check |-> <<>>, effort |-> "", path |-> ""],
            advisor |-> [on |-> TRUE, model |-> <<"opus">>, effort |-> "high", low |-> 60, chosenFor |-> "claude"],
            mon |-> [tick |-> 60, poll |-> 30, wmi |-> 60, conf |-> 80, channels |-> <<MCSystem>>, dirs |-> <<>>,
                     game |-> TRUE, watch |-> "on"],
            upd |-> MCUpdaterCfg]
MCLegacy == [MCCfg EXCEPT !.api.provider = "kilo", !.api.model = <<"llama">>, !.advisor.chosenFor = "kilo",
             !.mon.conf = -1, !.mon.tick = 1, !.mon.channels = <<MCName("security", "Security", FALSE), MCSystem, MCSystem>>,
             !.mon.dirs = <<MCName("net", "//net", FALSE), MCName("c:", "c:", TRUE)>>,
             !.upd.every = 1, !.upd.ignored = <<"tool", "toolx64">>,
             !.upd.notes = ("tool" :> MCNoteB), !.upd.proven = ("tool" :> MCNoteB)]
MCOlder == [MCLegacy EXCEPT !.api.provider = "openai_compatible", !.advisor.chosenFor = "openai_compatible"]
MCDisk(live, bak, tmp) == [live |-> live, bak |-> bak, tmp |-> tmp]
MCDisks == {MCDisk(MCCfg, Missing, Missing), MCDisk(MCLegacy, Torn, Torn), MCDisk(Torn, MCOlder, Missing)}
MCUpdate == [provider |-> "claude", model |-> <<"sonnet">>, check |-> <<>>, effort |-> "HIGH?", path |-> "p",
               tick |-> 5, poll |-> 30, wmi |-> 60, conf |-> 99, channels |-> <<MCSystem>>, dirs |-> <<>>,
               game |-> FALSE, watch |-> ""]
MCUpdates == {MCUpdate,
              [MCUpdate EXCEPT !.provider = "opencode", !.model = <<"llama">>, !.path = "", !.poll = 1],
              [MCUpdate EXCEPT !.channels = <<MCName("bad", "bad", FALSE)>>]}
MCAdvisor == {[on |-> TRUE, model |-> <<"opus">>, effort |-> "max", low |-> -1]}
MCUpdater == {[on |-> TRUE, every |-> 60, methods |-> <<MCName("pip", "pip", FALSE)>>, native |-> TRUE, signed |-> "none"]}
MCKin == [a \in {"tool", "toolx64"} |-> {"tool", "toolx64"} \ {a}]
MCLen == [a \in {"tool", "toolx64"} |-> IF a = "tool" THEN 4 ELSE 7]

\* A component out of focus stays in one initial state.
MCInit ==
    /\ focus \in {"pipe", "ask", "settings"}
    /\ LinkInit /\ AskInit /\ SettingsInit
    /\ focus # "settings" => files = MCDisk(MCCfg, Missing, Missing) /\ ~portable /\ ranBefore

PipeSteps     == focus = "pipe" /\ LinkNext /\ UNCHANGED <<focus, askVars, settingsVars>>
AskSteps      == focus = "ask" /\ AskNext /\ UNCHANGED <<focus, linkVars, settingsVars>>
SettingsSteps == focus = "settings" /\ SettingsNext /\ UNCHANGED <<focus, linkVars, askVars>>

MCNext == PipeSteps \/ AskSteps \/ SettingsSteps

MCSpec == MCInit /\ [][MCNext]_<<focus, linkVars, askVars, settingsVars>>

=============================================================================
