------------------------------ MODULE MCWatching ------------------------------
(***************************************************************************)
(* An instance for TLC of what the service notices: startup entries and    *)
(* disk space, lines of log files, event logs, services and firewall, and  *)
(* the windows the tray sees.  The models share no variable, so a          *)
(* behaviour takes the steps of one of them, its focus; the others stay in *)
(* one initial state.                                                      *)
(***************************************************************************)
EXTENDS Scans, LogWatcher, EventLogs, SystemPoll, ScreenErrors, TLC

CONSTANTS alice, bob, nouser, own, common, spooler, domain, w1, outlook, popup

VARIABLE focus

\* Scans: whether a place counts, and whether the system may clean it.
MCPlaces == [size : 0..2, system : BOOLEAN]

\* One log of a user and one of the machine; the channels in order.
MCOwnerOf  == own :> alice @@ common :> NoOwner
MCChannels == <<"Application", "System">>

\* A component out of focus stays in one initial state.
MCInit ==
    /\ focus \in {"scans", "watcher", "logs", "poll", "screen"}
    /\ ScansInit /\ WatcherInit /\ LogsInit /\ PollInit /\ NoticedInit
    /\ focus # "scans"    => active = NoUser
    /\ focus # "watcher"  => signedIn = NoOwner /\ watched = {}
    /\ focus # "logs"     => platform = "windows" /\ clock = 0
    /\ focus # "screen"   => enabled

ScanSteps    == focus = "scans" /\ ScansNext /\ UNCHANGED <<focus, watcherVars, logVars, pollVars, noticedVars>>
WatcherSteps == focus = "watcher" /\ WatcherNext /\ UNCHANGED <<focus, scanVars, logVars, pollVars, noticedVars>>
LogSteps     == focus = "logs" /\ LogsNext /\ UNCHANGED <<focus, scanVars, watcherVars, pollVars, noticedVars>>
PollSteps    == focus = "poll" /\ PollNext /\ UNCHANGED <<focus, scanVars, watcherVars, logVars, noticedVars>>
ScreenSteps  == focus = "screen" /\ NoticedNext /\ UNCHANGED <<focus, scanVars, watcherVars, logVars, pollVars>>

MCNext == ScanSteps \/ WatcherSteps \/ LogSteps \/ PollSteps \/ ScreenSteps

MCSpec == MCInit /\ [][MCNext]_<<focus, scanVars, watcherVars, logVars, pollVars, noticedVars>>

=============================================================================
