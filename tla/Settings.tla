------------------------------ MODULE Settings ------------------------------
(***************************************************************************)
(* The settings of the service (config.rs, updater/config.rs and their     *)
(* handlers in main.rs).  A handler copies the configuration, applies the  *)
(* request to the copy, writes the copy to disk and only then adopts it.   *)
(* The write goes through a backup and a temporary file, so the service    *)
(* can be killed at any step of it; the next start reads what is left.     *)
(*                                                                         *)
(* A configuration is [api, advisor, mon, upd].  A name of a list is a     *)
(* record [key, as, ok]: its folded form ("" for a blank), its spelling    *)
(* and whether it is acceptable.  A note is [txt, urls, within, size]: the *)
(* URLs among its words, and those its text only contains.  A model is a   *)
(* sequence: <<>> is none, <<m>> a bare id, <<p, m>> one with provider.    *)
(***************************************************************************)
EXTENDS Integers, Sequences, FiniteSets, Sifting

CONSTANTS
    Disks,              \* what may be on disk at first: [live, bak, tmp]
    Updates, AdvisorUpdates, UpdaterUpdates, \* what the user may send
    NotedApps, Notes, Rewrites, \* apps, notes of the user, texts of the provider
    KinOf, CompactLen,  \* app |-> apps with a close name, app |-> compact length
    ChannelCap, DirCap, NoteCap, IgnoreCap, NoteChars,
    NoClient,           \* the AI client could not be built
    MaxCommands, MaxStarts

ASSUME SettingsAssumption ==
    /\ {ChannelCap, DirCap, NoteCap, IgnoreCap, NoteChars, MaxCommands} \subseteq Nat \ {0}
    /\ MaxStarts \in Nat /\ IsFiniteSet(NotedApps)

VARIABLES
    cfg, draft,  \* the configuration in force, the copy being saved
    files,       \* [live, bak, tmp]: config.toml, config.toml.bak, config.toml.tmp
    saving,      \* the step of the save under way
    saveFor,     \* [for, id, restart]: what the save is for
    said,        \* the answer to the last command
    running,     \* the service runs
    portable,    \* ... and was started by the portable tray
    inUse,       \* [ai, tick, conf]: what the loop works with
    shownError,  \* st.error: none, noai or other
    nextRun,     \* [from, every]: when the next update cycle is due
    ranBefore,   \* last_run > 0
    listed,      \* the rows of Updates Available
    guided,      \* the guided retries under way: at most one [id, note]
    worked,      \* history: app, URLs of a guidance that made its update succeed
    commands, starts

diskVarsOf == <<files, saving>>
loopVars == <<inUse, shownError, nextRun, ranBefore, listed>>
guideVars == <<guided, worked>>
settingsVars == <<cfg, draft, diskVarsOf, saveFor, said, running, portable, loopVars, guideVars, commands, starts>>

-----------------------------------------------------------------------------
(* Checking and bounding of values *)

Clamp(x, lo, hi) == IF x < lo THEN lo ELSE IF x > hi THEN hi ELSE x

\* finite_or: percentages; NotFinite stands for NaN and the infinities.
NotFinite == -1
FiniteOr(x, lo, hi, default) == IF x = NotFinite THEN default ELSE Clamp(x, lo, hi)

Week == 604800
Year == 31536000
Efforts == {"low", "medium", "high", "xhigh", "max"}
Effort(e) == IF e \in Efforts THEN e ELSE ""

Named(s) == Sifted(s, {i \in DOMAIN s : s[i].key # ""})
Safe(s) == Sifted(s, {i \in DOMAIN s : s[i].ok})

\* The first spelling of a name is kept.
Distinct(s) == Sifted(s, {i \in DOMAIN s : \A k \in 1 .. i - 1 : s[k].key # s[i].key})

First(s, n) == SubSeq(s, 1, Clamp(Len(s), 0, n))

\* normalize_event_log_channels and normalize_log_directories refuse a request
\* with too many names or a name that is not acceptable.
Refuses(s, cap) == Len(s) > cap \/ Safe(Named(s)) # Named(s)
Normal(s) == Distinct(Named(s))

\* A file is not refused: what is not acceptable is dropped.
LoadedChannels(s) == Distinct(Safe(Named(First(s, ChannelCap))))
LoadedDirs(s) == First(Distinct(Safe(Named(s))), DirCap)

\* sanitize_notes: the first entries that are acceptable.
Fewest(S, n) == CHOOSE T \in SUBSET S : Cardinality(T) = Clamp(Cardinality(S), 0, n)
Only(f, S) == [x \in S |-> f[x]]
LoadedNotes(f) ==
    Only(f, Fewest({a \in DOMAIN f : f[a].size \in 1 .. NoteChars}, NoteCap))

\* sanitize_methods: the known package managers, in the order given.
SafeMethods(s) == Distinct(Safe(s))

\* sanitize of updater/config.rs; a proven note is dropped when the note differs.
LoadedUpdater(u) ==
    LET notes == LoadedNotes(u.notes)
        proven == LoadedNotes(u.proven)
    IN  [u EXCEPT !.every = Clamp(@, 300, Year), !.methods = SafeMethods(@),
                  !.ignored = First(@, IgnoreCap), !.notes = notes,
                  !.proven = Only(proven, {a \in DOMAIN proven \cap DOMAIN notes : proven[a] = notes[a]})]

\* A bare id was a model of the provider Ollama, which OpenCode now serves.
Prefixed(m) == IF Len(m) = 1 THEN <<"ollama">> \o m ELSE m

\* The providers, and the one a name stands for: older builds had others.
Providers == {"opencode", "claude", "codex", "cursor"}
OldClaude == {"anthropic", "openai_compatible", "open_ai_compatible"}
Provider(name) ==
    IF name \in Providers THEN name ELSE IF name \in OldClaude THEN "claude" ELSE "opencode"

LoadedModels(a) ==
    IF a.provider = "opencode" THEN [a EXCEPT !.model = Prefixed(@), !.check = Prefixed(@)] ELSE a
LoadedApi(a) == LoadedModels([a EXCEPT !.provider = Provider(@)])

LoadedMonitoring(m) ==
    [m EXCEPT !.channels = LoadedChannels(@), !.dirs = LoadedDirs(@),
              !.tick = Clamp(@, 10, Week), !.poll = Clamp(@, 5, Week), !.wmi = Clamp(@, 30, Week),
              !.conf = FiniteOr(@, 50, 95, 80)]

SanitizeLoaded(c) ==
    [api |-> LoadedApi(c.api), mon |-> LoadedMonitoring(c.mon), upd |-> LoadedUpdater(c.upd),
     advisor |-> [c.advisor EXCEPT !.low = FiniteOr(@, 0, 95, 60)]]

\* A file that does not parse, and no file: neither has a configuration's fields.
Torn    == [torn |-> TRUE]
Missing == [missing |-> TRUE]

\* load: the backup stands in for a live file that does not parse.
Parses(f) == f \notin {Torn, Missing}
Loadable(fs) == Parses(fs.live) \/ (fs.live = Torn /\ Parses(fs.bak))
Load(fs) == SanitizeLoaded(IF Parses(fs.live) THEN fs.live ELSE fs.bak)

\* A configuration in memory or in a file that parses: all its fields, with
\* lists, numbers and notes where they are.
IsSeq(s) == s \in Seq({s[i] : i \in DOMAIN s})
AreNotes(f) == f = [a \in DOMAIN f |-> f[a]] /\ DOMAIN f \subseteq NotedApps

CompleteApi(a) ==
    /\ a = [provider |-> a.provider, model |-> a.model, check |-> a.check,
            effort |-> a.effort, path |-> a.path]
    /\ IsSeq(a.model) /\ IsSeq(a.check)

CompleteAdvisor(a) ==
    /\ a = [on |-> a.on, model |-> a.model, effort |-> a.effort, low |-> a.low,
            chosenFor |-> a.chosenFor]
    /\ a.low \in Int

CompleteMon(m) ==
    /\ m = [tick |-> m.tick, poll |-> m.poll, wmi |-> m.wmi, conf |-> m.conf,
            channels |-> m.channels, dirs |-> m.dirs, game |-> m.game, watch |-> m.watch]
    /\ {m.tick, m.poll, m.wmi, m.conf} \subseteq Int
    /\ IsSeq(m.channels) /\ IsSeq(m.dirs)

CompleteUpd(u) ==
    /\ u = [on |-> u.on, every |-> u.every, methods |-> u.methods, native |-> u.native,
            signed |-> u.signed, ignored |-> u.ignored, notes |-> u.notes, proven |-> u.proven]
    /\ u.every \in Int /\ IsSeq(u.methods) /\ IsSeq(u.ignored)
    /\ AreNotes(u.notes) /\ AreNotes(u.proven)

Complete(c) ==
    /\ c = [api |-> c.api, advisor |-> c.advisor, mon |-> c.mon, upd |-> c.upd]
    /\ CompleteApi(c.api) /\ CompleteAdvisor(c.advisor) /\ CompleteMon(c.mon) /\ CompleteUpd(c.upd)

\* The escalation model was chosen for the provider of the configuration, by
\* whichever of its names.
ModelFits(c) == c.advisor.model # <<>> => Provider(c.advisor.chosenFor) = Provider(c.api.provider)

\* What a file holds and a request carries: a file was written by the service.
ASSUME SettingsInputs ==
    /\ \A d \in Disks :
          /\ d = [live |-> d.live, bak |-> d.bak, tmp |-> d.tmp]
          /\ \A f \in {d.live, d.bak} : Parses(f) => Complete(f) /\ ModelFits(f)
    /\ \A u \in Updates :
          /\ {u.tick, u.poll, u.wmi, u.conf} \subseteq Int
          /\ IsSeq(u.model) /\ IsSeq(u.check) /\ IsSeq(u.channels) /\ IsSeq(u.dirs)
    /\ \A u \in AdvisorUpdates : u.low \in Int
    /\ \A u \in UpdaterUpdates : u.every \in Int /\ IsSeq(u.methods)

-----------------------------------------------------------------------------
(* What a command makes of the configuration *)

\* A blank path or profile of a request keeps the stored one.
Keep(cur, new) == IF new = "" THEN cur ELSE new

\* apply_update: nothing is changed when a list is refused.
RejectsUpdate(u) == Refuses(u.channels, ChannelCap) \/ Refuses(u.dirs, DirCap)

\* Mutant: the escalation model outlives the provider it was chosen for.
KeepEscalation(c, provider) == c.advisor

EscalationFor(c, provider) ==
    IF provider # c.api.provider THEN [c.advisor EXCEPT !.model = <<>>] ELSE c.advisor

Applied(c, u) ==
    [c EXCEPT
        !.advisor = EscalationFor(c, Provider(u.provider)),
        !.api = [provider |-> Provider(u.provider), model |-> u.model, check |-> u.check,
                 effort |-> Effort(u.effort), path |-> Keep(@.path, u.path)],
        !.mon = [tick |-> Clamp(u.tick, 10, Week), poll |-> Clamp(u.poll, 5, Week),
                 wmi |-> Clamp(u.wmi, 30, Week), conf |-> FiniteOr(u.conf, 50, 95, 80),
                 channels |-> Normal(u.channels), dirs |-> Normal(u.dirs),
                 game |-> u.game, watch |-> IF u.watch = "" THEN @.watch ELSE u.watch]]

\* settings_update_needs_restart: what the collectors were started with.
NeedsRestart(c, u) ==
    \/ c.mon.channels # u.channels \/ c.mon.dirs # u.dirs
    \/ c.mon.poll # u.poll \/ c.mon.wmi # u.wmi

AdvisorApplied(c, u) ==
    [c EXCEPT !.advisor = [on |-> u.on, model |-> u.model, effort |-> Effort(u.effort),
                           low |-> FiniteOr(u.low, 0, 95, 60), chosenFor |-> c.api.provider]]

UpdaterApplied(c, u) ==
    [c EXCEPT !.upd = [c.upd EXCEPT
        !.on = u.on, !.every = Clamp(u.every, 300, Year),
        !.methods = IF SafeMethods(u.methods) = <<>> THEN c.upd.methods ELSE SafeMethods(u.methods),
        !.native = u.native,
        !.signed = IF u.signed \in {"publisher", "any"} THEN u.signed ELSE "valid"]]

Without(f, a) == Only(f, DOMAIN f \ {a})
With(f, a, n) == [x \in DOMAIN f \cup {a} |-> IF x = a THEN n ELSE f[x]]
Has(f, a, n) == a \in DOMAIN f /\ f[a] = n
SetNotes(c, notes, proven) ==
    [c EXCEPT !.upd = [c.upd EXCEPT !.notes = notes, !.proven = proven]]
NoteFits(c, a) == a \in DOMAIN c.upd.notes \/ Cardinality(DOMAIN c.upd.notes) < NoteCap

\* Mutant: what was proven stays proven when the user edits the note.
StaysProven(f, a) == f

Unproven(f, a) == Without(f, a)

\* set_app_note; a blank note deletes.
NoteRefused(c, a, n) == n.size > NoteChars \/ (n.size > 0 /\ ~NoteFits(c, a))
Noted(c, a, n) ==
    IF n.size = 0 THEN SetNotes(c, Without(c.upd.notes, a), Without(c.upd.proven, a))
    ELSE IF Has(c.upd.notes, a, n) THEN c
    ELSE SetNotes(c, With(c.upd.notes, a, n), Unproven(c.upd.proven, a))

\* set_learned_guidance
LearnRefused(c, a, n) == n.size \notin 1 .. NoteChars \/ ~NoteFits(c, a)
Learned(c, a, n) == SetNotes(c, With(c.upd.notes, a, n), With(c.upd.proven, a, n))

\* set_app_ignored
IsIgnored(c, a) == \E i \in DOMAIN c.upd.ignored : c.upd.ignored[i] = a
IgnoreRefused(c, a) == ~IsIgnored(c, a) /\ Len(c.upd.ignored) >= IgnoreCap
Ignored(c, a, on) ==
    [c EXCEPT !.upd.ignored =
        IF ~on THEN Sifted(@, {i \in DOMAIN @ : @[i] # a}) ELSE IF IsIgnored(c, a) THEN @ ELSE Append(@, a)]

\* guidance_for: an app's own note, else the proven one of the closest name.
GuidanceFor(c, a) ==
    LET kin == KinOf[a] \cap DOMAIN c.upd.proven
        best == {k \in kin : \A o \in kin : CompactLen[o] <= CompactLen[k]}
    IN  IF a \in DOMAIN c.upd.notes THEN {c.upd.notes[a]} ELSE {c.upd.proven[k] : k \in best}

\* concise_guidance: a rewrite is taken when it is short, names no URL of its
\* own and contains every one there was.
RewriteLimit(n) == Clamp(n.size + (IF n.size \div 4 > 40 THEN n.size \div 4 ELSE 40), 0, NoteChars)

\* Mutant: any short rewrite is taken.
ShortRewrite(n, r) == IF r.size \in 1 .. RewriteLimit(n) THEN r ELSE n

KeepsUrls(urls, r) == r.urls \subseteq urls /\ urls \subseteq r.urls \cup r.within
Concise(n, r) == IF r.size \in 1 .. RewriteLimit(n) /\ KeepsUrls(n.urls, r) THEN r ELSE n

-----------------------------------------------------------------------------
(* Start and crash *)

ClientOf(c) == {c.api, NoClient}

\* The service is configured with what load finds; without an AI client it
\* still serves, and shows an error until the settings are repaired.
Started(fs, client) ==
    /\ cfg' = Load(fs) /\ draft' = cfg'
    /\ inUse' = [ai |-> client, tick |-> cfg'.mon.tick, conf |-> cfg'.mon.conf]
    /\ shownError' = IF client = NoClient THEN "noai" ELSE "none"

\* The next cycle is shown once the settings of the updater change.
NoRun == [from |-> "none", every |-> 0]
DueAfter(u, ran) ==
    IF ~u.on THEN NoRun ELSE [from |-> IF ran THEN "last" ELSE "now", every |-> u.every]

\* At first config.toml parses, or is torn beside a backup that parses.
SettingsInit ==
    /\ files \in Disks /\ Loadable(files)
    /\ cfg = Load(files) /\ draft = cfg
    /\ inUse = [ai |-> cfg.api, tick |-> cfg.mon.tick, conf |-> cfg.mon.conf] /\ shownError = "none"
    /\ saving = "no" /\ said = "none" /\ running = TRUE /\ portable \in BOOLEAN
    /\ saveFor = [for |-> "none", id |-> "", restart |-> FALSE]
    /\ ranBefore \in BOOLEAN /\ nextRun = NoRun
    /\ listed = {a \in NotedApps : ~IsIgnored(cfg, a)}
    /\ guided = {} /\ worked = {<<a, cfg.upd.proven[a].urls>> : a \in DOMAIN cfg.upd.proven}
    /\ commands = 0 /\ starts = 0

Crash ==
    /\ running /\ starts < MaxStarts
    /\ running' = FALSE /\ saving' = "no" /\ said' = "none" /\ guided' = {}
    /\ UNCHANGED <<cfg, draft, files, saveFor, portable, loopVars, worked, commands, starts>>

Start ==
    /\ ~running /\ Loadable(files)
    /\ \E client \in ClientOf(Load(files)) : Started(files, client)
    /\ running' = TRUE /\ starts' = starts + 1
    /\ nextRun' = NoRun
    /\ UNCHANGED <<diskVarsOf, saveFor, said, portable, ranBefore, listed, guideVars, commands>>

-----------------------------------------------------------------------------
(* Saving *)

\* The loop waits for a save: no handler runs meanwhile.
Free == running /\ saving = "no"
Command == Free /\ commands < MaxCommands /\ commands' = commands + 1

Save(c, for, id, restart) ==
    /\ draft' = c /\ saving' = "backup" /\ said' = "none"
    /\ saveFor' = [for |-> for, id |-> id, restart |-> restart]
    /\ UNCHANGED <<cfg, files, running, portable, starts>>

Answer(r) ==
    said' = r /\ UNCHANGED <<cfg, draft, diskVarsOf, saveFor, running, portable, starts>>

File(name, content) == files' = [files EXCEPT ![name] = content]
DiskStep == UNCHANGED <<cfg, draft, saveFor, said, running, portable, loopVars, guideVars, commands, starts>>

\* Mutant: whatever is in config.toml becomes the backup.
AnyFile(f) == f # Missing

BackedUp(f) == Parses(f)

\* A live file that parses is copied; a failure of the copy is ignored.
Backup ==
    /\ saving = "backup"
    /\ \/ BackedUp(files.live) /\ saving' = "copying" /\ File("bak", Torn)
       \/ saving' = "write" /\ UNCHANGED files   \* no such file, or no copy
    /\ DiskStep

BackupDone ==
    /\ saving = "copying" /\ saving' = "write"
    /\ File("bak", files.live) \/ UNCHANGED files
    /\ DiskStep

WriteTmp == saving = "write" /\ saving' = "writing" /\ File("tmp", Torn) /\ DiskStep
TmpDone == saving = "writing" /\ saving' = "rename" /\ File("tmp", draft) /\ DiskStep

Rename ==
    /\ saving = "rename" /\ saving' = "saved"
    /\ files' = [files EXCEPT !.live = files.tmp, !.tmp = Missing]
    /\ DiskStep

\* The error of a failed write is answered and shown; nothing is adopted.
SaveFails ==
    /\ saving \in {"write", "writing", "rename"} /\ saving' = "no"
    /\ draft' = cfg
    /\ said' = IF saveFor.for = "learned" THEN said ELSE "failed"
    /\ shownError' = IF saveFor.for = "settings" THEN "other" ELSE shownError
    /\ UNCHANGED <<cfg, files, saveFor, running, portable, inUse, nextRun, ranBefore, listed, guideVars, commands, starts>>

Adopt(for) == saving = "saved" /\ saveFor.for = for /\ saving' = "no" /\ cfg' = draft /\ UNCHANGED <<draft, files, saveFor>>

\* The rest of UpdateSettings: the loop works with the new values at once, the
\* collectors from the next start.  The helper that restarts the service may
\* fail to launch; a portable Eir is not restarted.
AdoptSettings ==
    /\ Adopt("settings")
    /\ inUse' = [ai |-> draft.api, tick |-> draft.mon.tick, conf |-> draft.mon.conf]
    /\ LET cleared == IF shownError = "noai" THEN "none" ELSE shownError
       IN  \/ /\ ~saveFor.restart /\ said' = "applied" /\ shownError' = cleared /\ UNCHANGED <<running, guided>>
           \/ /\ saveFor.restart /\ portable /\ said' = "portable" /\ shownError' = cleared /\ UNCHANGED <<running, guided>>
           \/ /\ saveFor.restart /\ ~portable /\ said' = "restarting" /\ shownError' = cleared
              /\ starts < MaxStarts /\ running' = FALSE /\ guided' = {}
           \/ /\ saveFor.restart /\ ~portable /\ said' = "not restarted" /\ shownError' = "other" /\ UNCHANGED <<running, guided>>
    /\ UNCHANGED <<portable, nextRun, ranBefore, listed, worked, commands, starts>>

\* The other handlers: what the views show follows the configuration.
AdoptOther ==
    /\ \E for \in {"advisor", "updater", "ignore", "unignore", "note", "learned"} :
           /\ Adopt(for)
           /\ said' = IF for = "learned" THEN said ELSE "saved"
           /\ nextRun' = IF for = "updater" THEN DueAfter(draft.upd, ranBefore) ELSE nextRun
           /\ listed' = IF for = "ignore" THEN listed \ {saveFor.id} ELSE listed
    /\ UNCHANGED <<running, portable, inUse, shownError, ranBefore, guideVars, commands, starts>>

-----------------------------------------------------------------------------
(* Commands *)

UpdateSettings(u) ==
    /\ Command
    /\ \/ RejectsUpdate(u) /\ Answer("rejected") /\ shownError' = "other"
       \/ ~RejectsUpdate(u) /\ Answer("rejected") /\ shownError' = "other"   \* no AI client
       \/ ~RejectsUpdate(u) /\ Save(Applied(cfg, u), "settings", "", NeedsRestart(cfg, u)) /\ UNCHANGED shownError
    /\ UNCHANGED <<inUse, nextRun, ranBefore, listed, guideVars>>

SetAdvisorSettings(u) ==
    Command /\ Save(AdvisorApplied(cfg, u), "advisor", "", FALSE) /\ UNCHANGED <<loopVars, guideVars>>

UpdateUpdaterSettings(u) ==
    Command /\ Save(UpdaterApplied(cfg, u), "updater", "", FALSE) /\ UNCHANGED <<loopVars, guideVars>>

\* SetAppNote: of a listed app, or of one that has a note.
SetAppNote(a, n) ==
    /\ Command
    /\ LET known == a \in listed \/ a \in DOMAIN cfg.upd.notes
           next == Noted(cfg, a, n)
       IN  \/ (~known \/ NoteRefused(cfg, a, n)) /\ Answer("rejected")
           \/ known /\ ~NoteRefused(cfg, a, n) /\ next = cfg /\ Answer("unchanged")
           \/ known /\ ~NoteRefused(cfg, a, n) /\ next # cfg /\ Save(next, "note", a, FALSE)
    /\ UNCHANGED <<loopVars, guideVars>>

\* SetAppIgnore: a note that comes with it is set too, a blank one is no note.
\* Either refused, neither is saved.
SetAppIgnore(a, on, n) ==
    /\ Command
    /\ LET toggled == Ignored(cfg, a, on)
           next == IF n.size = 0 THEN toggled ELSE Noted(toggled, a, n)
           refused == \/ a \notin listed /\ ~IsIgnored(cfg, a)
                      \/ on /\ IgnoreRefused(cfg, a)
                      \/ n.size > 0 /\ NoteRefused(cfg, a, n)
       IN  \/ refused /\ Answer("rejected") /\ UNCHANGED listed
           \/ /\ ~refused /\ next = cfg /\ Answer("saved")
              /\ listed' = IF on THEN listed \ {a} ELSE listed
           \/ ~refused /\ next # cfg /\ Save(next, IF on THEN "ignore" ELSE "unignore", a, FALSE) /\ UNCHANGED listed
    /\ UNCHANGED <<inUse, shownError, nextRun, ranBefore, guideVars>>

\* spawn_update_cycle: a retry works with the guidance of its start.
StartGuided(a) ==
    /\ Command /\ guided = {} /\ a \in listed
    /\ \E n \in GuidanceFor(cfg, a) : guided' = {[id |-> a, note |-> n]}
    /\ UNCHANGED <<cfg, draft, diskVarsOf, saveFor, said, running, portable, loopVars, worked, starts>>

\* Its fold: the guidance of a success, or a rewrite of it, becomes the note.
FoldGuided ==
    /\ Free
    /\ \E g \in guided, r \in Rewrites :
        LET n == Concise(g.note, r)
        IN  /\ guided' = {}
            /\ \/ UNCHANGED <<worked, cfg, draft, diskVarsOf, saveFor, said, running, portable, starts>>   \* it failed
               \/ /\ worked' = worked \cup {<<g.id, g.note.urls>>}
                  /\ IF LearnRefused(cfg, g.id, n)
                     THEN UNCHANGED <<cfg, draft, diskVarsOf, saveFor, said, running, portable, starts>>
                     ELSE Save(Learned(cfg, g.id, n), "learned", g.id, FALSE)
    /\ UNCHANGED <<loopVars, commands>>

SettingsNext ==
    \/ Crash \/ Start
    \/ Backup \/ BackupDone \/ WriteTmp \/ TmpDone \/ Rename \/ SaveFails
    \/ AdoptSettings \/ AdoptOther
    \/ \E u \in Updates : UpdateSettings(u)
    \/ \E u \in AdvisorUpdates : SetAdvisorSettings(u)
    \/ \E u \in UpdaterUpdates : UpdateUpdaterSettings(u)
    \/ \E a \in NotedApps, n \in Notes : SetAppNote(a, n)
    \/ \E a \in NotedApps, on \in BOOLEAN, n \in Notes : SetAppIgnore(a, on, n)
    \/ \E a \in NotedApps : StartGuided(a)
    \/ FoldGuided

SettingsSpec == SettingsInit /\ [][SettingsNext]_settingsVars

-----------------------------------------------------------------------------
(* Properties *)

\* The step of a save, the answer and the files have their types.
SettingsTypeOK ==
    /\ saving \in {"no", "backup", "copying", "write", "writing", "rename", "saved"}
    /\ said \in {"none", "rejected", "failed", "unchanged", "saved", "applied", "portable",
                 "restarting", "not restarted"}
    /\ shownError \in {"none", "noai", "other"} /\ {running, portable, ranBefore} \subseteq BOOLEAN
    /\ listed \subseteq NotedApps /\ Cardinality(guided) <= 1
    /\ DOMAIN files = {"live", "bak", "tmp"}
    /\ \A c \in {cfg, draft} : DOMAIN c.upd.notes \subseteq NotedApps

\* Wherever a save is cut short, the next start finds a configuration, and it
\* is the one in force or the one being saved; between saves the one in force.
Recoverable ==
    /\ Loadable(files)
    /\ Load(files) \in {SanitizeLoaded(cfg), SanitizeLoaded(draft)}
    /\ Free => Load(files) = SanitizeLoaded(cfg)

\* Guidance other products may be updated with has worked for the product it
\* is filed under, unedited: the app's note, with every URL of what worked and
\* no other.
HasWorked(a, n, w) == \E t \in w : t[1] = a /\ KeepsUrls(t[2], n)
ProvenWorked ==
    \A a \in DOMAIN cfg.upd.proven :
        Has(cfg.upd.notes, a, cfg.upd.proven[a]) /\ HasWorked(a, cfg.upd.proven[a], worked)

\* The loop works with the settings in force, or without an AI client.
InForce ==
    running => /\ inUse.ai \in ClientOf(cfg)
               /\ inUse.tick = cfg.mon.tick /\ inUse.conf = cfg.mon.conf

\* An escalation model is used with the provider it was chosen for; one that
\* was chosen for a provider of an older build, with the provider that build's
\* name is now read as, which may not know it.
EscalationFits ==
    cfg.advisor.model # <<>> =>
        cfg.api.provider \in Providers /\ cfg.api.provider = Provider(cfg.advisor.chosenFor)

\* One property for the runs: the settings are sound.
SettingsSound ==
    SettingsTypeOK /\ Recoverable /\ ProvenWorked /\ InForce /\ EscalationFits
=============================================================================
