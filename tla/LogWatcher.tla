----------------------------- MODULE LogWatcher -----------------------------
(***************************************************************************)
(* The log-file collector (signals/file_watch.rs, log_memory.rs,           *)
(* log_parser.rs): a thread that is sent sets of directories to watch,     *)
(* queues an event per change, reads what was appended, and keeps one      *)
(* pending change per file for the decision loop.  The sets come from two  *)
(* tasks of main.rs that do not know of each other, the session reconciler *)
(* and the rediscovery of the decision loop, while users come and go.  A   *)
(* directory holds one log here, and has its name.                         *)
(***************************************************************************)
EXTENDS Integers, Sequences, FiniteSets, SequencesExt

CONSTANTS
    Files,        \* the logs
    People,       \* desktop users
    OwnerOf,      \* [Files -> People \cup {NoOwner}]: whose profile it is in
    NoOwner,      \* no user signed in; no profile
    EventCap,     \* EVENT_QUEUE_SIZE
    ChangesCap,   \* RING_SIZE
    ReadCap,      \* MAX_READ_BYTES, in pieces
    MaxWrites,    \* bound: pieces written and rotations
    MaxSwitches,  \* bound: users coming and going
    MaxSends      \* bound: directory sets sent

ASSUME LogWatcherAssumption ==
    /\ OwnerOf \in [Files -> People \cup {NoOwner}] /\ NoOwner \notin People
    /\ {EventCap, ChangesCap, ReadCap} \subseteq Nat \ {0}
    /\ {MaxWrites, MaxSwitches, MaxSends} \subseteq Nat

VARIABLES
    signedIn,        \* the user of the active session
    text,            \* [Files -> Seq(Pieces)]
    watched,         \* watched_dirs: what is armed
    dirs,            \* dir_rx: sets still to be taken
    watchOwner,      \* owner_sid of the reconciler
    recon,           \* what the reconciler is doing
    found,           \* what the loop's rediscovery found and has yet to send
    events,          \* event_rx
    readTo,          \* read_to of `memory`; Unread for a file it does not know
    seenLines,       \* its reported lines
    pendingChanges,  \* SharedChanges
    switches, writes, sends,
    owed             \* history: [Files -> ends of lines due to an analysis]

worldVars == <<signedIn, text, switches, writes>>
taskVars  == <<watchOwner, recon, found>>
readVars  == <<readTo, seenLines, pendingChanges>>
watcherVars == <<worldVars, taskVars, readVars, watched, dirs, events, sends, owed>>

\* What an application appends at a time: a line, or an error line in two
\* halves.  Neither half alone reads as one; a tail alone is a harmless line.
Pieces == {"error", "warning", "head", "tail"}
EndsLine(p) == p # "head"
Unread == -1

NotReconciling == [at |-> "idle", sid |-> NoOwner, set |-> {}]

WatcherTypeOK ==
    /\ signedIn \in People \cup {NoOwner} /\ watchOwner \in People \cup {NoOwner}
    /\ text \in [Files -> Seq(Pieces)]
    /\ watched \subseteq Files /\ dirs \in Seq(SUBSET Files)
    /\ recon \in [at : {"idle", "find", "send"}, sid : People \cup {NoOwner}, set : SUBSET Files]
    /\ found \in [some : BOOLEAN, set : SUBSET Files]
    /\ events \in Seq(Files) /\ Len(events) <= EventCap
    /\ readTo \in [Files -> Int] /\ seenLines \subseteq Files \X Pieces
    /\ Len(pendingChanges) <= ChangesCap
    /\ \A i \in DOMAIN pendingChanges : pendingChanges[i].file \in Files /\ pendingChanges[i].rank \in 0 .. 2
    /\ owed \in [Files -> SUBSET Nat]

NotFound == [some |-> FALSE, set |-> {}]

WatcherInit ==
    /\ signedIn \in People \cup {NoOwner}
    /\ text = [f \in Files |-> <<>>]
    /\ watchOwner \in {signedIn, NoOwner}
    /\ watched \in SUBSET {f \in Files : watchOwner # NoOwner /\ OwnerOf[f] \in {watchOwner, NoOwner}}
    /\ dirs = <<>> /\ recon = NotReconciling /\ found = NotFound
    /\ events = <<>> /\ readTo = [f \in Files |-> Unread] /\ seenLines = {} /\ pendingChanges = <<>>
    /\ switches = 0 /\ writes = 0 /\ sends = 0
    /\ owed = [f \in Files |-> {}]

-----------------------------------------------------------------------------
(* The sessions, and the applications that write logs *)

UserChanges == /\ switches < MaxSwitches /\ switches' = switches + 1
               /\ signedIn' \in (People \cup {NoOwner}) \ {signedIn}
               /\ UNCHANGED <<text, writes, taskVars, readVars, watched, dirs, events, sends, owed>>

\* The callback of the armed watcher: a full queue drops the event and counts
\* it, and the system may report an error in place of a change.
Queued(f, told) ==
    IF told /\ f \in watched /\ Len(events) < EventCap THEN Append(events, f) ELSE events

\* The due lines of a file that were read already.
DueRead(f) == {i \in owed[f] : i <= readTo[f]}

\* The error and warning lines of a text that were not read: those of which no
\* half was taken alone, and none of a shorter file the memory has yet to meet.
UnreadLines(f, content) ==
    {i \in DOMAIN content :
        /\ i > readTo[f]
        /\ \/ content[i] \in {"error", "warning"}
           \/ content[i] = "tail" /\ i > 1 /\ content[i - 1] = "head" /\ i - 1 > readTo[f]}

\* An event waits for the file: what it holds unread is due, again if an
\* earlier event was passed over.
AppWrites(f, p) ==
    /\ writes < MaxWrites /\ writes' = writes + 1
    /\ text' = [text EXCEPT ![f] = Append(@, p)]
    /\ \E told \in BOOLEAN :
        /\ events' = Queued(f, told)
        /\ owed' = [owed EXCEPT ![f] = DueRead(f) \cup IF f \in Range(Queued(f, told))
                                                     THEN UnreadLines(f, Append(text[f], p)) ELSE {}]
    /\ UNCHANGED <<signedIn, switches, taskVars, readVars, watched, dirs, sends>>

\* What was not read is gone with the old content.
Rotate(f) ==
    /\ text[f] # <<>> /\ writes < MaxWrites /\ writes' = writes + 1
    /\ text' = [text EXCEPT ![f] = <<>>]
    /\ \E told \in BOOLEAN : events' = Queued(f, told)
    /\ owed' = [owed EXCEPT ![f] = {}]
    /\ UNCHANGED <<signedIn, switches, taskVars, readVars, watched, dirs, sends>>

-----------------------------------------------------------------------------
(* discover_watch_dirs, by its two callers *)

\* What a discovery as user u returns; the caller asks who is active before and
\* after it, and a change or an error fails it.  A directory it passes over is
\* left to the arming, which may refuse any.
Discovered(u) == {f \in Files : OwnerOf[f] \in {u, NoOwner}}

Send(set) == /\ sends < MaxSends /\ sends' = sends + 1
             /\ dirs' = Append(dirs, set)

\* The reconciler's check, every few seconds; the query may fail.
ReconcileCheck ==
    /\ recon = NotReconciling
    /\ \E current \in {signedIn, NoOwner} :
        /\ watchOwner # current
        /\ IF watchOwner # NoOwner
           THEN Send({}) /\ watchOwner' = NoOwner
           ELSE UNCHANGED <<dirs, sends, watchOwner>>
        /\ recon' = IF current = NoOwner THEN NotReconciling
                    ELSE [at |-> "find", sid |-> current, set |-> {}]
    /\ UNCHANGED <<worldVars, found, readVars, watched, events, owed>>

ReconcileFind ==
    /\ recon.at = "find"
    /\ \/ recon' = NotReconciling
       \/ /\ signedIn = recon.sid
          /\ recon' = [recon EXCEPT !.at = "send", !.set = Discovered(signedIn)]
    /\ UNCHANGED <<worldVars, watchOwner, found, readVars, watched, dirs, events, sends, owed>>

ReconcileSend ==
    /\ recon.at = "send"
    /\ Send(recon.set) /\ watchOwner' = recon.sid /\ recon' = NotReconciling
    /\ UNCHANGED <<worldVars, found, readVars, watched, events, owed>>

\* The rediscovery of every twentieth pass of the decision loop.
LoopFinds ==
    /\ ~found.some /\ signedIn # NoOwner /\ sends < MaxSends
    /\ found' = [some |-> TRUE, set |-> Discovered(signedIn)]
    /\ UNCHANGED <<worldVars, watchOwner, recon, readVars, watched, dirs, events, sends, owed>>

LoopSends ==
    /\ found.some
    /\ Send(found.set) /\ found' = NotFound
    /\ UNCHANGED <<worldVars, watchOwner, recon, readVars, watched, events, owed>>

-----------------------------------------------------------------------------
(* The watcher thread *)

\* A directory is armed as the active user, who must be able to open it.
Armed(set) == {f \in set : signedIn # NoOwner /\ OwnerOf[f] \in {signedIn, NoOwner}}

\* Mutant: every set sent clears what is pending.
AnySend(armed) == TRUE

RootsChanged(armed) == watched # armed

\* Takes the next set: a new watcher, some of whose directories may be refused.
Replace ==
    /\ dirs # <<>>
    /\ dirs' = Tail(dirs)
    /\ \E armed \in SUBSET Armed(Head(dirs)) :
        /\ watched' = armed
        /\ IF RootsChanged(armed)
           THEN /\ events' = <<>> /\ pendingChanges' = <<>>
                /\ readTo' = [f \in Files |-> Unread] /\ seenLines' = {}
           ELSE UNCHANGED <<events, readVars>>
        /\ owed' = IF watched = armed THEN owed ELSE [f \in Files |-> {}]
    /\ UNCHANGED <<worldVars, taskVars, sends>>

\* A new file, a shorter one, and one that grew too much are read from the tail.
FromTail(f) == readTo[f] = Unread \/ readTo[f] \notin Len(text[f]) - ReadCap .. Len(text[f])

\* read_start: where the next read begins; Unread when nothing was appended.
ReadStart(f) ==
    LET n    == Len(text[f])
        tail == IF n > ReadCap THEN n - ReadCap ELSE 0
    IN  IF n = 0 \/ readTo[f] = n THEN Unread
        ELSE IF FromTail(f) THEN tail ELSE readTo[f]

\* read_chunk: up to the last end of a line, or everything without one.
ReadEnd(f, start) ==
    LET ends == {i \in start + 1 .. Len(text[f]) : EndsLine(text[f][i])}
    IN  IF ends = {} THEN Len(text[f]) ELSE CHOOSE i \in ends : \A j \in ends : j <= i

\* A tail that may begin inside a line is read from the next one on.
Begin(f, start) ==
    LET ends == {i \in start + 1 .. Len(text[f]) : EndsLine(text[f][i])}
    IN  IF FromTail(f) /\ start > 0 /\ ends # {}
        THEN CHOOSE i \in ends : \A j \in ends : i <= j ELSE start

\* The line that ends at piece i, as far as a read from `start` sees it.
LineAt(f, start, i) ==
    IF text[f][i] = "tail" /\ i - 1 > start /\ text[f][i - 1] = "head" THEN "error"
    ELSE IF text[f][i] \in {"head", "tail"} THEN "harmless" ELSE text[f][i]

RankOf(line) == CASE line = "error" -> 2 [] line = "warning" -> 1 [] OTHER -> 0

\* first_sighting
IsNew(f, line) == <<f, line>> \notin seenLines

\* try_parse_log: the new lines of the part read, for its severity.
NewLines(f, start) ==
    LET begin == Begin(f, start)
    IN  {line \in {LineAt(f, begin, i) : i \in begin + 1 .. ReadEnd(f, start)} :
            RankOf(line) > 0 /\ IsNew(f, line)}

TopRank(lines) == IF \E line \in lines : RankOf(line) = 2 THEN 2 ELSE 1

\* merge_change, or a place of its own at the end of the ring.
Pending(f, rank) ==
    LET at == {i \in DOMAIN pendingChanges : pendingChanges[i].file = f}
    IN  IF at # {}
        THEN [i \in DOMAIN pendingChanges |->
                IF i \in at /\ rank > pendingChanges[i].rank
                THEN [pendingChanges[i] EXCEPT !.rank = rank] ELSE pendingChanges[i]]
        ELSE Append(IF Len(pendingChanges) >= ChangesCap THEN Tail(pendingChanges) ELSE pendingChanges,
                    [file |-> f, rank |-> rank])

\* A read of the tail alone, which may pass over what is before it.
TailOnly(f) == FromTail(f) /\ Len(text[f]) > ReadCap

\* What stays due when f is read to the end: nothing the ring dropped, and of
\* f neither a repeat nor what a read of its tail may pass over.
Line(f, i) == IF text[f][i] = "tail" THEN "error" ELSE text[f][i]
StillDue(f, end, dropped) ==
    [g \in Files |->
        IF g \in dropped THEN owed[g] \ DueRead(g)
        ELSE IF g # f THEN owed[g]
        ELSE {i \in owed[f] : i <= readTo[f] \/ i > end \/ (~TailOnly(f) /\ <<f, Line(f, i)>> \notin seenLines)}]

\* What stays due when the event of f is consumed with nothing read: what was
\* read before and, if another event of f waits, the rest.
PassedOver(f) ==
    owed' = [owed EXCEPT ![f] = IF f \in Range(Tail(events)) THEN @ ELSE DueRead(f)]

\* An event.  It is passed over when its user is not the active one, or when the
\* user cannot be impersonated or the length not be read; and when, that done,
\* the file cannot be opened, sought or read.  Else the file is read.
HandleEvent ==
    /\ events # <<>>
    /\ events' = Tail(events)
    /\ LET f     == Head(events)
           start == ReadStart(f)
           end   == ReadEnd(f, start)
           lines == NewLines(f, start)
           next  == Pending(f, TopRank(lines))
           gone  == {pendingChanges[i].file : i \in DOMAIN pendingChanges} \ {next[i].file : i \in DOMAIN next}
       IN \/ PassedOver(f) /\ UNCHANGED readVars
          \/ /\ OwnerOf[f] \in {signedIn, NoOwner} /\ signedIn # NoOwner
             /\ \/ /\ readTo' = IF readTo[f] > Len(text[f]) THEN [readTo EXCEPT ![f] = 0] ELSE readTo
                   /\ IF start = Unread THEN UNCHANGED owed ELSE PassedOver(f)
                   /\ UNCHANGED <<seenLines, pendingChanges>>
                \/ /\ start # Unread
                   /\ readTo' = [readTo EXCEPT ![f] = end]
                   /\ seenLines' = seenLines \cup ({f} \X lines)
                   /\ pendingChanges' = IF lines = {} THEN pendingChanges ELSE next
                   /\ owed' = StillDue(f, end, IF lines = {} THEN {} ELSE gone)
    /\ UNCHANGED <<worldVars, taskVars, watched, dirs, sends>>

\* SEEN_TTL: what was reported may be reported again.
SeenExpires == /\ seenLines # {}
               /\ seenLines' = {}
               /\ UNCHANGED <<worldVars, taskVars, readTo, pendingChanges, watched, dirs, events, sends, owed>>

\* drain, by the analysis
DrainChanges == /\ pendingChanges # <<>>
                /\ pendingChanges' = <<>>
                /\ owed' = [f \in Files |-> owed[f] \ DueRead(f)]
                /\ UNCHANGED <<worldVars, taskVars, readTo, seenLines, watched, dirs, events, sends>>

WatcherNext ==
    \/ UserChanges
    \/ \E f \in Files : Rotate(f) \/ \E p \in Pieces : AppWrites(f, p)
    \/ ReconcileCheck \/ ReconcileFind \/ ReconcileSend
    \/ LoopFinds \/ LoopSends
    \/ Replace \/ HandleEvent \/ SeenExpires \/ DrainChanges

WatcherSpec == WatcherInit /\ [][WatcherNext]_watcherVars

-----------------------------------------------------------------------------
(* Properties *)

\* A new error or warning line written to a watched log reaches the next
\* analysis: it is still to be read and an event says so, or its file has a
\* pending change at least that severe.  Not due are lines of a file whose last
\* event was not reported, found the queue full, or was consumed with nothing
\* read (no user to read it as, or a failed open or read), until the next write
\* that is heard makes them due again; lines a read of the tail passed over,
\* repeats, and changes the full ring dropped.  A routine re-send of the same
\* directories loses nothing (spawn, parse_path, read_start, merge_change).
NothingMissed ==
    \A f \in Files : \A i \in owed[f] :
        IF i > readTo[f] THEN f \in Range(events)
        ELSE \E k \in DOMAIN pendingChanges :
                pendingChanges[k].file = f /\ pendingChanges[k].rank >= RankOf(Line(f, i))

\* One property for the runs: the watcher of the logs is sound.
WatcherSound == WatcherTypeOK /\ NothingMissed
=============================================================================
