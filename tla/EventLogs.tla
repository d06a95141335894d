----------------------------- MODULE EventLogs ------------------------------
(***************************************************************************)
(* The event-log collectors: the Windows Event Log by record number        *)
(* (signals/event_log/windows.rs) or journald by cursor (unix.rs), polled  *)
(* into a bounded buffer that the decision loop drains.  Records carry the *)
(* moment they were written, which names them.  On Linux there is one      *)
(* channel, the journal, and its cursor survives a restart.  Records of    *)
(* one level stand for those that read alike.                              *)
(***************************************************************************)
EXTENDS Integers, Sequences, FiniteSets, SequencesExt, Sifting

CONSTANTS
    ChannelOrder,  \* event_log_channels, each once
    PollCap,       \* MAX_PER_POLL
    BufferCap,     \* BUFFER_CAP
    LineCap,       \* AFTER_CURSOR_LINE_CAP
    MaxRecords,    \* bound: records written
    MaxMishaps     \* bound: clears, failures and restarts

ASSUME EventLogsAssumption ==
    /\ {PollCap, BufferCap, LineCap} \subseteq Nat \ {0}
    /\ MaxRecords \in Nat \ {0} /\ MaxMishaps \in Nat
    /\ ChannelOrder # <<>> /\ ChannelOrder \in Seq(Range(ChannelOrder))
    /\ \A i, k \in DOMAIN ChannelOrder : ChannelOrder[i] = ChannelOrder[k] => i = k

Channels == Range(ChannelOrder)
Journal  == ChannelOrder[1]
NoCursor == -1

VARIABLES
    platform,  \* "windows" or "linux"
    log,       \* [Channels -> Seq([at, level])]: its position is the record number
    clock,     \* records written so far
    cursor,    \* cursors: a record number; on Linux the moment of a line
    savedCursor,  \* journal-cursor on disk
    buffer,    \* SharedEntries
    awake,     \* the trigger was sent
    mishaps,
    drained,   \* history: records handed to an analysis or lost in a restart
    due        \* history: error records an analysis is owed

logVars == <<platform, log, clock, cursor, savedCursor, buffer, awake, mishaps, drained, due>>

Levels  == {"Error", "Warning"}
Records == [at : Nat, level : Levels]

LogsTypeOK ==
    /\ platform \in {"windows", "linux"}
    /\ log \in [Channels -> Seq(Records)] /\ clock \in 0 .. MaxRecords
    /\ cursor \in [Channels -> Int] /\ savedCursor \in Int
    /\ buffer \in Seq(Records) /\ Len(buffer) <= BufferCap
    /\ awake \in BOOLEAN /\ mishaps \in 0 .. MaxMishaps
    /\ drained \subseteq Nat /\ due \subseteq Nat

\* The service starts on a machine whose first channel may hold old records.
LogsInit ==
    /\ platform \in {"windows", "linux"}
    /\ \E old \in 0 .. 1 :
        /\ clock = old
        /\ log = [c \in Channels |-> IF old = 1 /\ c = Journal
                                     THEN <<[at |-> 1, level |-> "Error"]>> ELSE <<>>]
    /\ cursor = [c \in Channels |-> NoCursor] /\ savedCursor = NoCursor
    /\ buffer = <<>> /\ awake = FALSE /\ mishaps = 0 /\ drained = {} /\ due = {}

Moments(records) == {records[i].at : i \in DOMAIN records}

-----------------------------------------------------------------------------
(* The machine writes, clears and trims its logs *)

\* A record written where the collector has a place to read on from.
Write(c, level) ==
    /\ clock < MaxRecords /\ clock' = clock + 1
    /\ platform = "linux" => c = Journal
    /\ log' = [log EXCEPT ![c] = Append(@, [at |-> clock', level |-> level])]
    /\ due' = IF /\ level = "Error" /\ cursor[c] # NoCursor
                 /\ platform = "windows" => Len(log[c]) >= cursor[c]
              THEN due \cup {clock'} ELSE due
    /\ UNCHANGED <<platform, cursor, savedCursor, buffer, awake, mishaps, drained>>

Mishap == mishaps < MaxMishaps /\ mishaps' = mishaps + 1

\* Windows clears a channel and its numbering; journald drops the oldest.
Clear(c) ==
    /\ Mishap /\ log[c] # <<>>
    /\ log' = [log EXCEPT ![c] = IF platform = "windows" THEN <<>> ELSE Tail(@)]
    /\ due' = due \ ((Moments(log[c]) \ Moments(log'[c])) \ Moments(buffer))
    /\ UNCHANGED <<platform, clock, cursor, savedCursor, buffer, awake, drained>>

-----------------------------------------------------------------------------
(* read_channel_since: what one Windows channel yields, newest first, and  *)
(* its next cursor, when the backward read gets as far as `reach` records  *)

Known(c)  == IF cursor[c] = NoCursor THEN 0 ELSE cursor[c]
\* Mutant: the first poll delivers what the log holds.
NeverPrime(c) == FALSE

Prime(c) == cursor[c] = NoCursor
WasReset(c) == Known(c) > 0 /\ Len(log[c]) < Known(c)

\* Positions of the records to deliver.
Fresh(c, reach) ==
    IF Prime(c) \/ WasReset(c) \/ reach = 0 THEN {}
    ELSE LET top == Len(log[c])
         IN  Max({Known(c) + 1, top + 1 - PollCap, top + 1 - reach}) .. top

Yield(c, reach) ==
    LET top == Len(log[c])
    IN  [i \in 1 .. Cardinality(Fresh(c, reach)) |-> log[c][top + 1 - i]]

\* Mutant: a read that failed is taken to have reached the newest record.
CursorAtTop(c, reach) == Len(log[c])

NextCursor(c, reach) == IF reach = 0 THEN Known(c) ELSE Len(log[c])

\* Pushes what a poll found, oldest first; the buffer drops from its front.
BufferedWith(entries) ==
    LET all == buffer \o entries
    IN  IF Len(all) <= BufferCap THEN all ELSE SubSeq(all, Len(all) - BufferCap + 1, Len(all))

Deliver(entries) ==
    /\ buffer' = BufferedWith(entries)
    /\ awake' = (awake \/ \E i \in DOMAIN entries : entries[i].level = "Error")

\* The oldest of the entries, for which the buffer has no room.
Crowded(entries) ==
    LET all == buffer \o entries
    IN  {all[i].at : i \in 1 .. Len(all) - BufferCap}

\* New records a read did not get to: it stops at MAX_PER_POLL, or ended early
\* at a record it cannot take.  Its first record moved the cursor past them.
Skipped(c, reach) ==
    IF reach = 0 THEN {}
    ELSE {log[c][i].at : i \in {k \in DOMAIN log[c] :
              k > Known(c) /\ (k <= Len(log[c]) - PollCap \/ k <= Len(log[c]) - reach)}}

\* A poll.  A channel that does not open keeps its cursor, and so does one
\* whose read gets nothing; the read of one may end early.
PollWindows ==
    /\ platform = "windows"
    /\ \E opened \in SUBSET Channels, reach \in [Channels -> 0 .. MaxRecords] :
        /\ \A c \in Channels : reach[c] <= Len(log[c]) /\ (c \notin opened => reach[c] = 0)
        /\ IF \A c \in Channels : c \in opened /\ reach[c] = Len(log[c])
           THEN mishaps' = mishaps ELSE Mishap
        /\ LET found == FlattenSeq([k \in DOMAIN ChannelOrder |->
                            IF ChannelOrder[k] \in opened
                            THEN Yield(ChannelOrder[k], reach[ChannelOrder[k]]) ELSE <<>>])
               next  == [c \in Channels |-> IF c \in opened THEN NextCursor(c, reach[c]) ELSE cursor[c]]
               blind == {c \in opened : Prime(c) /\ reach[c] = 0}
           IN  /\ cursor' = next
               /\ Deliver(Reverse(found))
               /\ due' = due \ (Crowded(Reverse(found)) \cup UNION {Skipped(c, reach[c]) : c \in Channels})
               /\ drained' = drained \ UNION {Moments(log[c]) : c \in blind}
    /\ UNCHANGED <<platform, log, clock, savedCursor>>

-----------------------------------------------------------------------------
(* poll_once: the lines after the cursor *)

\* journalctl shows everything when it cannot find the cursor.
After(at) ==
    LET j == log[Journal]
        n == {i \in DOMAIN j : j[i].at = at}
        all == IF n = {} THEN j ELSE SubSeq(j, 1 + CHOOSE i \in n : TRUE, Len(j))
    IN  IF Len(all) <= LineCap THEN all ELSE SubSeq(all, Len(all) - LineCap + 1, Len(all))

\* dedup_fingerprint: lines of one poll that read alike count once.
Alike(lines, i) == \E k \in 1 .. i - 1 : lines[k].level = lines[i].level

DistinctLines(lines) ==
    LET first == {i \in DOMAIN lines : ~Alike(lines, i)}
        kept  == Sifted(lines, first)
    IN  IF Len(kept) <= PollCap THEN kept ELSE SubSeq(kept, 1, PollCap)

\* What it leaves out: repeats, and what comes after MAX_PER_POLL others.
LeftOut(lines) ==
    {lines[i].at : i \in {n \in DOMAIN lines :
        \/ Alike(lines, n)
        \/ Cardinality({k \in DOMAIN lines : k < n /\ ~Alike(lines, k)}) >= PollCap}}

CursorStale(lines) == Len(lines) >= LineCap

\* What a reseed passes over: every line after the cursor.
NotYetRead ==
    {log[Journal][i].at : i \in {k \in DOMAIN log[Journal] : log[Journal][k].at > cursor[Journal]}}

\* Reads on, or seeds the cursor with the newest line and delivers nothing: at
\* first, after journalctl fails, and when so many lines come that the cursor is
\* taken to be unknown.  The cursor goes to disk before the entries are pushed;
\* the write may fail, or be cut off and leave a file no cursor is read from.
\* A journalctl that cannot run, or fails again on the reseed, changes nothing.
PollJournal ==
    /\ platform = "linux"
    /\ \E fails \in BOOLEAN :
        LET at     == cursor[Journal]
               lines  == IF at = NoCursor THEN <<>> ELSE After(at)
               reseed == at = NoCursor \/ fails \/ CursorStale(lines)
               next   == IF reseed THEN log[Journal] ELSE lines
               new    == IF next = <<>> THEN at ELSE next[Len(next)].at
               fresh  == IF reseed THEN <<>> ELSE DistinctLines(lines)
               passed == IF fails \/ Cardinality(NotYetRead) >= LineCap THEN NotYetRead ELSE LeftOut(lines)
           IN  /\ reseed => log[Journal] # <<>>
               /\ cursor' = [cursor EXCEPT ![Journal] = new]
               /\ savedCursor' \in IF new = at THEN {savedCursor} ELSE {new, savedCursor, NoCursor}
               /\ IF fails \/ (new # at /\ savedCursor' # new) THEN Mishap ELSE mishaps' = mishaps
               /\ Deliver(fresh)
               /\ due' = due \ (passed \cup Crowded(fresh))
    /\ UNCHANGED <<platform, log, clock, drained>>

-----------------------------------------------------------------------------

\* event_log::drain, by an analysis
DrainLog ==
    /\ buffer # <<>>
    /\ drained' = drained \cup Moments(buffer) /\ due' = due \ Moments(buffer)
    /\ buffer' = <<>> /\ awake' = FALSE
    /\ UNCHANGED <<platform, log, clock, cursor, savedCursor, mishaps>>

\* The service restarts: the buffer is lost, and Linux reads the cursor back.
\* A cursor that could not be written makes it read some lines again; without
\* one it starts at the newest line.
Restart ==
    /\ Mishap
    /\ buffer' = <<>> /\ awake' = FALSE
    /\ cursor' = [c \in Channels |-> IF platform = "linux" /\ c = Journal THEN savedCursor ELSE NoCursor]
    /\ LET told == drained \cup Moments(buffer)
       IN  drained' = IF platform = "linux" /\ savedCursor # NoCursor
                      THEN {a \in told : a <= savedCursor} ELSE told
    /\ due' = IF platform = "linux" /\ savedCursor # NoCursor THEN due \ Moments(buffer) ELSE {}
    /\ UNCHANGED <<platform, log, clock, savedCursor>>

LogsNext ==
    \/ \E c \in Channels : Clear(c) \/ \E level \in Levels : Write(c, level)
    \/ PollWindows \/ PollJournal \/ DrainLog \/ Restart

LogsSpec == LogsInit /\ [][LogsNext]_logVars

-----------------------------------------------------------------------------
(* Properties *)

\* "Delivered to the decision loop exactly once": no record comes again after
\* an analysis had it, through clears, failed polls and restarts.  Two faults
\* are excepted: a Windows channel whose first read got nothing, and a restart
\* from a journal cursor that kept its old value when it could not be written.
ToldOnce ==
    /\ \A i, k \in DOMAIN buffer : buffer[i].at = buffer[k].at => i = k
    /\ Moments(buffer) \cap drained = {}

\* An error written while the collector has a cursor is buffered or still to be
\* read, but for what the code passes over: lines after the cursor when
\* journalctl fails or shows as many as its limit; records behind one at which
\* a Windows read ended, or beyond MAX_PER_POLL; repeats in one poll; the
\* oldest of a full buffer; records cleared, or written to a cleared channel
\* before its numbers pass the cursor; and, at a restart, the buffer, with all
\* that was unread where no cursor survives (Windows, a torn cursor file).
\* A channel that does not open, a read that gets nothing and a journalctl that
\* cannot run pass over nothing.
ErrorsKept ==
    \A a \in due :
        \/ a \in Moments(buffer)
        \/ \E c \in Channels : \E i \in DOMAIN log[c] :
             log[c][i].at = a /\ cursor[c] # NoCursor
             /\ IF platform = "windows" THEN i > cursor[c] /\ ~WasReset(c) ELSE a > cursor[c]

\* One property for the runs: the collectors of the event logs are sound.
LogsSound == LogsTypeOK /\ ToldOnce /\ ErrorsKept
=============================================================================
