---------------------------- MODULE ScreenErrors ----------------------------
(***************************************************************************)
(* What Eir noticed: the tray's watcher of error boxes and hung windows    *)
(* (eir-ui/screen_watch.rs), the buffer of its reports for the next        *)
(* analysis (signals/screen.rs) and the feed of the dashboard, which also  *)
(* lists the errors of the event log (signals/feed.rs).  Three memories    *)
(* suppress repeats: of the tray by window, of the buffer and of the feed  *)
(* by what was said and when.                                              *)
(***************************************************************************)
EXTENDS Integers, Sequences, FiniteSets, SequencesExt, Sifting

CONSTANTS
    Windows,              \* top-level windows
    Boxes,                \* what an error box can say
    Events,               \* errors of the event log
    RepeatWindow,         \* REPEAT_WINDOW_SECS
    TrayQueueCap,         \* the tray's command queue
    SeenCap, PendingCap,  \* SEEN_CAP, BUFFER_CAP of screen.rs
    FeedCap,              \* FEED_CAP
    MaxFeedTime           \* bound: the clock

ASSUME ScreenErrorsAssumption ==
    /\ {RepeatWindow, TrayQueueCap, SeenCap, PendingCap, FeedCap} \subseteq Nat \ {0}
    /\ MaxFeedTime \in Nat /\ IsFiniteSet(Windows)

VARIABLES
    screen,                \* [Windows -> what it shows]
    enabled,               \* connected, supported and switched on
    reported, candidates,  \* Tracker: reported, hung_candidates
    queue,                 \* cmd_tx: reports on their way to the service
    feedTime,
    seenErrors, pending,   \* ScreenErrorBuffer
    items, dismissed,      \* Feed
    lastQueued             \* history: [what -> when it was last queued and not forgotten]

screenVars == <<screen, enabled, reported, candidates>>
bufferVars == <<seenErrors, pending, lastQueued>>
feedVars == <<items, dismissed>>
noticedVars == <<screenVars, queue, feedTime, bufferVars, feedVars>>

Hangs  == {"hung"} \X Windows
Whats  == Boxes \cup Hangs \cup Events
Item   == [what : Whats, at : Nat]
Never  == -1

NoticedTypeOK ==
    /\ screen \in [Windows -> {"nothing", "hung"} \cup Boxes] /\ enabled \in BOOLEAN
    /\ reported \subseteq Windows /\ candidates \subseteq Windows
    /\ queue \in Seq(Whats) /\ Len(queue) <= TrayQueueCap /\ feedTime \in 0 .. MaxFeedTime
    /\ seenErrors \in Seq(Item) /\ Len(seenErrors) <= SeenCap
    /\ pending \in Seq(Item) /\ Len(pending) <= PendingCap
    /\ items \in Seq(Item) /\ Len(items) <= FeedCap
    /\ dismissed \in Seq(Item) /\ Len(dismissed) <= 2 * FeedCap
    /\ lastQueued \in [Whats -> Nat \cup {Never}]

NoticedInit ==
    /\ screen = [w \in Windows |-> "nothing"] /\ enabled \in BOOLEAN
    /\ reported = {} /\ candidates = {} /\ queue = <<>> /\ feedTime = 0
    /\ seenErrors = <<>> /\ pending = <<>> /\ items = <<>> /\ dismissed = <<>>
    /\ lastQueued = [x \in Whats |-> Never]

KeepNewest(s, cap) == IF Len(s) <= cap THEN s ELSE SubSeq(s, Len(s) - cap + 1, Len(s))
Front2(s, cap) == SubSeq(s, 1, IF Len(s) <= cap THEN Len(s) ELSE cap)

-----------------------------------------------------------------------------
(* The desktop, the setting and the connection, and the clock *)

ScreenChanges ==
    /\ \E w \in Windows, s \in {"nothing", "hung"} \cup Boxes :
        /\ screen[w] # s /\ (screen[w] = "nothing" \/ s = "nothing" \/ s = "hung")
        /\ screen' = [screen EXCEPT ![w] = s]
    /\ UNCHANGED <<enabled, reported, candidates, queue, feedTime, bufferVars, feedVars>>

Switches == /\ enabled' = ~enabled
            /\ UNCHANGED <<screen, reported, candidates, queue, feedTime, bufferVars, feedVars>>

TimePasses == /\ feedTime < MaxFeedTime /\ feedTime' = feedTime + 1
              /\ UNCHANGED <<screenVars, queue, bufferVars, feedVars>>

-----------------------------------------------------------------------------
(* Tracker::step, on what a poll observes *)

Present == {w \in Windows : screen[w] # "nothing"}
HungNow == {w \in Windows : screen[w] = "hung"}

\* A box at once, a hang that lasted two polls; each window once while it stays.
ToReport == {w \in Present \ reported : screen[w] # "hung" \/ w \in candidates}

Says(w) == IF screen[w] = "hung" THEN <<"hung", w>> ELSE screen[w]

\* The reports are remembered before they are queued; a full queue loses one.
TrayPoll ==
    /\ enabled
    /\ reported' = (reported \cup ToReport) \cap Present
    /\ candidates' = HungNow
    /\ \E order \in SetToSeqs(ToReport) :
        queue' = Front2(queue \o [i \in DOMAIN order |-> Says(order[i])], TrayQueueCap)
    /\ UNCHANGED <<screen, enabled, feedTime, bufferVars, feedVars>>

-----------------------------------------------------------------------------
(* ScreenErrorBuffer::push and Feed::push *)

NeverRecent(x, t) == FALSE
Recent(x, t) == \E i \in DOMAIN seenErrors : seenErrors[i].what = x /\ t - seenErrors[i].at < RepeatWindow

\* is_repeat
Repeats(a, b) == /\ a.what = b.what
                 /\ a.at - b.at < RepeatWindow /\ b.at - a.at < RepeatWindow

StillListed(item, list, gone) == \E i \in DOMAIN list : Repeats(list[i], item)
Listed(item, list, gone) == \E i \in DOMAIN (list \o gone) : Repeats((list \o gone)[i], item)

FeedWith(list, item) ==
    IF Listed(item, list, dismissed) THEN list ELSE Front2(<<item>> \o list, FeedCap)

Kept == Sifted(seenErrors, {i \in DOMAIN seenErrors : feedTime - seenErrors[i].at < RepeatWindow})

\* UiMsg::ReportScreenError: refused while the setting is off, ...
ServiceRefuses ==
    /\ queue # <<>> /\ queue' = Tail(queue)
    /\ ~enabled
    /\ UNCHANGED <<screenVars, feedTime, bufferVars, feedVars>>

\* ... dropped when it repeats, ...
ServiceDrops ==
    /\ queue # <<>> /\ queue' = Tail(queue)
    /\ Recent(Head(queue), feedTime)
    /\ seenErrors' = Kept
    /\ UNCHANGED <<screenVars, feedTime, pending, lastQueued, feedVars>>

\* ... and otherwise queued for the next analysis and listed.
ServiceTakes ==
    /\ queue # <<>> /\ queue' = Tail(queue)
    /\ ~Recent(Head(queue), feedTime)
    /\ LET x    == Head(queue)
           item == [what |-> x, at |-> feedTime]
           next == KeepNewest(Append(Kept, item), SeenCap)
       IN  /\ seenErrors' = next
           /\ pending' = KeepNewest(Append(pending, item), PendingCap)
           /\ items' = FeedWith(items, item)
           /\ lastQueued' = [y \in Whats |-> IF y = x THEN feedTime
                               ELSE IF \E i \in DOMAIN Kept : Kept[i].what = y
                                       /\ \A k \in DOMAIN next : next[k] # Kept[i]
                               THEN Never ELSE lastQueued[y]]
    /\ UNCHANGED <<screenVars, feedTime, dismissed>>

\* The loop drains the buffer into an analysis, and lists the event-log errors
\* that were drained with it, which may be older than the poll that read them.
Analyse ==
    /\ \E x \in Events \cup {"none"}, age \in 0 .. 1 :
        /\ age <= feedTime
        /\ items' = IF x = "none" THEN items ELSE FeedWith(items, [what |-> x, at |-> feedTime - age])
    /\ pending' = <<>>
    /\ UNCHANGED <<screenVars, queue, feedTime, seenErrors, lastQueued, dismissed>>

\* Dismissed items are remembered for a while.
Forgotten(gone) == Front2(Reverse(gone) \o dismissed, 2 * FeedCap)

ClearFeed == /\ items # <<>> /\ items' = <<>>
             /\ dismissed' = Forgotten(items)
             /\ UNCHANGED <<screenVars, queue, feedTime, bufferVars>>

Dismiss == \E i \in DOMAIN items :
    /\ items' = Sifted(items, DOMAIN items \ {i})
    /\ dismissed' = Forgotten(<<items[i]>>)
    /\ UNCHANGED <<screenVars, queue, feedTime, bufferVars>>

NoticedNext == \/ ScreenChanges \/ Switches \/ TimePasses
               \/ TrayPoll \/ ServiceRefuses \/ ServiceDrops \/ ServiceTakes \/ Analyse \/ ClearFeed \/ Dismiss

NoticedSpec == NoticedInit /\ [][NoticedNext]_noticedVars

-----------------------------------------------------------------------------
(* Properties *)

\* "An identical item already in the feed this recently is not repeated", nor
\* one cleared or dismissed: nothing is listed twice, or again, within the
\* window, whatever order the reports and their times come in (Feed).
ListedOnce ==
    LET all == items \o dismissed
    IN  \A i, k \in DOMAIN all : i # k => ~Repeats(all[i], all[k])

\* "A dialog that keeps reappearing (or a tray restart re-reporting it) cannot
\* drive repeated analyses" (ScreenErrorBuffer): the same message is queued for
\* an analysis once per window, unless the full memory dropped it.
QueuedOnce ==
    [][\A x \in Whats : lastQueued[x] # Never /\ lastQueued'[x] # lastQueued[x]
          => lastQueued'[x] = Never \/ lastQueued'[x] >= lastQueued[x] + RepeatWindow]_noticedVars

\* One property for the runs: what is noticed is told and listed once.
NoticedSound == [](NoticedTypeOK /\ ListedOnce) /\ QueuedOnce
=============================================================================
