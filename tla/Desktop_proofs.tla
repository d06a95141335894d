--------------------------- MODULE Desktop_proofs ----------------------------
(***************************************************************************)
(* Proofs about what a client has of the service: PipeLink, for any        *)
(* requests, queues and ends of the pipe and any number of connections;    *)
(* AskEir, for any questions, problems and room and any number of clients' *)
(* steps; and Settings, for any files and requests of the right shape, any *)
(* caps and any number of commands, crashes and starts.                    *)
(***************************************************************************)
EXTENDS PipeLink, AskEir, Settings, Sifting_proofs, FiniteSetTheorems, SequenceTheorems, TLAPS

-----------------------------------------------------------------------------
(* PipeLink *)

(* A request is in a queue, and in no two places of it. *)
In(r, s) == \E i \in DOMAIN s : s[i] = r
Once(s) == \A i, j \in DOMAIN s : s[i] = s[j] => i = j

(* The results the service sends. *)
Answers == [kind : {"result"}, id : Requests, ok : BOOLEAN]

(* What the link's variables hold, beyond LinkTypeOK.                      *)
LinkShapes ==
    /\ LinkTypeOK
    /\ {queuedLink, sentLink} \subseteq [Requests -> Nat] /\ answered \in [Requests -> BOOLEAN]
    /\ flag \in BOOLEAN /\ caps \in BOOLEAN /\ link \in Nat
    /\ {cmdQueue, up, uiQueue} \subseteq Seq(Requests)
    /\ ring \in Seq(Answers)
    /\ down \in Seq(Answers \cup {Status})

(* Where the caller of a command not yet sent may be. *)
Unsent == {"new", "checked", "registered", "plain", "refused"}

(* A command is in one place: not yet sent, in one of the three queues it  *)
(* passes through and there once, or handled.                              *)
OnePlace ==
    /\ Once(cmdQueue) /\ Once(up) /\ Once(uiQueue)
    /\ \A r \in Requests :
        /\ In(r, cmdQueue) => ~In(r, up) /\ ~In(r, uiQueue) /\ ~answered[r] /\ sentLink[r] = 0
        /\ In(r, up) => ~In(r, uiQueue) /\ ~answered[r]
        /\ In(r, uiQueue) => ~answered[r]
        /\ caller[r] \in Unsent => /\ ~In(r, cmdQueue) /\ ~In(r, up) /\ ~In(r, uiQueue)
                                   /\ ~answered[r] /\ sentLink[r] = 0

(* Every result on its way to the tray, and every one a caller was given,  *)
(* is of a command that was handled.                                       *)
AnswersReal ==
    /\ \A i \in DOMAIN ring : answered[ring[i].id]
    /\ \A i \in DOMAIN down : down[i].kind = "result" => answered[down[i].id]
    /\ \A r \in Requests : caller[r] \in {"ok", "rejected"} => answered[r]

(* What waits to be written was queued under this connection, before its   *)
(* drain, or under none.                                                   *)
QueuedForThis ==
    \A r \in Requests : In(r, cmdQueue) /\ queuedLink[r] # 0 =>
                            queuedLink[r] = link /\ trayLink \in {"up", "ended"}

(* The inductive invariant of the link. *)
LinkInv ==
    LinkShapes /\ OnePlace /\ AnswersReal /\ QueuedForThis /\ NothingLeftOver /\ DrainedNotReplayed

USE PipeLinkAssumption

-----------------------------------------------------------------------------
(* Queues in which nothing occurs twice *)

(* A queue grows at its end by what is pushed. *)
LEMMA QueueGrows ==
    ASSUME NEW R, NEW s \in Seq(R), NEW x \in R
    PROVE  /\ Append(s, x) \in Seq(R) /\ Len(Append(s, x)) = Len(s) + 1
           /\ \A r : In(r, Append(s, x)) <=> In(r, s) \/ r = x
           /\ Once(s) /\ ~In(x, s) => Once(Append(s, x))
<1> DEFINE t == Append(s, x)
<1>1. /\ t \in Seq(R) /\ DOMAIN t = 1..Len(s) + 1 /\ DOMAIN s = 1..Len(s) /\ Len(s) \in Nat
      /\ \A i \in 1..Len(s) : t[i] = s[i]
      /\ t[Len(s) + 1] = x /\ Len(t) = Len(s) + 1
  OBVIOUS
<1> HIDE DEF t
<1>2. \A r : In(r, t) <=> In(r, s) \/ r = x
  BY <1>1 DEF In
<1>3. Once(s) /\ ~In(x, s) => Once(t)
  BY <1>1 DEF In, Once
<1> QED
  BY <1>1, <1>2, <1>3 DEF t

(* What is taken from a queue of distinct requests is not in it any more. *)
LEMMA QueueShrinks ==
    ASSUME NEW R, NEW s \in Seq(R), s # <<>>
    PROVE  /\ Head(s) \in R /\ Tail(s) \in Seq(R) /\ Len(Tail(s)) = Len(s) - 1 /\ Len(s) \in Nat
           /\ \A i \in DOMAIN Tail(s) : i + 1 \in DOMAIN s /\ Tail(s)[i] = s[i + 1]
           /\ 1 \in DOMAIN s /\ Head(s) = s[1]
           /\ \A r : In(r, s) <=> In(r, Tail(s)) \/ r = Head(s)
           /\ Once(s) => Once(Tail(s)) /\ ~In(Head(s), Tail(s))
<1> DEFINE t == Tail(s)
<1>1. /\ t \in Seq(R) /\ DOMAIN t = 1..Len(s) - 1 /\ DOMAIN s = 1..Len(s) /\ Len(s) \in Nat
      /\ Len(s) > 0 /\ \A i \in 1..Len(s) - 1 : t[i] = s[i + 1]
      /\ s[1] = Head(s) /\ Len(t) = Len(s) - 1 /\ Head(s) \in R
  OBVIOUS
<1> HIDE DEF t
<1>2. \A r : In(r, s) <=> In(r, t) \/ r = Head(s)
  <2>1. ASSUME NEW r, In(r, s) PROVE In(r, t) \/ r = Head(s)
    <3>1. PICK i \in 1..Len(s) : s[i] = r
      BY <1>1, <2>1 DEF In
    <3>2. CASE i = 1
      BY <1>1, <3>1, <3>2
    <3>3. CASE i # 1
      <4>1. i - 1 \in 1..Len(s) - 1 /\ t[i - 1] = r
        BY <1>1, <3>1, <3>3
      <4> QED
        BY <1>1, <4>1 DEF In
    <3> QED
      BY <3>2, <3>3
  <2>2. ASSUME NEW r, In(r, t) \/ r = Head(s) PROVE In(r, s)
    <3>1. CASE r = Head(s)
      BY <1>1, <3>1 DEF In
    <3>2. ASSUME NEW i \in DOMAIN t, t[i] = r PROVE In(r, s)
      <4>1. i + 1 \in DOMAIN s /\ s[i + 1] = r
        BY <1>1, <3>2
      <4> QED
        BY <4>1 DEF In
    <3> QED
      BY <2>2, <3>1, <3>2 DEF In
  <2> QED
    BY <2>1, <2>2
<1>3. Once(s) => Once(t) /\ ~In(Head(s), t)
  <2> SUFFICES ASSUME Once(s) PROVE Once(t) /\ ~In(Head(s), t)
    OBVIOUS
  <2>1. ASSUME NEW i \in DOMAIN t, NEW j \in DOMAIN t, t[i] = t[j] PROVE i = j
    <3>1. i + 1 \in DOMAIN s /\ j + 1 \in DOMAIN s /\ s[i + 1] = s[j + 1]
      BY <1>1, <2>1
    <3>2. i + 1 = j + 1
      BY <3>1 DEF Once
    <3> QED
      BY <1>1, <3>2
  <2>2. ASSUME NEW i \in DOMAIN t, t[i] = Head(s) PROVE FALSE
    <3>1. i + 1 \in DOMAIN s /\ 1 \in DOMAIN s /\ s[i + 1] = s[1]
      BY <1>1, <2>2
    <3>2. i + 1 = 1
      BY <3>1 DEF Once
    <3> QED
      BY <1>1, <3>2
  <2> QED
    BY <2>1, <2>2 DEF Once, In
<1>4. \A i \in DOMAIN t : i + 1 \in DOMAIN s
  BY <1>1
<1> QED
  BY <1>1, <1>2, <1>3, <1>4 DEF t

(* What occurs once is counted once. *)
LEMMA Counted ==
    ASSUME NEW R, NEW s \in Seq(R), Once(s), NEW r
    PROVE  Cardinality({i \in DOMAIN s : s[i] = r}) = IF In(r, s) THEN 1 ELSE 0
<1>1. CASE In(r, s)
  <2>1. PICK i \in DOMAIN s : s[i] = r
    BY <1>1 DEF In
  <2>2. {j \in DOMAIN s : s[j] = r} = {i}
    BY <2>1 DEF Once
  <2> QED
    BY <1>1, <2>2, FS_Singleton
<1>2. CASE ~In(r, s)
  <2>1. {j \in DOMAIN s : s[j] = r} = {}
    BY <1>2 DEF In
  <2> QED
    BY <1>2, <2>1, FS_EmptySet
<1> QED
  BY <1>1, <1>2

(* Nothing is in an empty queue. *)
LEMMA QueueEmpty == \A R : <<>> \in Seq(R) /\ Once(<<>>) /\ (\A r : ~In(r, <<>>)) /\ Len(<<>>) = 0
  BY DEF Once, In

(* A caller is told what happened to its command, which is in at most one  *)
(* place of its way.                                                       *)
LEMMA ToldOnceEach ==
    ASSUME LinkInv PROVE ToldTrue
<1> SUFFICES ASSUME NEW r \in Requests
             PROVE  /\ Told(r, {"ok", "rejected"}) => answered[r]
                    /\ Told(r, {"refused"}) => ~answered[r] /\ sentLink[r] = 0
                    /\ Cardinality({i \in DOMAIN cmdQueue : cmdQueue[i] = r})
                       + Cardinality({i \in DOMAIN up : up[i] = r})
                       + Cardinality({i \in DOMAIN uiQueue : uiQueue[i] = r})
                       + (IF answered[r] THEN 1 ELSE 0) <= 1
  BY DEF ToldTrue
<1>1. Told(r, {"ok", "rejected"}) => answered[r]
  BY DEF LinkInv, AnswersReal, Told
<1>2. Told(r, {"refused"}) => ~answered[r] /\ sentLink[r] = 0
  BY DEF LinkInv, OnePlace, Told, Unsent
<1>3. /\ Cardinality({i \in DOMAIN cmdQueue : cmdQueue[i] = r}) = IF In(r, cmdQueue) THEN 1 ELSE 0
      /\ Cardinality({i \in DOMAIN up : up[i] = r}) = IF In(r, up) THEN 1 ELSE 0
      /\ Cardinality({i \in DOMAIN uiQueue : uiQueue[i] = r}) = IF In(r, uiQueue) THEN 1 ELSE 0
  BY Counted DEF LinkInv, LinkShapes, OnePlace
<1> QED
  BY <1>1, <1>2, <1>3 DEF LinkInv, OnePlace

-----------------------------------------------------------------------------
(* The invariant of the link *)

(* It holds before the first connection. *)
LEMMA LinkInitInv == LinkInit => LinkInv
<1> SUFFICES ASSUME LinkInit PROVE LinkInv
  OBVIOUS
<1>1. LinkShapes
  <2>1. LinkTypeOK
    BY QueueEmpty DEF LinkInit, LinkTypeOK
  <2>2. {cmdQueue, up, uiQueue} \subseteq Seq(Requests)
    BY DEF LinkInit
  <2>3. /\ ring \in Seq(Answers)
        /\ down \in Seq(Answers \cup {Status})
    BY QueueEmpty DEF LinkInit
  <2>4. queuedLink \in [Requests -> Nat] /\ sentLink \in [Requests -> Nat] /\ answered \in [Requests -> BOOLEAN]
    BY DEF LinkInit
  <2> QED
    BY <2>1, <2>2, <2>3, <2>4 DEF LinkInit, LinkShapes
<1> QED
  BY <1>1, QueueEmpty
  DEF LinkInit, LinkInv, OnePlace, AnswersReal, QueuedForThis, NothingLeftOver, DrainedNotReplayed

(* A connection that is made finds no command queued under an earlier one. *)
LEMMA ConnectInv ==
    ASSUME LinkInv, NEW c, NEW s, Connect(c, s) \/ ConnectFails(c, s) PROVE LinkInv'
<1>1. CASE Connect(c, s)
  BY <1>1, QueueEmpty
  DEF Connect, LinkInv, LinkShapes, LinkTypeOK, OnePlace, AnswersReal, QueuedForThis,
      NothingLeftOver, DrainedNotReplayed, callerVars
<1>2. CASE ConnectFails(c, s)
  <2> USE DEF LinkInv, callerVars, pipeVars
  <2>1. cmdQueue' = <<>> /\ waiting' = {} /\ caps' = FALSE
    BY <1>2 DEF ConnectFails
  <2>2. UNCHANGED <<callerVars, trayLink, flag, pipeVars, answered, uiQueue>>
    BY <1>2 DEF ConnectFails
  <2>3. LinkShapes'
    <3>1. cmdQueue' \in Seq(Requests) /\ Len(cmdQueue') <= QueueCap
      BY <2>1, QueueEmpty
    <3> QED
      BY <2>1, <2>2, <3>1 DEF LinkShapes, LinkTypeOK
  <2>4. OnePlace' /\ AnswersReal'
    BY <2>1, <2>2, QueueEmpty DEF OnePlace, AnswersReal
  <2>5. QueuedForThis' /\ NothingLeftOver' /\ DrainedNotReplayed'
    BY <2>1, <2>2, QueueEmpty DEF QueuedForThis, NothingLeftOver, DrainedNotReplayed
  <2> QED
    BY <2>3, <2>4, <2>5
<1> QED
  BY <1>1, <1>2

(* The caller's steps but for its send leave the queues as they are.       *)
LEMMA CallerInv ==
    ASSUME LinkInv, NEW r \in Requests,
           EnsureConnected(r) \/ AwaitReply(r) \/ ReplyDropped(r) \/ ReplyTimeout(r)
    PROVE  LinkInv'
<1> USE DEF LinkInv, LinkShapes, LinkTypeOK, OnePlace, AnswersReal, QueuedForThis, Unsent,
            NothingLeftOver, DrainedNotReplayed, At, To, trayVars, pipeVars
<1>1. CASE EnsureConnected(r)
  BY <1>1 DEF EnsureConnected
<1>2. CASE AwaitReply(r)
  BY <1>2 DEF AwaitReply
<1>3. CASE ReplyDropped(r)
  BY <1>3 DEF ReplyDropped
<1>4. CASE ReplyTimeout(r)
  BY <1>4 DEF ReplyTimeout
<1> QED
  BY <1>1, <1>2, <1>3, <1>4

(* What a caller sends takes one place, or none when the queue is full. *)
LEMMA TrySendInv ==
    ASSUME LinkInv, NEW r \in Requests, TrySend(r) PROVE LinkInv'
<1> USE DEF LinkInv, LinkShapes, LinkTypeOK, At, To, pipeVars
<1>1. CASE Len(cmdQueue) < QueueCap
  <2>1. /\ cmdQueue' = Append(cmdQueue, r)
        /\ caller[r] \in {"registered", "plain"}
        /\ caller' = [caller EXCEPT ![r] = IF caller[r] = "plain" THEN "unconfirmed" ELSE "waiting"]
        /\ queuedLink' = [queuedLink EXCEPT ![r] = IF trayLink \in {"up", "ended"} THEN link ELSE 0]
        /\ UNCHANGED <<waiting, sentLink, trayLink, flag, caps, answered, pipeVars, uiQueue>>
    BY <1>1 DEF TrySend
  <2>2. /\ cmdQueue' \in Seq(Requests) /\ Len(cmdQueue') <= QueueCap
        /\ \A q : In(q, cmdQueue') <=> In(q, cmdQueue) \/ q = r
        /\ Once(cmdQueue) /\ ~In(r, cmdQueue) => Once(cmdQueue')
    BY <1>1, <2>1, QueueGrows
  <2>3. LinkShapes'
    BY <2>1, <2>2
  <2>4. OnePlace'
    BY <2>1, <2>2 DEF OnePlace, Unsent
  <2>5. QueuedForThis'
    BY <2>1, <2>2 DEF QueuedForThis
  <2> QED
    BY <2>1, <2>3, <2>4, <2>5 DEF AnswersReal, NothingLeftOver, DrainedNotReplayed, OnePlace, Unsent
<1>2. CASE ~(Len(cmdQueue) < QueueCap)
  <2>1. /\ waiting' = waiting \ {r} /\ caller[r] \in {"registered", "plain"}
        /\ caller' = [caller EXCEPT ![r] = "refused"]
        /\ UNCHANGED <<cmdQueue, queuedLink, sentLink, trayLink, flag, caps, answered, pipeVars, uiQueue>>
    BY <1>2 DEF TrySend
  <2>2. LinkShapes' /\ NothingLeftOver'
    BY <2>1 DEF NothingLeftOver
  <2> QED
    BY <2>1, <2>2 DEF OnePlace, Unsent, AnswersReal, QueuedForThis, DrainedNotReplayed
<1> QED
  BY <1>1, <1>2


-----------------------------------------------------------------------------
(* The two ends of a connection *)

(* A command goes from the queue to the pipe. *)
LEMMA TrayWritesInv == ASSUME LinkInv, TrayWrites PROVE LinkInv'
<1> USE DEF LinkInv
<1> DEFINE h == Head(cmdQueue)
<1>1. /\ cmdQueue # <<>> /\ cmdQueue' = Tail(cmdQueue) /\ up' = Append(up, h)
      /\ sentLink' = [sentLink EXCEPT ![h] = link] /\ trayLink = "up"
      /\ UNCHANGED <<caller, queuedLink, trayLink, flag, caps, waiting, link,
                     serving, session, down, ring, fresh, writer, answered, uiQueue>>
  BY DEF TrayWrites
<1>2. cmdQueue \in Seq(Requests) /\ up \in Seq(Requests)
  BY DEF LinkShapes
<1>3. /\ h \in Requests /\ cmdQueue' \in Seq(Requests) /\ Len(cmdQueue') = Len(cmdQueue) - 1
      /\ Len(cmdQueue) \in Nat
      /\ \A r : In(r, cmdQueue) <=> In(r, cmdQueue') \/ r = h
      /\ Once(cmdQueue) => Once(cmdQueue') /\ ~In(h, cmdQueue')
  BY <1>1, <1>2, QueueShrinks
<1>4. /\ up' \in Seq(Requests)
      /\ \A r : In(r, up') <=> In(r, up) \/ r = h
      /\ Once(up) /\ ~In(h, up) => Once(up')
  BY <1>1, <1>2, <1>3, QueueGrows
<1> HIDE DEF h
<1>5. LinkShapes'
  BY SMTT(20), <1>1, <1>3, <1>4 DEF LinkShapes, LinkTypeOK
<1>6. OnePlace'
  BY <1>1, <1>3, <1>4 DEF LinkShapes, OnePlace, Unsent
<1>7. AnswersReal' /\ QueuedForThis' /\ NothingLeftOver'
  BY <1>1, <1>3 DEF AnswersReal, QueuedForThis, NothingLeftOver
<1>8. DrainedNotReplayed'
  BY <1>1, <1>3 DEF LinkShapes, QueuedForThis, DrainedNotReplayed
<1> QED
  BY <1>5, <1>6, <1>7, <1>8

(* A result, or a status, goes from the pipe to the tray and its callers. *)
LEMMA TrayReadsInv == ASSUME LinkInv, TrayReads PROVE LinkInv'
<1> USE DEF LinkInv
<1> DEFINE m == Head(down)
<1>1. /\ down # <<>> /\ down' = Tail(down) /\ trayLink = "up"
      /\ UNCHANGED <<queuedLink, sentLink, trayLink, flag, cmdQueue, link, serving,
                     session, up, ring, fresh, writer, answered, uiQueue>>
  BY DEF TrayReads
<1>2. down \in Seq(Answers \cup {Status})
  BY DEF LinkShapes
<1>3. /\ m \in Answers \cup {Status} /\ down' \in Seq(Answers \cup {Status}) /\ m = down[1] /\ 1 \in DOMAIN down
      /\ \A i \in DOMAIN down' : i + 1 \in DOMAIN down /\ down'[i] = down[i + 1]
  BY <1>1, <1>2, QueueShrinks
<1>4. \A i \in DOMAIN down' : down'[i].kind = "result" => answered[down'[i].id]
  BY <1>3 DEF AnswersReal
<1>5. CASE m.kind = "status"
  <2>1. caps' = TRUE /\ UNCHANGED <<caller, waiting>>
    BY <1>5 DEF TrayReads
  <2> QED
    BY <1>1, <1>3, <1>4, <2>1
    DEF LinkShapes, LinkTypeOK, OnePlace, Unsent, AnswersReal, QueuedForThis,
        NothingLeftOver, DrainedNotReplayed
<1>6. CASE m.kind # "status"
  <2>1. /\ caller' = [r \in Requests |-> IF r \in Waiter(m) /\ caller[r] = "waiting"
                                         THEN (IF m.ok THEN "ok" ELSE "rejected") ELSE caller[r]]
        /\ waiting' = waiting \ Waiter(m) /\ caps' = caps
    BY <1>6 DEF TrayReads
  <2>2. m \in Answers /\ m.kind = "result" /\ answered[m.id]
    BY <1>3, <1>6 DEF AnswersReal, Status, Answers
  <2> HIDE DEF m
  <2>3. \A r \in Waiter(m) : r = m.id
    BY DEF Waiter
  <2>4. LinkShapes'
    BY <1>1, <1>3, <2>1 DEF LinkShapes, LinkTypeOK
  <2>5. OnePlace' /\ QueuedForThis' /\ DrainedNotReplayed'
    BY <1>1, <2>1 DEF OnePlace, Unsent, QueuedForThis, DrainedNotReplayed
  <2>6. AnswersReal'
    BY <1>1, <1>4, <2>1, <2>2, <2>3 DEF AnswersReal, Answers
  <2>7. NothingLeftOver'
    BY <1>1, <2>1 DEF NothingLeftOver, LinkShapes, LinkTypeOK
  <2> QED
    BY <2>4, <2>5, <2>6, <2>7
<1> QED
  BY <1>5, <1>6

(* The connection ends on the side of the client, which drops what was     *)
(* queued.                                                                 *)
LEMMA TrayEndsInv ==
    ASSUME LinkInv, TrayEnds \/ TrayDrains \/ TrayClears PROVE LinkInv'
<1> USE DEF LinkInv, callerVars, pipeVars
<1>1. CASE TrayEnds
  BY <1>1
  DEF TrayEnds, LinkShapes, LinkTypeOK, OnePlace, AnswersReal, QueuedForThis,
      NothingLeftOver, DrainedNotReplayed
<1>2. CASE TrayDrains
  <2>1. /\ trayLink = "ended" /\ trayLink' = "drained" /\ cmdQueue' = <<>>
        /\ UNCHANGED <<callerVars, flag, caps, waiting, pipeVars, answered, uiQueue>>
    BY <1>2 DEF TrayDrains, NoQueue
  <2>2. LinkShapes'
    BY <2>1, QueueEmpty DEF LinkShapes, LinkTypeOK
  <2>3. OnePlace' /\ AnswersReal'
    BY <2>1, QueueEmpty DEF OnePlace, AnswersReal
  <2> QED
    BY <2>1, <2>2, <2>3, QueueEmpty DEF QueuedForThis, NothingLeftOver, DrainedNotReplayed
<1>3. CASE TrayClears
  BY <1>3
  DEF TrayClears, LinkShapes, LinkTypeOK, OnePlace, AnswersReal, QueuedForThis,
      NothingLeftOver, DrainedNotReplayed
<1> QED
  BY <1>1, <1>2, <1>3

(* A command goes from the pipe to the queue of the loop. *)
LEMMA ServiceReadsInv == ASSUME LinkInv, ServiceReads PROVE LinkInv'
<1> USE DEF LinkInv, callerVars, trayVars
<1> DEFINE h == Head(up)
<1>1. /\ up # <<>> /\ up' = Tail(up) /\ uiQueue' = Append(uiQueue, h) /\ Len(uiQueue) < QueueCap
      /\ UNCHANGED <<callerVars, trayVars, link, serving, session, down, ring, fresh, writer, answered>>
  BY DEF ServiceReads
<1>2. up \in Seq(Requests) /\ uiQueue \in Seq(Requests)
  BY DEF LinkShapes
<1>3. /\ h \in Requests /\ up' \in Seq(Requests)
      /\ \A r : In(r, up) <=> In(r, up') \/ r = h
      /\ Once(up) => Once(up') /\ ~In(h, up')
  BY <1>1, <1>2, QueueShrinks
<1>4. /\ uiQueue' \in Seq(Requests) /\ Len(uiQueue') <= QueueCap
      /\ \A r : In(r, uiQueue') <=> In(r, uiQueue) \/ r = h
      /\ Once(uiQueue) /\ ~In(h, uiQueue) => Once(uiQueue')
  BY <1>1, <1>2, <1>3, QueueGrows
<1> HIDE DEF h
<1>5. LinkShapes'
  BY <1>1, <1>3, <1>4 DEF LinkShapes, LinkTypeOK
<1>6. OnePlace'
  BY <1>1, <1>3, <1>4 DEF OnePlace, Unsent
<1> QED
  BY <1>1, <1>5, <1>6 DEF AnswersReal, QueuedForThis, NothingLeftOver, DrainedNotReplayed


(* The loop handles a command once, and its result goes into the ring. *)
LEMMA ServiceHandlesInv ==
    ASSUME LinkInv, NEW ok \in BOOLEAN, ServiceHandles(ok) PROVE LinkInv'
<1> USE DEF LinkInv, callerVars, trayVars
<1> DEFINE r == Head(uiQueue)
           kept == IF Len(ring) = RingCap THEN Tail(ring) ELSE ring
<1>1. /\ uiQueue # <<>> /\ uiQueue' = Tail(uiQueue) /\ answered' = [answered EXCEPT ![r] = TRUE]
      /\ ring' = IF serving /\ caller[r] # "unconfirmed" THEN Append(kept, Result(r, ok)) ELSE ring
      /\ UNCHANGED <<callerVars, trayVars, link, serving, session, up, down, fresh, writer>>
  BY DEF ServiceHandles
<1>2. uiQueue \in Seq(Requests) /\ ring \in Seq(Answers) /\ Len(ring) <= RingCap /\ Len(ring) \in Nat
  BY DEF LinkShapes, LinkTypeOK
<1>3. /\ r \in Requests /\ uiQueue' \in Seq(Requests) /\ Len(uiQueue') = Len(uiQueue) - 1
      /\ Len(uiQueue) \in Nat
      /\ \A q : In(q, uiQueue) <=> In(q, uiQueue') \/ q = r
      /\ Once(uiQueue) => Once(uiQueue') /\ ~In(r, uiQueue')
  BY <1>1, <1>2, QueueShrinks
<1> HIDE DEF r
<1>4. answered' \in [Requests -> BOOLEAN] /\ \A q \in Requests : answered'[q] <=> answered[q] \/ q = r
  BY <1>1, <1>3 DEF LinkShapes
<1>5. /\ kept \in Seq(Answers) /\ Len(kept) < RingCap
      /\ \A i \in DOMAIN kept : answered[kept[i].id]
  <2>1. CASE Len(ring) = RingCap
    <3>1. ring # <<>>
      BY <2>1
    <3> QED
      BY <1>2, <2>1, <3>1, QueueShrinks DEF AnswersReal
  <2>2. CASE Len(ring) # RingCap
    BY <1>2, <2>2 DEF AnswersReal
  <2> QED
    BY <2>1, <2>2
<1> HIDE DEF kept
<1>6. /\ ring' \in Seq(Answers) /\ Len(ring') <= RingCap
      /\ \A i \in DOMAIN ring' : answered'[ring'[i].id]
  <2>1. CASE serving /\ caller[r] # "unconfirmed"
    <3>1. Result(r, ok) \in Answers /\ Result(r, ok).id = r
      BY <1>3 DEF Result, Answers
    <3>2. ring' = Append(kept, Result(r, ok))
      BY <1>1, <2>1
    <3>3. /\ ring' \in Seq(Answers) /\ Len(ring') = Len(kept) + 1
          /\ \A q : In(q, ring') <=> In(q, kept) \/ q = Result(r, ok)
      BY <1>5, <3>1, <3>2, QueueGrows
    <3>4. ASSUME NEW i \in DOMAIN ring' PROVE answered'[ring'[i].id]
      <4>1. ring'[i] \in Answers /\ In(ring'[i], ring')
        BY <3>3 DEF In
      <4>2. CASE In(ring'[i], kept)
        BY <1>4, <1>5, <4>1, <4>2 DEF In, Answers
      <4>3. CASE ring'[i] = Result(r, ok)
        BY <1>3, <1>4, <3>1, <4>3
      <4> QED
        BY <3>3, <4>1, <4>2, <4>3
    <3> QED
      BY <1>5, <3>3, <3>4
  <2>2. CASE ~(serving /\ caller[r] # "unconfirmed")
    <3>1. ring' = ring
      BY <1>1, <2>2
    <3>2. \A i \in DOMAIN ring : ring[i].id \in Requests
      <4>1. \A i \in DOMAIN ring : ring[i] \in Answers
        BY <1>2
      <4> QED
        BY <4>1 DEF Answers
    <3> QED
      BY <1>2, <1>4, <3>1, <3>2 DEF AnswersReal
  <2> QED
    BY <2>1, <2>2
<1>7. LinkShapes'
  <2>1. Len(uiQueue') <= QueueCap
    BY <1>3 DEF LinkShapes, LinkTypeOK
  <2>2. LinkTypeOK'
    BY <1>1, <1>6, <2>1 DEF LinkShapes, LinkTypeOK
  <2> QED
    BY <1>1, <1>3, <1>4, <1>6, <2>2 DEF LinkShapes
<1>8. OnePlace'
  BY <1>1, <1>3, <1>4 DEF OnePlace, Unsent
<1>9. AnswersReal'
  <2>1. \A i \in DOMAIN down : down[i].kind = "result" => down[i].id \in Requests
    BY DEF LinkShapes, Status, Answers
  <2> QED
    BY <1>1, <1>4, <1>6, <2>1 DEF AnswersReal
<1> QED
  BY <1>1, <1>7, <1>8, <1>9 DEF QueuedForThis, NothingLeftOver, DrainedNotReplayed

(* The writer sends the status, or the next result of the ring. *)
LEMMA WriterInv ==
    ASSUME LinkInv, WriteStatus \/ WriteResult PROVE LinkInv'
<1> USE DEF LinkInv, callerVars, trayVars
<1>1. down \in Seq(Answers \cup {Status}) /\ ring \in Seq(Answers) /\ Len(ring) <= RingCap
  BY DEF LinkShapes, LinkTypeOK
<1>2. /\ UNCHANGED <<callerVars, trayVars, link, up, answered, uiQueue>>
      /\ \E m \in Answers \cup {Status} :
            /\ down' = Append(down, m)
            /\ m.kind = "result" => answered[m.id]
      /\ ring' \in Seq(Answers) /\ Len(ring') <= RingCap
      /\ \A i \in DOMAIN ring' : answered[ring'[i].id]
  <2>1. CASE WriteStatus
    <3>1. Status.kind # "result"
      BY DEF Status
    <3> QED
      BY <1>1, <2>1, <3>1 DEF WriteStatus, AnswersReal
  <2>2. CASE WriteResult
    <3>1. ring # <<>> /\ down' = Append(down, Head(ring)) /\ ring' = Tail(ring)
      BY <2>2 DEF WriteResult
    <3>2. /\ Head(ring) \in Answers /\ ring' \in Seq(Answers) /\ Len(ring') = Len(ring) - 1 /\ Len(ring) \in Nat
          /\ Head(ring) = ring[1] /\ 1 \in DOMAIN ring
          /\ \A i \in DOMAIN ring' : i + 1 \in DOMAIN ring /\ ring'[i] = ring[i + 1]
      BY <1>1, <3>1, QueueShrinks
    <3>3. answered[Head(ring).id] /\ \A i \in DOMAIN ring' : answered[ring'[i].id]
      BY <3>2 DEF AnswersReal
    <3> QED
      BY <1>1, <2>2, <3>1, <3>2, <3>3 DEF WriteResult
  <2> QED
    BY <2>1, <2>2
<1>3. PICK m \in Answers \cup {Status} : down' = Append(down, m) /\ (m.kind = "result" => answered[m.id])
  BY <1>2
<1>4. /\ down' \in Seq(Answers \cup {Status})
      /\ \A q : In(q, down') <=> In(q, down) \/ q = m
  BY <1>1, <1>3, QueueGrows
<1>5. \A i \in DOMAIN down' : down'[i].kind = "result" => answered[down'[i].id]
  BY <1>3, <1>4 DEF In, AnswersReal
<1>6. LinkShapes' /\ AnswersReal'
  BY <1>2, <1>4, <1>5 DEF LinkShapes, LinkTypeOK, AnswersReal
<1> QED
  BY <1>2, <1>6 DEF OnePlace, Unsent, QueuedForThis, NothingLeftOver, DrainedNotReplayed

(* The rest of the service's end drops what it had, or nothing.            *)
LEMMA ServiceEndsInv ==
    ASSUME LinkInv, StatusChanges \/ WriterEnds \/ SessionLost \/ ServiceEnds \/ ServiceStops
    PROVE  LinkInv'
<1> USE DEF LinkInv, callerVars, trayVars
<1>1. /\ UNCHANGED <<callerVars, trayVars, link, down, answered>>
      /\ up' \in {up, <<>>} /\ uiQueue' \in {uiQueue, <<>>} /\ ring' \in {ring, <<>>}
  BY DEF StatusChanges, WriterEnds, SessionLost, ServiceEnds, ServiceStops
<1>2. LinkShapes'
  <2>1. up' \in Seq(Requests) /\ uiQueue' \in Seq(Requests) /\ Len(uiQueue') <= QueueCap
    <3>1. {up, <<>>} \subseteq Seq(Requests) /\ {uiQueue, <<>>} \subseteq Seq(Requests)
      BY DEF LinkShapes
    <3>2. Len(uiQueue) <= QueueCap /\ Len(<<>>) <= QueueCap
      BY QueueEmpty DEF LinkShapes, LinkTypeOK
    <3> QED
      BY <1>1, <3>1, <3>2
  <2>2. ring' \in Seq(Answers) /\ Len(ring') <= RingCap
    <3>1. {ring, <<>>} \subseteq Seq(Answers) /\ Len(ring) <= RingCap /\ Len(<<>>) <= RingCap
      BY QueueEmpty DEF LinkShapes, LinkTypeOK
    <3> QED
      BY <1>1, <3>1
  <2> QED
    BY <1>1, <2>1, <2>2 DEF LinkShapes, LinkTypeOK
<1>3. OnePlace'
  BY <1>1, QueueEmpty DEF OnePlace, Unsent
<1>4. AnswersReal'
  <2>1. DOMAIN <<>> = {}
    OBVIOUS
  <2> QED
    BY <1>1, <2>1 DEF AnswersReal
<1> QED
  BY <1>1, <1>2, <1>3, <1>4 DEF QueuedForThis, NothingLeftOver, DrainedNotReplayed

(* Every step of either end keeps the invariant. *)
LEMMA LinkNextInv == LinkInv /\ [LinkNext]_linkVars => LinkInv'
<1> SUFFICES ASSUME LinkInv, [LinkNext]_linkVars PROVE LinkInv'
  OBVIOUS
<1>1. CASE UNCHANGED linkVars
  BY <1>1
  DEF linkVars, callerVars, trayVars, pipeVars, LinkInv, LinkShapes, LinkTypeOK, OnePlace,
      AnswersReal, QueuedForThis, NothingLeftOver, DrainedNotReplayed
<1> QED
  BY <1>1, ConnectInv, CallerInv, TrySendInv, TrayWritesInv, TrayReadsInv, TrayEndsInv,
     ServiceReadsInv, ServiceHandlesInv, WriterInv, ServiceEndsInv
  DEF LinkNext

(* The link keeps its invariant, for any requests and sizes of queue. *)
THEOREM LinkInvariance == LinkSpec => []LinkInv
  BY LinkInitInv, LinkNextInv, PTL DEF LinkSpec

(* What a caller of the tray is told is true, and no command of a dead     *)
(* connection is replayed on a later one, however often either side fails. *)
THEOREM LinkIsSound == LinkSpec => []LinkSound
<1>1. LinkInv => LinkSound
  BY ToldOnceEach DEF LinkInv, LinkShapes, LinkSound
<1> QED
  BY <1>1, LinkInvariance, PTL

HIDE PipeLinkAssumption

-----------------------------------------------------------------------------
(* AskEir *)

(* What a history or a chat holds. *)
Entries == [q : Questions \cup Problems, at : Nat]

(* What the variables hold, beyond AskTypeOK. *)
AskShapes ==
    /\ askRunning \in BOOLEAN /\ carried \in BOOLEAN /\ askPaused \in BOOLEAN
    /\ answering \in [q : Questions \cup {Nobody}, history : Seq(Entries)]
    /\ entries \in Seq(Entries) /\ wanted \in Problems \cup {Nobody}
    /\ sending \in [q : Questions \cup {Nobody}, n : 0..AttCap, told : {"no", "accepted", "rejected"}]
    /\ pendingAtts \in 0..AttCap /\ picking \in 0..AttCap

(* The files a dialog may add fit, and while a question is on its way the  *)
(* list is empty, so that what comes back fits too.                        *)
RoomKept ==
    /\ picking # 0 => picking = AttCap - pendingAtts /\ sending = Idle
    /\ sending # Idle => sending.q # Nobody /\ pendingAtts = 0

(* The inductive invariant of Ask Eir. *)
AskInv == AskTypeOK /\ AskShapes /\ RoomKept

USE AskAssumption

(* The newest n of a list are at most n, and begin with its head. *)
LEMMA NewestOf ==
    ASSUME NEW R, NEW s \in Seq(R), NEW n \in Nat \ {0}
    PROVE  /\ Newest(n, s) \in Seq(R) /\ Len(Newest(n, s)) <= n
           /\ s # <<>> => Newest(n, s) # <<>> /\ Head(Newest(n, s)) = s[1]
<1> DEFINE k == IF Len(s) < n THEN Len(s) ELSE n
<1>1. k \in 0..Len(s) /\ k <= n /\ (s # <<>> => k > 0)
  OBVIOUS
<1> HIDE DEF k
<1>2. SubSeq(s, 1, k) \in Seq(R) /\ Len(SubSeq(s, 1, k)) = k /\ \A i \in 1..k : SubSeq(s, 1, k)[i] = s[i]
  BY <1>1
<1>3. k > 0 => SubSeq(s, 1, k) # <<>> /\ Head(SubSeq(s, 1, k)) = s[1]
  BY <1>1, <1>2
<1> QED
  BY <1>1, <1>2, <1>3 DEF Newest, k

(* What is pushed is the first entry, and the list stays bounded. *)
LEMMA PushedEntry ==
    ASSUME AskShapes, NEW r \in Questions \cup Problems, now \in Nat
    PROVE  /\ Pushed(r) \in Seq(Entries) /\ Len(Pushed(r)) <= EntryCap
           /\ Pushed(r) # <<>> /\ Head(Pushed(r)).q = r
<1> DEFINE e == [q |-> r, at |-> now]
           s == <<e>> \o entries
<1>1. e \in Entries /\ entries \in Seq(Entries)
  BY DEF AskShapes, Entries
<1> HIDE DEF e
<1>2. s \in Seq(Entries) /\ s # <<>> /\ s[1] = e
  BY <1>1
<1> HIDE DEF s
<1>3. Pushed(r) = Newest(EntryCap, s)
  BY DEF Pushed, s, e
<1>4. EntryCap \in Nat \ {0}
  OBVIOUS
<1>5. Newest(EntryCap, s) \in Seq(Entries) /\ Len(Newest(EntryCap, s)) <= EntryCap
      /\ Newest(EntryCap, s) # <<>> /\ Head(Newest(EntryCap, s)) = e
  BY <1>2, <1>4, NewestOf
<1> QED
  BY <1>3, <1>5 DEF e

(* An empty history is one. *)
LEMMA NoEntries ==
    /\ <<>> \in Seq(Entries) /\ Len(<<>>) = 0
    /\ [q |-> Nobody, history |-> <<>>] \in [q : Questions \cup {Nobody}, history : Seq(Entries)]
    /\ Idle \in [q : Questions \cup {Nobody}, n : 0..AttCap, told : {"no", "accepted", "rejected"}]
<1>1. <<>> \in Seq(Entries) /\ Len(<<>>) = 0
  OBVIOUS
<1> QED
  BY <1>1 DEF Idle

(* It holds when the service and the tray start. *)
LEMMA AskInitInv == AskInit => AskInv
<1> SUFFICES ASSUME AskInit PROVE AskInv
  OBVIOUS
<1>1. AskTypeOK
  BY NoEntries DEF AskInit, AskTypeOK, Idle
<1>2. AskShapes /\ RoomKept
  <2>1. RoomKept
    BY DEF AskInit, RoomKept, Idle
  <2>2. pendingAtts \in 0..AttCap /\ picking \in 0..AttCap
    BY DEF AskInit
  <2>3. entries \in Seq(Entries) /\ wanted \in Problems \cup {Nobody}
    BY NoEntries DEF AskInit
  <2>4. /\ answering \in [q : Questions \cup {Nobody}, history : Seq(Entries)]
        /\ sending \in [q : Questions \cup {Nobody}, n : 0..AttCap, told : {"no", "accepted", "rejected"}]
    BY NoEntries DEF AskInit
  <2> QED
    BY <2>1, <2>2, <2>3, <2>4 DEF AskInit, AskShapes
<1> QED
  BY <1>1, <1>2 DEF AskInv

(* What a question, or a request to investigate, does to the service.      *)
LEMMA AskHandled ==
    ASSUME AskInv, NEW q \in Questions, NEW good \in BOOLEAN, NEW n,
           HandleAsk(q, AskRejected(good, n))
    PROVE  /\ askRunning' \in BOOLEAN /\ (askRunning' <=> answering'.q # Nobody)
           /\ answering' \in [q : Questions \cup {Nobody}, history : Seq(Entries)]
           /\ Len(answering'.history) <= HistoryCap
           /\ askError' \in {"none", "rejected", "failed"}
           /\ askError' = "none" => askRunning' /\ ~askRunning
           /\ UNCHANGED <<now, entries, wanted, carried, askPaused>>
<1>1. CASE AskRejected(good, n)
  BY <1>1 DEF HandleAsk, AskInv, AskTypeOK, AskShapes
<1>2. CASE ~AskRejected(good, n)
  <2>1. Newest(HistoryCap, entries) \in Seq(Entries) /\ Len(Newest(HistoryCap, entries)) <= HistoryCap
    BY NewestOf DEF AskInv, AskShapes
  <2> QED
    BY <1>2, <2>1 DEF HandleAsk, AskRejected, Prompt, AskInv, AskTypeOK, AskShapes
<1> QED
  BY <1>1, <1>2

(* A Fix It is rejected, or takes its place in the queue of the service. *)
LEMMA FixHandled ==
    ASSUME AskInv, NEW p \in Problems, NEW good \in BOOLEAN, HandleFix(p, FixRejected(good))
    PROVE  /\ wanted' \in {wanted, p} /\ (wanted # Nobody => wanted' = wanted)
           /\ UNCHANGED <<now, askRunning, answering, askError, entries, carried, askPaused>>
  BY DEF HandleFix, FixRejected

(* A step keeps the invariant, and what is said of the request: a notice   *)
(* of a rejection is taken away by an accepted question or a cleared       *)
(* history alone, and a request leaves with its entry.                     *)
Spoken ==
    /\ askError = "rejected" /\ askError' = "none" =>
            entries' = <<>> \/ (askRunning' /\ ~askRunning)
    /\ wanted # Nobody /\ wanted' # wanted => entries' # <<>> /\ Head(entries').q = wanted

(* The answer is folded into the history, or its failure is. *)
LEMMA FoldAnswerKeeps ==
    ASSUME AskInv, NEW ok \in BOOLEAN, FoldAnswer(ok) PROVE AskInv' /\ Spoken
<1> USE DEF AskInv, trayAskVars
<1>1. answering.q \in Questions /\ now \in Nat
  BY DEF FoldAnswer, AskTypeOK, AskShapes
<1>2. /\ Pushed(answering.q) \in Seq(Entries) /\ Len(Pushed(answering.q)) <= EntryCap
  BY <1>1, PushedEntry
<1>3. entries' \in Seq(Entries) /\ Len(entries') <= EntryCap
  BY <1>2 DEF FoldAnswer, AskTypeOK, AskShapes
<1>4. answering' = [q |-> Nobody, history |-> <<>>]
  BY DEF FoldAnswer
<1>5. AskInv'
  <2>1. AskTypeOK'
    BY <1>3, <1>4, NoEntries DEF FoldAnswer, Carry, AskTypeOK
  <2>2. AskShapes' /\ RoomKept'
    <3>1. UNCHANGED <<now, wanted, carried, askPaused, asked, trayAskVars, ctl>> /\ askRunning' = FALSE
      BY DEF FoldAnswer
    <3>2. RoomKept'
      BY <3>1 DEF RoomKept
    <3> QED
      BY <1>3, <1>4, <3>1, <3>2, NoEntries DEF AskShapes
  <2> QED
    BY <2>1, <2>2
<1> QED
  BY <1>5 DEF FoldAnswer, Carry, Spoken

(* A request to investigate is taken up, and leaves with its entry. *)
LEMMA InvestigationKeeps ==
    ASSUME AskInv, StartInvestigation \/ FinishInvestigation PROVE AskInv' /\ Spoken
<1> USE DEF AskInv, trayAskVars
<1>1. CASE StartInvestigation
  BY <1>1 DEF StartInvestigation, AskTypeOK, AskShapes, RoomKept, Spoken
<1>2. CASE FinishInvestigation
  <2>1. wanted \in Problems /\ now \in Nat
    BY <1>2 DEF FinishInvestigation, AskTypeOK, AskShapes
  <2>2. /\ entries' \in Seq(Entries) /\ Len(entries') <= EntryCap
        /\ entries' # <<>> /\ Head(entries').q = wanted
    BY <1>2, <2>1, PushedEntry DEF FinishInvestigation
  <2> QED
    BY <1>2, <2>2 DEF FinishInvestigation, Carry, AskTypeOK, AskShapes, RoomKept, Spoken
<1> QED
  BY <1>1, <1>2

(* The history is cleared, Ask Eir is paused, and time passes. *)
LEMMA OtherServiceKeeps ==
    ASSUME AskInv, ClearAsk \/ TogglePause \/ Second PROVE AskInv' /\ Spoken
<1> USE DEF serviceVars, trayAskVars, AskInv
<1>1. CASE ClearAsk
  <2>1. AskTypeOK'
    BY <1>1, NoEntries DEF ClearAsk, AskTypeOK
  <2> QED
    BY <1>1, <2>1, NoEntries DEF ClearAsk, AskShapes, RoomKept, Spoken
<1>2. CASE TogglePause
  BY <1>2 DEF TogglePause, AskTypeOK, AskShapes, RoomKept, Spoken
<1>3. CASE Second
  <2>1. UNCHANGED <<serviceVars, askPaused, asked, trayAskVars, ctl>> /\ now < MaxNow /\ now' = now + 1
    BY <1>3 DEF Second
  <2>2. AskTypeOK'
    BY <2>1 DEF AskTypeOK
  <2> QED
    BY <2>1, <2>2 DEF AskShapes, RoomKept, Spoken
<1> QED
  BY <1>1, <1>2, <1>3

(* Files come and go within the room there is. *)
LEMMA AttachmentsKeep ==
    ASSUME AskInv, NEW n \in 0..AttCap, OpenPicker \/ ClosePicker(n) \/ RemoveAttachment
    PROVE  AskInv' /\ Spoken
<1> USE DEF AskInv, serviceVars
<1>1. UNCHANGED <<now, serviceVars, askPaused, sending, ctl>>
  BY DEF OpenPicker, ClosePicker, RemoveAttachment
<1>2. pendingAtts' \in 0..AttCap /\ picking' \in 0..AttCap /\ RoomKept'
  BY SMTT(20) DEF OpenPicker, ClosePicker, RemoveAttachment, Busy, AskShapes, RoomKept, Idle
<1>3. sending'.n + pendingAtts' \in 0..(2 * AttCap)
  BY SMTT(20), <1>1, <1>2 DEF AskShapes
<1> QED
  BY <1>1, <1>2, <1>3 DEF AskTypeOK, AskShapes, Spoken

(* A question the tray sends takes the attachments with it. *)
LEMMA TrayAskKeeps ==
    ASSUME AskInv, NEW q \in Questions, TrayAsk(q) PROVE AskInv' /\ Spoken
<1> USE DEF AskInv, serviceVars
<1>1. /\ UNCHANGED <<now, serviceVars, askPaused, picking>> /\ picking = 0
        /\ sending' = [q |-> q, n |-> pendingAtts, told |-> "no"] /\ pendingAtts' = 0
  BY DEF TrayAsk, Busy
<1> QED
  BY <1>1 DEF AskTypeOK, AskShapes, RoomKept, Idle, Spoken

(* What the service tells the tray gives the attachments back or drops     *)
(* them.                                                                   *)
LEMMA TrayKeeps ==
    ASSUME AskInv, NEW ok \in BOOLEAN, TrayAskHandled(ok) \/ TrayTold(ok)
    PROVE  AskInv' /\ Spoken
<1> USE DEF AskInv, serviceVars
<1>1. CASE TrayAskHandled(ok)
  <2>1. sending.q \in Questions /\ UNCHANGED <<pendingAtts, picking>>
        /\ HandleAsk(sending.q, AskRejected(ok, sending.n))
    BY <1>1 DEF TrayAskHandled, AskShapes
  <2>2. \E t \in {"accepted", "rejected"} : sending' = [sending EXCEPT !.told = t]
    BY <1>1 DEF TrayAskHandled
  <2>3. /\ askRunning' \in BOOLEAN /\ (askRunning' <=> answering'.q # Nobody)
        /\ answering' \in [q : Questions \cup {Nobody}, history : Seq(Entries)]
        /\ Len(answering'.history) <= HistoryCap
        /\ askError' \in {"none", "rejected", "failed"}
        /\ askError' = "none" => askRunning' /\ ~askRunning
        /\ UNCHANGED <<now, entries, wanted, carried, askPaused>>
    BY <2>1, AskHandled
  <2>4. /\ sending' \in [q : Questions \cup {Nobody}, n : 0..AttCap, told : {"no", "accepted", "rejected"}]
        /\ sending'.q = sending.q /\ sending'.n = sending.n
    BY <2>2 DEF AskShapes
  <2>5. AskShapes' /\ AskTypeOK'
    BY <2>1, <2>3, <2>4 DEF AskShapes, AskTypeOK
  <2>6. RoomKept'
    BY <2>1, <2>4 DEF RoomKept, AskShapes, Idle
  <2> QED
    BY <2>3, <2>5, <2>6 DEF Spoken
<1>2. CASE TrayTold(ok)
  <2>1. /\ sending # Idle /\ sending' = Idle /\ pendingAtts' \in {pendingAtts, sending.n + pendingAtts}
        /\ UNCHANGED <<now, serviceVars, askPaused, picking>>
    BY <1>2 DEF TrayTold, Idle
  <2>2. pendingAtts' \in 0..AttCap /\ sending'.n + pendingAtts' \in 0..(2 * AttCap)
    <3>1. sending.n \in 0..AttCap /\ pendingAtts = 0 /\ pendingAtts' \in {0, sending.n} /\ sending'.n = 0
      BY <2>1 DEF AskShapes, RoomKept, Idle
    <3>2. AttCap \in Nat /\ 0 \in 0..AttCap
      OBVIOUS
    <3>3. pendingAtts' \in 0..AttCap
      BY <3>1, <3>2
    <3>4. \A k \in 0..AttCap : 0 + k \in 0..(2 * AttCap)
      BY <3>2
    <3>5. sending'.n + pendingAtts' = 0 + pendingAtts'
      BY <3>1
    <3> QED
      BY <3>3, <3>4, <3>5, Zenon
  <2>3. Idle \in [q : Questions \cup {Nobody}, n : 0..AttCap, told : {"no", "accepted", "rejected"}]
    BY DEF Idle
  <2>4. AskShapes' /\ AskTypeOK'
    BY <2>1, <2>2, <2>3 DEF AskShapes, AskTypeOK
  <2>5. RoomKept'
    BY <2>1 DEF RoomKept, AskShapes
  <2> QED
    BY <2>1, <2>4, <2>5 DEF Spoken
<1> QED
  BY <1>1, <1>2

(* A request to investigate comes from either client. *)
LEMMA FixKeeps ==
    ASSUME AskInv, NEW p \in Problems, NEW good \in BOOLEAN, TrayFix(p, good) \/ CtlFix(p, good)
    PROVE  AskInv' /\ Spoken
<1>1. HandleFix(p, FixRejected(good)) /\ UNCHANGED trayAskVars
  BY DEF TrayFix, CtlFix
<1>2. /\ wanted' \in {wanted, p} /\ (wanted # Nobody => wanted' = wanted)
      /\ UNCHANGED <<now, askRunning, answering, askError, entries, carried, askPaused>>
  BY <1>1, FixHandled
<1> QED
  BY <1>1, <1>2 DEF trayAskVars, AskInv, AskTypeOK, AskShapes, RoomKept, Spoken

(* A question of eirctl is refused, or waits for an answer to it. *)
LEMMA CtlAskKeeps ==
    ASSUME AskInv, NEW q \in Questions, NEW good \in BOOLEAN, CtlAsk(q, good)
    PROVE  AskInv' /\ Spoken
<1>1. HandleAsk(q, AskRejected(good, 0)) /\ UNCHANGED trayAskVars
  BY DEF CtlAsk
<1>2. /\ askRunning' \in BOOLEAN /\ (askRunning' <=> answering'.q # Nobody)
      /\ answering' \in [q : Questions \cup {Nobody}, history : Seq(Entries)]
      /\ Len(answering'.history) <= HistoryCap
      /\ askError' \in {"none", "rejected", "failed"}
      /\ askError' = "none" => askRunning' /\ ~askRunning
      /\ UNCHANGED <<now, entries, wanted, carried, askPaused>>
  BY <1>1, AskHandled
<1> QED
  BY <1>1, <1>2 DEF trayAskVars, AskInv, AskTypeOK, AskShapes, RoomKept, Spoken

(* eirctl hears of its question, or gives up. *)
LEMMA CtlKeeps ==
    ASSUME AskInv, CtlAccepted \/ CtlReads \/ CtlGivesUp PROVE AskInv' /\ Spoken
  BY SMTT(20) DEF CtlAccepted, CtlReads, CtlGivesUp, serviceVars, trayAskVars, AskInv, AskTypeOK, AskShapes,
         RoomKept, Spoken

(* Every step keeps the invariant and what is said of the requests. *)
LEMMA AskNextInv == AskInv /\ AskNext => AskInv' /\ Spoken
<1>1. 0 \in 0..AttCap
  OBVIOUS
<1> QED
  BY <1>1, FoldAnswerKeeps, InvestigationKeeps, OtherServiceKeeps, AttachmentsKeep, TrayAskKeeps,
     TrayKeeps, FixKeeps, CtlAskKeeps, CtlKeeps DEF AskNext

(* A step that changes nothing keeps the invariant. *)
LEMMA AskStutter == AskInv /\ UNCHANGED askVars => AskInv'
  BY DEF askVars, serviceVars, trayAskVars, AskInv, AskTypeOK, AskShapes, RoomKept

(* Ask Eir keeps its invariant, for any questions, problems and room. *)
THEOREM AskInvariance == AskSpec => []AskInv
  BY AskInitInv, AskNextInv, AskStutter, PTL DEF AskSpec

(* The list of attachments never outgrows its cap, no notice of a rejected *)
(* question is lost and no request to investigate goes unanswered.         *)
THEOREM AskIsSound == AskSpec => AskSound
<1>1. AskInv => AskTypeOK /\ PendingCapped
  BY DEF AskInv, AskShapes, PendingCapped
<1>2. AskInv /\ [AskNext]_askVars => [Spoken]_askVars
  BY AskNextInv
<1> QED
  BY <1>1, <1>2, AskInvariance, PTL DEF AskSpec, AskSound, NothingUnsaid, Spoken

HIDE AskAssumption

-----------------------------------------------------------------------------
(* The settings: lists are brought into a form that loading leaves alone *)

(* r holds elements of s, in the order they have there.                    *)
Within(r, s) ==
    /\ IsSeq(r) /\ Len(r) <= Len(s)
    /\ \A n \in DOMAIN r : \E i \in DOMAIN s : r[n] = s[i]
    /\ \A m, n \in DOMAIN r : m < n => \E i, j \in DOMAIN s : i < j /\ r[m] = s[i] /\ r[n] = s[j]

AllNamed(s) == \A i \in DOMAIN s : s[i].key # ""
AllSafe(s) == \A i \in DOMAIN s : s[i].ok
NoneTwice(s) == \A i, j \in DOMAIN s : i < j => s[i].key # s[j].key

LEMMA SeqOfItself ==
    ASSUME NEW T, NEW s \in Seq(T) PROVE IsSeq(s)
<1> DEFINE R == {s[i] : i \in DOMAIN s}
<1>1. /\ Len(s) \in Nat /\ DOMAIN s = 1 .. Len(s) /\ s = [i \in 1 .. Len(s) |-> s[i]]
      /\ \A i \in 1 .. Len(s) : s[i] \in R
  OBVIOUS
<1> HIDE DEF R
<1>2. s \in Seq(R)
  BY <1>1, IsASeq
<1> QED
  BY <1>2 DEF IsSeq, R

LEMMA Places ==
    ASSUME NEW s, IsSeq(s) PROVE Len(s) \in Nat /\ DOMAIN s = 1 .. Len(s)
<1> DEFINE T == {s[i] : i \in DOMAIN s}
<1>1. s \in Seq(T)
  BY DEF IsSeq
<1> HIDE DEF T
<1> QED
  BY <1>1

LEMMA SiftedWithin ==
    ASSUME NEW s, IsSeq(s), NEW I \in SUBSET DOMAIN s
    PROVE  /\ Within(Sifted(s, I), s)
           /\ \A n \in DOMAIN Sifted(s, I) : \E i \in I : Sifted(s, I)[n] = s[i]
           /\ \A m, n \in DOMAIN Sifted(s, I) :
                 m < n => \E i, j \in I : i < j /\ Sifted(s, I)[m] = s[i] /\ Sifted(s, I)[n] = s[j]
<1>1. PICK T : s \in Seq(T)
  BY DEF IsSeq
<1>2. PICK r : r = Sifted(s, I)
  OBVIOUS
<1>3. /\ r \in Seq(T) /\ Len(r) <= Len(s)
      /\ \A n \in 1 .. Len(r) : \E i \in I : r[n] = s[i]
      /\ \A m, n \in 1 .. Len(r) : m < n => \E i, j \in I : i < j /\ r[m] = s[i] /\ r[n] = s[j]
  <2>1. /\ Sifted(s, I) \in Seq(T)
        /\ Len(Sifted(s, I)) \in 0 .. Len(s)
        /\ \A n \in 1 .. Len(Sifted(s, I)) : \E i \in I : Sifted(s, I)[n] = s[i]
        /\ \A m, n \in 1 .. Len(Sifted(s, I)) :
              m < n => \E i, j \in I : i < j /\ Sifted(s, I)[m] = s[i] /\ Sifted(s, I)[n] = s[j]
    BY ONLY <1>1, I \in SUBSET DOMAIN s, SiftedIs
  <2>2. Len(s) \in Nat
    BY <1>1
  <2>3. Len(r) <= Len(s)
    BY ONLY <1>2, <2>1, <2>2
  <2>4. r \in Seq(T) /\ \A n \in 1 .. Len(r) : \E i \in I : r[n] = s[i]
    BY ONLY <1>2, <2>1
  <2>5. \A m, n \in 1 .. Len(r) : m < n => \E i, j \in I : i < j /\ r[m] = s[i] /\ r[n] = s[j]
    BY ONLY <1>2, <2>1
  <2> QED
    BY ONLY <2>3, <2>4, <2>5
<1>4. IsSeq(r) /\ DOMAIN r = 1 .. Len(r)
  BY <1>3, SeqOfItself
<1> QED
  BY <1>2, <1>3, <1>4 DEF Within

LEMMA SiftedWhole ==
    ASSUME NEW s, IsSeq(s) PROVE Sifted(s, DOMAIN s) = s
  BY SiftedAll DEF IsSeq

LEMMA NamedIs ==
    ASSUME NEW s, IsSeq(s)
    PROVE  Within(Named(s), s) /\ AllNamed(Named(s)) /\ (AllNamed(s) => Named(s) = s)
<1> DEFINE I == {i \in DOMAIN s : s[i].key # ""}
<1>1. I \in SUBSET DOMAIN s /\ Named(s) = Sifted(s, I)
  BY DEF Named
<1>n. \A i \in I : s[i].key # ""
  OBVIOUS
<1>2. AllNamed(s) => I = DOMAIN s
  BY DEF AllNamed
<1> HIDE DEF I
<1>3. Within(Named(s), s) /\ (AllNamed(s) => Named(s) = s)
  BY <1>1, <1>2, SiftedWithin, SiftedWhole
<1>4. ASSUME NEW n \in DOMAIN Named(s) PROVE Named(s)[n].key # ""
  <2>1. PICK i \in I : Named(s)[n] = s[i]
    BY <1>1, SiftedWithin
  <2> QED
    BY <1>n, <2>1
<1> QED
  BY <1>3, <1>4 DEF AllNamed

LEMMA SafeIs ==
    ASSUME NEW s, IsSeq(s)
    PROVE  Within(Safe(s), s) /\ AllSafe(Safe(s)) /\ (AllSafe(s) => Safe(s) = s)
<1> DEFINE I == {i \in DOMAIN s : s[i].ok}
<1>1. I \in SUBSET DOMAIN s /\ Safe(s) = Sifted(s, I) /\ \A i \in I : s[i].ok
  BY DEF Safe
<1>2. AllSafe(s) => I = DOMAIN s
  BY DEF AllSafe
<1> HIDE DEF I
<1>3. Within(Safe(s), s) /\ (AllSafe(s) => Safe(s) = s)
  BY <1>1, <1>2, SiftedWithin, SiftedWhole
<1>4. ASSUME NEW n \in DOMAIN Safe(s) PROVE Safe(s)[n].ok
  <2>1. PICK i \in I : Safe(s)[n] = s[i]
    BY <1>1, SiftedWithin
  <2> QED
    BY <1>1, <2>1
<1> QED
  BY <1>3, <1>4 DEF AllSafe

LEMMA DistinctIs ==
    ASSUME NEW s, IsSeq(s)
    PROVE  Within(Distinct(s), s) /\ NoneTwice(Distinct(s)) /\ (NoneTwice(s) => Distinct(s) = s)
<1> DEFINE I == {i \in DOMAIN s : \A k \in 1 .. i - 1 : s[k].key # s[i].key}
<1>0. Len(s) \in Nat /\ DOMAIN s = 1 .. Len(s)
  BY Places
<1>1. I \in SUBSET DOMAIN s /\ Distinct(s) = Sifted(s, I)
  BY DEF Distinct
<1>2. \A i, j \in I : i < j => s[i].key # s[j].key
  <2> SUFFICES ASSUME NEW i \in I, NEW j \in I, i < j PROVE s[i].key # s[j].key
    OBVIOUS
  <2>1. i \in 1 .. j - 1
    BY <1>0
  <2> QED
    BY <2>1
<1>3. NoneTwice(s) => I = DOMAIN s
  <2> SUFFICES ASSUME NoneTwice(s), NEW i \in DOMAIN s, NEW k \in 1 .. i - 1
               PROVE  s[k].key # s[i].key
    OBVIOUS
  <2>1. k \in DOMAIN s /\ k < i
    BY <1>0
  <2> QED
    BY <2>1 DEF NoneTwice
<1> HIDE DEF I
<1> QED
  BY <1>1, <1>2, <1>3, SiftedWithin, SiftedWhole DEF NoneTwice

LEMMA FirstIs ==
    ASSUME NEW s, IsSeq(s), NEW n \in Nat
    PROVE  Within(First(s, n), s) /\ Len(First(s, n)) <= n /\ (Len(s) <= n => First(s, n) = s)
<1> DEFINE T == {s[i] : i \in DOMAIN s}
<1>0. s \in Seq(T) /\ Len(s) \in Nat /\ DOMAIN s = 1 .. Len(s)
  BY Places DEF IsSeq
<1> HIDE DEF T
<1>l. PICK l : l = Len(s)
  OBVIOUS
<1>c. PICK k : k = Clamp(l, 0, n)
  OBVIOUS
<1>1. PICK r : r = SubSeq(s, 1, k)
  OBVIOUS
<1>2. k \in Nat /\ k <= l /\ k <= n /\ (l <= n => k = l) /\ l \in Nat
  <2>1. l \in Nat /\ n \in Nat
    BY <1>0, <1>l
  <2> QED
    BY ONLY <2>1, <1>c DEF Clamp
<1>d. k \in 0 .. Len(s)
  BY <1>l, <1>2
<1>3. r \in Seq(T) /\ Len(r) = k /\ \A i \in 1 .. k : r[i] = s[i]
  BY <1>0, <1>1, <1>d
<1>4. IsSeq(r) /\ DOMAIN r = 1 .. k /\ Len(r) <= Len(s)
  <2>1. IsSeq(r) /\ DOMAIN r = 1 .. k
    BY <1>3, SeqOfItself, Places
  <2> QED
    BY <1>l, <1>2, <1>3, <2>1
<1>5. Within(r, s)
  <2>1. \A i \in 1 .. k : i \in DOMAIN s
    BY <1>0, <1>d
  <2> QED
    BY <1>3, <1>4, <2>1 DEF Within
<1>6. k = Len(s) => r = s
  BY <1>0, <1>3
<1> QED
  BY <1>l, <1>c, <1>1, <1>2, <1>3, <1>5, <1>6 DEF First

LEMMA WithinKeeps ==
    ASSUME NEW r, NEW s, Within(r, s)
    PROVE  /\ AllNamed(s) => AllNamed(r)
           /\ AllSafe(s) => AllSafe(r)
           /\ NoneTwice(s) => NoneTwice(r)
<1>1. AllNamed(s) => AllNamed(r)
  BY DEF Within, AllNamed
<1>2. AllSafe(s) => AllSafe(r)
  <2> SUFFICES ASSUME AllSafe(s), NEW n \in DOMAIN r PROVE r[n].ok
    BY DEF AllSafe
  <2>1. PICK i \in DOMAIN s : r[n] = s[i]
    BY DEF Within
  <2> QED
    BY <2>1 DEF AllSafe
<1>3. NoneTwice(s) => NoneTwice(r)
  BY DEF Within, NoneTwice
<1> QED
  BY <1>1, <1>2, <1>3

(* What a load makes of a list it leaves alone the next time.              *)
LEMMA ChannelsLoaded ==
    ASSUME NEW s, IsSeq(s), ChannelCap \in Nat
    PROVE  /\ IsSeq(LoadedChannels(s))
           /\ LoadedChannels(LoadedChannels(s)) = LoadedChannels(s)
<1>1. PICK f : f = First(s, ChannelCap)
  OBVIOUS
<1>2. IsSeq(f) /\ Len(f) <= ChannelCap
  BY <1>1, FirstIs DEF Within
<1>3. PICK n : n = Named(f)
  OBVIOUS
<1>4. IsSeq(n) /\ Len(n) <= Len(f) /\ AllNamed(n)
  BY <1>2, <1>3, NamedIs DEF Within
<1>5. PICK a : a = Safe(n)
  OBVIOUS
<1>6. IsSeq(a) /\ Len(a) <= Len(n) /\ AllNamed(a) /\ AllSafe(a)
  BY <1>4, <1>5, SafeIs, WithinKeeps DEF Within
<1>7. PICK d : d = Distinct(a)
  OBVIOUS
<1>8. IsSeq(d) /\ Len(d) <= Len(a) /\ AllNamed(d) /\ AllSafe(d) /\ NoneTwice(d)
  BY <1>6, <1>7, DistinctIs, WithinKeeps DEF Within
<1>9. Len(d) <= ChannelCap
  BY <1>2, <1>4, <1>6, <1>8, Places
<1>10. First(d, ChannelCap) = d /\ Named(d) = d /\ Safe(d) = d /\ Distinct(d) = d
  BY <1>8, <1>9, FirstIs, NamedIs, SafeIs, DistinctIs
<1>11. LoadedChannels(s) = d /\ LoadedChannels(d) = d
  BY <1>1, <1>3, <1>5, <1>7, <1>10 DEF LoadedChannels
<1> QED
  BY <1>8, <1>11

LEMMA DirsLoaded ==
    ASSUME NEW s, IsSeq(s), DirCap \in Nat
    PROVE  IsSeq(LoadedDirs(s)) /\ LoadedDirs(LoadedDirs(s)) = LoadedDirs(s)
<1>1. PICK n : n = Named(s)
  OBVIOUS
<1>2. IsSeq(n) /\ AllNamed(n)
  BY <1>1, NamedIs DEF Within
<1>3. PICK a : a = Safe(n)
  OBVIOUS
<1>4. IsSeq(a) /\ AllNamed(a) /\ AllSafe(a)
  BY <1>2, <1>3, SafeIs, WithinKeeps DEF Within
<1>5. PICK d : d = Distinct(a)
  OBVIOUS
<1>6. IsSeq(d) /\ AllNamed(d) /\ AllSafe(d) /\ NoneTwice(d)
  BY <1>4, <1>5, DistinctIs, WithinKeeps DEF Within
<1>7. PICK f : f = First(d, DirCap)
  OBVIOUS
<1>8. IsSeq(f) /\ Len(f) <= DirCap /\ AllNamed(f) /\ AllSafe(f) /\ NoneTwice(f)
  BY <1>6, <1>7, FirstIs, WithinKeeps DEF Within
<1>9. First(f, DirCap) = f /\ Named(f) = f /\ Safe(f) = f /\ Distinct(f) = f
  BY <1>8, FirstIs, NamedIs, SafeIs, DistinctIs
<1>10. LoadedDirs(s) = f /\ LoadedDirs(f) = f
  BY <1>1, <1>3, <1>5, <1>7, <1>9 DEF LoadedDirs
<1> QED
  BY <1>8, <1>10

LEMMA MethodsLoaded ==
    ASSUME NEW s, IsSeq(s)
    PROVE  IsSeq(SafeMethods(s)) /\ SafeMethods(SafeMethods(s)) = SafeMethods(s)
<1>1. PICK a : a = Safe(s)
  OBVIOUS
<1>2. IsSeq(a) /\ AllSafe(a)
  BY <1>1, SafeIs DEF Within
<1>3. PICK d : d = Distinct(a)
  OBVIOUS
<1>4. IsSeq(d) /\ AllSafe(d) /\ NoneTwice(d)
  BY <1>2, <1>3, DistinctIs, WithinKeeps DEF Within
<1>5. Safe(d) = d /\ Distinct(d) = d
  BY <1>4, SafeIs, DistinctIs
<1>6. SafeMethods(s) = d /\ SafeMethods(d) = d
  BY <1>1, <1>3, <1>5 DEF SafeMethods
<1> QED
  BY <1>4, <1>6


LEMMA Spans == Year \in Nat /\ 300 <= Year /\ Week \in Nat /\ 30 <= Week
  BY SMT DEF Year, Week

LEMMA ClampLoaded ==
    ASSUME NEW x \in Int, NEW lo \in Nat, NEW hi \in Nat, lo <= hi
    PROVE  Clamp(x, lo, hi) \in lo .. hi /\ Clamp(Clamp(x, lo, hi), lo, hi) = Clamp(x, lo, hi)
  BY DEF Clamp

LEMMA FiniteLoaded ==
    ASSUME NEW x \in Int, NEW lo \in Nat, NEW hi \in Nat, lo <= hi, NEW d \in lo .. hi
    PROVE  FiniteOr(x, lo, hi, d) \in lo .. hi /\ FiniteOr(FiniteOr(x, lo, hi, d), lo, hi, d) = FiniteOr(x, lo, hi, d)
<1>1. FiniteOr(x, lo, hi, d) \in lo .. hi
  BY DEF FiniteOr, Clamp, NotFinite
<1>2. \A y \in lo .. hi : FiniteOr(y, lo, hi, d) = y
  BY DEF FiniteOr, Clamp, NotFinite
<1> QED
  BY <1>1, <1>2

(* A finite set has subsets of any size up to its own.                     *)
LEMMA FewestIs ==
    ASSUME NEW S, IsFiniteSet(S), NEW n \in Nat
    PROVE  /\ Fewest(S, n) \subseteq S /\ IsFiniteSet(Fewest(S, n))
           /\ Cardinality(Fewest(S, n)) <= n
           /\ Cardinality(S) <= n => Fewest(S, n) = S
<1>0. Cardinality(S) \in Nat
  BY FS_CardinalityType
<1>1. PICK k : k = Clamp(Cardinality(S), 0, n)
  OBVIOUS
<1>2. k \in Nat /\ k <= n /\ k <= Cardinality(S) /\ (Cardinality(S) <= n => k = Cardinality(S))
  <2>1. PICK x : x = Cardinality(S)
    OBVIOUS
  <2>2. x \in Nat /\ k = Clamp(x, 0, n)
    BY <1>0, <1>1, <2>1
  <2>3. k \in Nat /\ k <= n /\ k <= x /\ (x <= n => k = x)
    BY ONLY <2>2, n \in Nat DEF Clamp
  <2> QED
    BY <2>1, <2>3
<1>3. \A T \in SUBSET S : IsFiniteSet(T) /\ Cardinality(T) \in Nat /\ Cardinality(T) <= Cardinality(S)
      /\ (Cardinality(T) = Cardinality(S) => T = S)
  BY FS_Subset, FS_CardinalityType
<1>4. \E T \in SUBSET S : Cardinality(T) = k
  <2> DEFINE Sizes == {Cardinality(T) : T \in {U \in SUBSET S : Cardinality(U) >= k}}
  <2>1. Sizes \in SUBSET Nat /\ Cardinality(S) \in Sizes
    BY <1>2, <1>3
  <2>2. PICK m \in Sizes : \A x \in Sizes : m <= x
    <3> HIDE DEF Sizes
    <3> QED
      BY <2>1, Least
  <2>3. PICK T \in SUBSET S : Cardinality(T) = m /\ m >= k
    BY <2>2
  <2>4. m = k
    <3> SUFFICES ASSUME m # k PROVE FALSE
      OBVIOUS
    <3>1. m > k /\ m \in Nat /\ IsFiniteSet(T)
      BY <1>2, <1>3, <2>3
    <3>2. PICK x \in T : TRUE
      BY <1>2, <2>3, <3>1, FS_EmptySet
    <3>3. Cardinality(T \ {x}) = m - 1
      BY <2>3, <3>1, <3>2, FS_RemoveElement
    <3>4. m - 1 \in Sizes
      BY <1>2, <3>1, <3>3
    <3>5. m <= m - 1
      BY <2>2, <3>4
    <3> QED
      BY <3>1, <3>5
  <2> QED
    BY <2>3, <2>4
<1>5. Fewest(S, n) \in SUBSET S /\ Cardinality(Fewest(S, n)) = k
  BY <1>1, <1>4 DEF Fewest
<1> QED
  BY <1>2, <1>3, <1>5

Sized(f) == {a \in DOMAIN f : f[a].size \in 1 .. NoteChars}

(* Few notes of the right size are left alone.                             *)
FewNotes(f) == AreNotes(f) /\ Sized(f) = DOMAIN f /\ Cardinality(DOMAIN f) <= NoteCap

LEMMA CapsAre == /\ NoteCap \in Nat /\ IgnoreCap \in Nat /\ ChannelCap \in Nat /\ DirCap \in Nat
                 /\ IsFiniteSet(NotedApps)
  BY SettingsAssumption

LEMMA NotesStay ==
    ASSUME NEW f, FewNotes(f) PROVE LoadedNotes(f) = f
<1>1. IsFiniteSet(DOMAIN f) /\ NoteCap \in Nat
  BY CapsAre, FS_Subset DEF FewNotes, AreNotes
<1>2. Fewest(DOMAIN f, NoteCap) = DOMAIN f
  BY <1>1, FewestIs DEF FewNotes
<1>3. LoadedNotes(f) = Only(f, Fewest(Sized(f), NoteCap))
  BY DEF LoadedNotes, Sized
<1> QED
  BY <1>2, <1>3 DEF FewNotes, Only, AreNotes

LEMMA NotesLoaded ==
    ASSUME NEW f, AreNotes(f)
    PROVE  /\ FewNotes(LoadedNotes(f)) /\ DOMAIN LoadedNotes(f) \subseteq DOMAIN f
           /\ \A a \in DOMAIN LoadedNotes(f) : LoadedNotes(f)[a] = f[a]
<1>1. IsFiniteSet(Sized(f)) /\ NoteCap \in Nat
  BY CapsAre, FS_Subset DEF Sized, AreNotes
<1>2. PICK T : T = Fewest(Sized(f), NoteCap)
  OBVIOUS
<1>3. T \subseteq Sized(f) /\ Cardinality(T) <= NoteCap
  BY <1>1, <1>2, FewestIs
<1>4. PICK g : g = Only(f, T)
  OBVIOUS
<1>5. LoadedNotes(f) = g
  BY <1>2, <1>4 DEF LoadedNotes, Sized
<1>6. DOMAIN g = T /\ g = [a \in T |-> g[a]] /\ \A a \in T : g[a] = f[a]
  BY <1>4 DEF Only
<1>7. T \subseteq DOMAIN f /\ \A a \in T : f[a].size \in 1 .. NoteChars
  BY <1>3 DEF Sized
<1>8. Sized(g) = T
  BY <1>6, <1>7 DEF Sized
<1> QED
  BY <1>3, <1>5, <1>6, <1>7, <1>8 DEF FewNotes, AreNotes

LEMMA FewerNotes ==
    ASSUME NEW f, FewNotes(f), NEW S \in SUBSET DOMAIN f
    PROVE  FewNotes(Only(f, S)) /\ DOMAIN Only(f, S) = S /\ \A a \in S : Only(f, S)[a] = f[a]
<1>1. PICK g : g = Only(f, S)
  OBVIOUS
<1>2. DOMAIN g = S /\ g = [a \in S |-> g[a]] /\ \A a \in S : g[a] = f[a]
  BY <1>1 DEF Only
<1>3. IsFiniteSet(DOMAIN f)
  BY CapsAre, FS_Subset DEF FewNotes, AreNotes
<1>4. Cardinality(S) <= NoteCap
  BY <1>3, CapsAre, FS_Subset, FS_CardinalityType DEF FewNotes
<1>5. Sized(g) = S
  BY <1>2 DEF FewNotes, Sized
<1> QED
  BY <1>1, <1>2, <1>4, <1>5 DEF FewNotes, AreNotes

(* The notes of both kinds that a proven one agrees with.                  *)
ProvenOf(u) == {a \in DOMAIN LoadedNotes(u.proven) \cap DOMAIN LoadedNotes(u.notes) :
                  LoadedNotes(u.proven)[a] = LoadedNotes(u.notes)[a]}

LEMMA UpdaterShape ==
    ASSUME NEW u, CompleteUpd(u)
    PROVE  LoadedUpdater(u) =
             [on |-> u.on, every |-> Clamp(u.every, 300, Year), methods |-> SafeMethods(u.methods),
              native |-> u.native, signed |-> u.signed, ignored |-> First(u.ignored, IgnoreCap),
              notes |-> LoadedNotes(u.notes), proven |-> Only(LoadedNotes(u.proven), ProvenOf(u))]
<1>1. PICK on, every, methods, native, signed, ignored, notes, proven :
         /\ on = u.on /\ every = u.every /\ methods = u.methods /\ native = u.native
         /\ signed = u.signed /\ ignored = u.ignored /\ notes = u.notes /\ proven = u.proven
  OBVIOUS
<1>2. u = [on |-> on, every |-> every, methods |-> methods, native |-> native,
           signed |-> signed, ignored |-> ignored, notes |-> notes, proven |-> proven]
  BY <1>1 DEF CompleteUpd
<1>3. PICK every1, methods1, ignored1, notes1, before, S :
         /\ every1 = Clamp(every, 300, Year) /\ methods1 = SafeMethods(methods)
         /\ ignored1 = First(ignored, IgnoreCap) /\ notes1 = LoadedNotes(notes)
         /\ before = LoadedNotes(proven)
         /\ S = {a \in DOMAIN before \cap DOMAIN notes1 : before[a] = notes1[a]}
  OBVIOUS
<1>4. LoadedUpdater(u) = [u EXCEPT !.every = every1, !.methods = methods1, !.ignored = ignored1,
                                   !.notes = notes1, !.proven = Only(before, S)]
  BY <1>1, <1>3 DEF LoadedUpdater
<1>5. LoadedUpdater(u) = [on |-> on, every |-> every1, methods |-> methods1, native |-> native,
                          signed |-> signed, ignored |-> ignored1, notes |-> notes1, proven |-> Only(before, S)]
  BY <1>2, <1>4
<1>6. S = ProvenOf(u)
  BY <1>1, <1>3 DEF ProvenOf
<1> QED
  BY <1>1, <1>3, <1>5, <1>6

LEMMA UpdaterLoaded ==
    ASSUME NEW u, CompleteUpd(u)
    PROVE  /\ CompleteUpd(LoadedUpdater(u)) /\ LoadedUpdater(LoadedUpdater(u)) = LoadedUpdater(u)
           /\ DOMAIN LoadedUpdater(u).proven \subseteq DOMAIN u.proven \cap DOMAIN LoadedUpdater(u).notes
           /\ \A a \in DOMAIN LoadedUpdater(u).proven :
                 /\ LoadedUpdater(u).proven[a] = u.proven[a]
                 /\ LoadedUpdater(u).notes[a] = u.proven[a]
<1>1. PICK every, methods, ignored, notes, before, S :
         /\ every = Clamp(u.every, 300, Year) /\ methods = SafeMethods(u.methods)
         /\ ignored = First(u.ignored, IgnoreCap) /\ notes = LoadedNotes(u.notes)
         /\ before = LoadedNotes(u.proven) /\ S = ProvenOf(u)
  OBVIOUS
<1>2. PICK proven : proven = Only(before, S)
  OBVIOUS
<1>3. PICK v : v = LoadedUpdater(u)
  OBVIOUS
<1>4. v = [on |-> u.on, every |-> every, methods |-> methods, native |-> u.native, signed |-> u.signed,
           ignored |-> ignored, notes |-> notes, proven |-> proven]
  BY <1>1, <1>2, <1>3, UpdaterShape
<1>5. FewNotes(notes) /\ DOMAIN notes \subseteq DOMAIN u.notes /\ FewNotes(before)
      /\ DOMAIN before \subseteq DOMAIN u.proven /\ \A a \in DOMAIN before : before[a] = u.proven[a]
  BY <1>1, NotesLoaded DEF CompleteUpd
<1>6. S \in SUBSET DOMAIN before /\ S \subseteq DOMAIN notes /\ \A a \in S : before[a] = notes[a]
  BY <1>1 DEF ProvenOf
<1>7. FewNotes(proven) /\ DOMAIN proven = S /\ \A a \in S : proven[a] = before[a]
  BY <1>2, <1>5, <1>6, FewerNotes
<1>8. every \in 300 .. Year /\ Clamp(every, 300, Year) = every
  <2>1. u.every \in Int /\ 300 \in Nat /\ Year \in Nat /\ 300 <= Year
    BY Spans DEF CompleteUpd
  <2> QED
    BY <1>1, <2>1 DEF Clamp
<1>9. IsSeq(methods) /\ SafeMethods(methods) = methods
  BY <1>1, MethodsLoaded DEF CompleteUpd
<1>10. IsSeq(ignored) /\ First(ignored, IgnoreCap) = ignored
  <2>1. IsSeq(ignored) /\ Len(ignored) <= IgnoreCap
    BY <1>1, FirstIs, CapsAre DEF CompleteUpd, Within
  <2> QED
    BY <2>1, FirstIs, CapsAre
<1>11. every \in Int
  BY <1>8, Spans
<1>12. CompleteUpd(v)
  BY <1>4, <1>5, <1>7, <1>9, <1>10, <1>11 DEF CompleteUpd, FewNotes
<1>13. v.on = u.on /\ v.every = every /\ v.methods = methods /\ v.native = u.native /\ v.signed = u.signed
       /\ v.ignored = ignored /\ v.notes = notes /\ v.proven = proven
  BY <1>4
<1>14. LoadedNotes(notes) = notes /\ LoadedNotes(proven) = proven
  BY <1>5, <1>7, NotesStay
<1>15. ProvenOf(v) = S
  BY <1>6, <1>7, <1>13, <1>14 DEF ProvenOf
<1>16. Only(proven, S) = proven
  BY <1>7 DEF Only, FewNotes, AreNotes
<1>17. LoadedUpdater(v) = [on |-> v.on, every |-> Clamp(v.every, 300, Year), methods |-> SafeMethods(v.methods),
              native |-> v.native, signed |-> v.signed, ignored |-> First(v.ignored, IgnoreCap),
              notes |-> LoadedNotes(v.notes), proven |-> Only(LoadedNotes(v.proven), ProvenOf(v))]
  BY <1>12, UpdaterShape
<1>18. LoadedUpdater(v) = v
  BY <1>4, <1>8, <1>9, <1>10, <1>13, <1>14, <1>15, <1>16, <1>17
<1> QED
  BY <1>3, <1>5, <1>6, <1>7, <1>12, <1>13, <1>18

LEMMA PrefixedOnce ==
    ASSUME NEW m, IsSeq(m) PROVE IsSeq(Prefixed(m)) /\ Prefixed(Prefixed(m)) = Prefixed(m)
<1>1. CASE Len(m) = 1
  <2> DEFINE T == {m[i] : i \in DOMAIN m} \cup {"ollama"}
  <2>1. m \in Seq(T) /\ <<"ollama">> \in Seq(T)
    <3>1. m \in Seq({m[i] : i \in DOMAIN m})
      BY DEF IsSeq
    <3> QED
      BY <3>1
  <2> HIDE DEF T
  <2>2. PICK p : p = <<"ollama">> \o m
    OBVIOUS
  <2>3. p \in Seq(T) /\ Len(p) = 2
    <3>1. PICK o : o = <<"ollama">>
      OBVIOUS
    <3>2. o \in Seq(T) /\ Len(o) = 1 /\ p = o \o m
      BY <2>1, <2>2, <3>1
    <3>3. o \o m \in Seq(T) /\ Len(o \o m) = Len(o) + Len(m)
      BY <2>1, <3>2, ConcatProperties
    <3> QED
      BY <1>1, <3>2, <3>3
  <2>4. IsSeq(p)
    BY <2>3, SeqOfItself
  <2> QED
    BY <1>1, <2>2, <2>3, <2>4 DEF Prefixed
<1>2. CASE Len(m) # 1
  BY <1>2 DEF Prefixed
<1> QED
  BY <1>1, <1>2

LEMMA ModelsLoaded ==
    ASSUME NEW a, CompleteApi(a)
    PROVE  /\ CompleteApi(LoadedModels(a)) /\ LoadedModels(LoadedModels(a)) = LoadedModels(a)
           /\ LoadedModels(a).provider = a.provider
<1>1. CASE a.provider # "opencode"
  BY <1>1 DEF LoadedModels
<1>2. CASE a.provider = "opencode"
  <2>1. PICK provider, model, check, effort, path :
           /\ a = [provider |-> provider, model |-> model, check |-> check, effort |-> effort, path |-> path]
           /\ provider = a.provider /\ model = a.model /\ check = a.check
           /\ IsSeq(model) /\ IsSeq(check)
    BY DEF CompleteApi
  <2>2. PICK model1, check1 : model1 = Prefixed(model) /\ check1 = Prefixed(check)
    OBVIOUS
  <2>3. IsSeq(model1) /\ IsSeq(check1) /\ Prefixed(model1) = model1 /\ Prefixed(check1) = check1
    BY <2>1, <2>2, PrefixedOnce
  <2>4. PICK b : b = LoadedModels(a)
    OBVIOUS
  <2>5. b = [a EXCEPT !.model = model1, !.check = check1]
    BY <1>2, <2>1, <2>2, <2>4 DEF LoadedModels
  <2>6. b = [provider |-> provider, model |-> model1, check |-> check1, effort |-> effort, path |-> path]
    BY <2>1, <2>5
  <2>7. CompleteApi(b) /\ b.provider = provider /\ b.model = model1 /\ b.check = check1
    BY <2>3, <2>6 DEF CompleteApi
  <2>8. LoadedModels(b) = b
    <3>1. LoadedModels(b) = [b EXCEPT !.model = model1, !.check = check1]
      BY <1>2, <2>1, <2>3, <2>7 DEF LoadedModels
    <3> QED
      BY <2>6, <3>1
  <2> QED
    BY <2>1, <2>4, <2>7, <2>8
<1> QED
  BY <1>1, <1>2

(* The name of a provider is read once; it stands for one there is.        *)
LEMMA ProviderOnce ==
    \A name : Provider(name) \in Providers /\ Provider(Provider(name)) = Provider(name)
  BY DEF Provider, Providers

LEMMA ApiLoaded ==
    ASSUME NEW a, CompleteApi(a)
    PROVE  /\ CompleteApi(LoadedApi(a)) /\ LoadedApi(LoadedApi(a)) = LoadedApi(a)
           /\ LoadedApi(a).provider = Provider(a.provider)
<1>1. PICK provider, model, check, effort, path :
         /\ a = [provider |-> provider, model |-> model, check |-> check, effort |-> effort, path |-> path]
         /\ provider = a.provider /\ IsSeq(model) /\ IsSeq(check)
  BY DEF CompleteApi
<1>2. PICK known, b : known = Provider(provider) /\ b = [a EXCEPT !.provider = Provider(@)]
  OBVIOUS
<1>3. b = [provider |-> known, model |-> model, check |-> check, effort |-> effort, path |-> path]
  BY ONLY <1>1, <1>2
<1>4. CompleteApi(b) /\ b.provider = known
  BY <1>1, <1>3 DEF CompleteApi
<1>5. PICK d : d = LoadedModels(b)
  OBVIOUS
<1>6. CompleteApi(d) /\ LoadedModels(d) = d /\ d.provider = known
  BY <1>4, <1>5, ModelsLoaded
<1>7. LoadedApi(a) = d
  BY <1>2, <1>5 DEF LoadedApi
<1>8. LoadedApi(d) = d
  <2>1. Provider(d.provider) = d.provider
    BY <1>2, <1>6, ProviderOnce
  <2>2. [d EXCEPT !.provider = Provider(@)] = d
    BY <1>6, <2>1 DEF CompleteApi
  <2> QED
    BY <1>6, <2>2 DEF LoadedApi
<1> QED
  BY <1>1, <1>2, <1>6, <1>7, <1>8

LEMMA MonLoaded ==
    ASSUME NEW m, CompleteMon(m)
    PROVE  CompleteMon(LoadedMonitoring(m)) /\ LoadedMonitoring(LoadedMonitoring(m)) = LoadedMonitoring(m)
<1>1. PICK tick, poll, wmi, conf, channels, dirs :
         /\ tick = Clamp(m.tick, 10, Week) /\ poll = Clamp(m.poll, 5, Week) /\ wmi = Clamp(m.wmi, 30, Week)
         /\ conf = FiniteOr(m.conf, 50, 95, 80)
         /\ channels = LoadedChannels(m.channels) /\ dirs = LoadedDirs(m.dirs)
  OBVIOUS
<1>2. PICK tick0, poll0, wmi0, conf0, channels0, dirs0, game, watch :
         /\ m = [tick |-> tick0, poll |-> poll0, wmi |-> wmi0, conf |-> conf0,
                 channels |-> channels0, dirs |-> dirs0, game |-> game, watch |-> watch]
         /\ game = m.game /\ watch = m.watch
  BY DEF CompleteMon
<1>3. tick \in Int /\ Clamp(tick, 10, Week) = tick
      /\ poll \in Int /\ Clamp(poll, 5, Week) = poll
      /\ wmi \in Int /\ Clamp(wmi, 30, Week) = wmi
  <2>1. m.tick \in Int /\ m.poll \in Int /\ m.wmi \in Int /\ Week \in Nat /\ 10 <= Week /\ 5 <= Week /\ 30 <= Week
    BY Spans DEF CompleteMon
  <2> QED
    BY <1>1, <2>1 DEF Clamp
<1>4. conf \in Int /\ FiniteOr(conf, 50, 95, 80) = conf
  <2>1. m.conf \in Int /\ 50 \in Nat /\ 95 \in Nat /\ 50 <= 95 /\ 80 \in 50 .. 95
    BY DEF CompleteMon
  <2>2. conf \in 50 .. 95 /\ FiniteOr(conf, 50, 95, 80) = conf
    BY ZenonT(30), <1>1, <2>1, FiniteLoaded
  <2> QED
    BY <2>2
<1>5. IsSeq(channels) /\ LoadedChannels(channels) = channels /\ IsSeq(dirs) /\ LoadedDirs(dirs) = dirs
  BY <1>1, CapsAre, ChannelsLoaded, DirsLoaded DEF CompleteMon
<1>6. PICK l : l = LoadedMonitoring(m)
  OBVIOUS
<1>7. l = [m EXCEPT !.channels = channels, !.dirs = dirs, !.tick = tick, !.poll = poll, !.wmi = wmi, !.conf = conf]
  BY <1>1, <1>6 DEF LoadedMonitoring
<1>8. l = [tick |-> tick, poll |-> poll, wmi |-> wmi, conf |-> conf,
           channels |-> channels, dirs |-> dirs, game |-> game, watch |-> watch]
  BY <1>2, <1>7
<1>9. l.tick = tick /\ l.poll = poll /\ l.wmi = wmi /\ l.conf = conf /\ l.channels = channels /\ l.dirs = dirs
  BY <1>8
<1>10. CompleteMon(l)
  BY <1>3, <1>4, <1>5, <1>8 DEF CompleteMon
<1>11. LoadedMonitoring(l) = l
  <2>1. LoadedMonitoring(l) = [l EXCEPT !.channels = channels, !.dirs = dirs, !.tick = tick, !.poll = poll,
                                        !.wmi = wmi, !.conf = conf]
    BY <1>3, <1>4, <1>5, <1>9 DEF LoadedMonitoring
  <2> QED
    BY <1>8, <2>1
<1> QED
  BY <1>6, <1>10, <1>11

LEMMA AdvisorLoaded ==
    ASSUME NEW a, CompleteAdvisor(a)
    PROVE  \E b : /\ b = [a EXCEPT !.low = FiniteOr(@, 0, 95, 60)]
                  /\ CompleteAdvisor(b) /\ [b EXCEPT !.low = FiniteOr(@, 0, 95, 60)] = b
                  /\ b.model = a.model /\ b.chosenFor = a.chosenFor
<1>1. PICK low : low = FiniteOr(a.low, 0, 95, 60)
  OBVIOUS
<1>2. low \in Int /\ FiniteOr(low, 0, 95, 60) = low
  <2>1. a.low \in Int /\ 0 \in Nat /\ 95 \in Nat /\ 0 <= 95 /\ 60 \in 0 .. 95
    BY DEF CompleteAdvisor
  <2>2. low \in 0 .. 95 /\ FiniteOr(low, 0, 95, 60) = low
    BY ZenonT(30), <1>1, <2>1, FiniteLoaded
  <2> QED
    BY <2>2
<1>3. PICK on, model, effort, low0, chosenFor :
         /\ a = [on |-> on, model |-> model, effort |-> effort, low |-> low0, chosenFor |-> chosenFor]
         /\ model = a.model /\ chosenFor = a.chosenFor /\ low0 = a.low
  BY DEF CompleteAdvisor
<1>4. PICK b : b = [a EXCEPT !.low = low]
  OBVIOUS
<1>5. b = [on |-> on, model |-> model, effort |-> effort, low |-> low, chosenFor |-> chosenFor]
  BY <1>3, <1>4
<1>6. b = [a EXCEPT !.low = FiniteOr(@, 0, 95, 60)]
  BY <1>1, <1>4
<1>7. CompleteAdvisor(b) /\ b.model = a.model /\ b.chosenFor = a.chosenFor /\ b.low = low
  BY <1>2, <1>3, <1>5 DEF CompleteAdvisor
<1>8. [b EXCEPT !.low = FiniteOr(@, 0, 95, 60)] = b
  <2>1. [b EXCEPT !.low = FiniteOr(@, 0, 95, 60)] = [b EXCEPT !.low = low]
    BY <1>2, <1>7
  <2> QED
    BY <1>5, <2>1
<1> QED
  BY <1>6, <1>7, <1>8

(* Loading what a load has made changes nothing.                           *)
LEMMA SanitizeOnce ==
    ASSUME NEW c, Complete(c)
    PROVE  /\ Complete(SanitizeLoaded(c)) /\ SanitizeLoaded(SanitizeLoaded(c)) = SanitizeLoaded(c)
           /\ SanitizeLoaded(c).upd = LoadedUpdater(c.upd)
           /\ ModelFits(c) => ModelFits(SanitizeLoaded(c))
           /\ SanitizeLoaded(c).api.provider \in Providers
<1>1. PICK api, mon, upd : api = LoadedApi(c.api) /\ mon = LoadedMonitoring(c.mon) /\ upd = LoadedUpdater(c.upd)
  OBVIOUS
<1>2. PICK advisor : /\ advisor = [c.advisor EXCEPT !.low = FiniteOr(@, 0, 95, 60)]
                     /\ CompleteAdvisor(advisor)
                     /\ [advisor EXCEPT !.low = FiniteOr(@, 0, 95, 60)] = advisor
                     /\ advisor.model = c.advisor.model /\ advisor.chosenFor = c.advisor.chosenFor
  BY AdvisorLoaded DEF Complete
<1>3. CompleteApi(api) /\ LoadedApi(api) = api /\ api.provider = Provider(c.api.provider)
  BY <1>1, ApiLoaded DEF Complete
<1>4. CompleteMon(mon) /\ LoadedMonitoring(mon) = mon
  BY <1>1, MonLoaded DEF Complete
<1>5. CompleteUpd(upd) /\ LoadedUpdater(upd) = upd
  BY <1>1, UpdaterLoaded DEF Complete
<1>6. PICK d : d = SanitizeLoaded(c)
  OBVIOUS
<1>7. d = [api |-> api, advisor |-> advisor, mon |-> mon, upd |-> upd]
  BY <1>1, <1>2, <1>6 DEF SanitizeLoaded
<1>8. d.api = api /\ d.advisor = advisor /\ d.mon = mon /\ d.upd = upd
  BY <1>7
<1>9. Complete(d)
  BY <1>2, <1>3, <1>4, <1>5, <1>7, <1>8 DEF Complete
<1>10. SanitizeLoaded(d) = d
  BY <1>2, <1>3, <1>4, <1>5, <1>7, <1>8 DEF SanitizeLoaded
<1>11. (ModelFits(c) => ModelFits(d)) /\ d.api.provider \in Providers
  <2>1. d.api.provider = Provider(c.api.provider) /\ d.advisor.model = c.advisor.model
        /\ d.advisor.chosenFor = c.advisor.chosenFor
    BY <1>2, <1>3, <1>8
  <2> QED
    BY <2>1, ProviderOnce DEF ModelFits
<1> QED
  BY <1>1, <1>6, <1>8, <1>9, <1>10, <1>11


-----------------------------------------------------------------------------
(* The settings: every save can be cut short *)

(* A proven note is the app's note, and has worked for it.                 *)
ProvenIn(c, w) == \A a \in DOMAIN c.upd.proven :
    Has(c.upd.notes, a, c.upd.proven[a]) /\ HasWorked(a, c.upd.proven[a], w)

(* What is true of the configuration in force and of the copy being saved. *)
FitIn(c, w) == Complete(c) /\ ProvenIn(c, w) /\ ModelFits(c) /\ c.api.provider \in Providers

SameLoop(c, d) == c.api = d.api /\ c.mon.tick = d.mon.tick /\ c.mon.conf = d.mon.conf

(* What a start would find, at each step of a save.                        *)
OnDisk ==
    /\ files = [live |-> files.live, bak |-> files.bak, tmp |-> files.tmp]
    /\ Loadable(files)
    /\ saving # "no" => running
    /\ saving = "copying" => Parses(files.live)
    /\ saving = "rename" => files.tmp = draft
    /\ IF saving = "saved" THEN Load(files) = SanitizeLoaded(draft)
       ELSE Load(files) = SanitizeLoaded(cfg) \/ (~running /\ Load(files) = SanitizeLoaded(draft))

(* Only a save of the settings page changes what the loop works with.      *)
LoopKept == saving # "no" /\ saveFor.for # "settings" => SameLoop(draft, cfg)

SettingsInv ==
    /\ SettingsTypeOK /\ OnDisk /\ LoopKept /\ InForce
    /\ FitIn(cfg, worked) /\ FitIn(draft, worked)
    /\ \A g \in guided : g.id \in NotedApps

LEMMA RecordsParse == ASSUME NEW c, Complete(c) PROVE Parses(c)
<1>1. PICK api, advisor, mon, upd : c = [api |-> api, advisor |-> advisor, mon |-> mon, upd |-> upd]
  BY DEF Complete
<1>2. "api" \in DOMAIN c /\ "api" \notin DOMAIN Torn /\ "api" \notin DOMAIN Missing
  BY <1>1 DEF Torn, Missing
<1> QED
  BY <1>2 DEF Parses

LEMMA ProvenLoaded ==
    ASSUME NEW c, Complete(c), NEW w, \A a \in DOMAIN c.upd.proven : HasWorked(a, c.upd.proven[a], w)
    PROVE  ProvenIn(SanitizeLoaded(c), w)
<1>1. PICK u : u = LoadedUpdater(c.upd)
  OBVIOUS
<1>2. /\ DOMAIN u.proven \subseteq DOMAIN c.upd.proven \cap DOMAIN u.notes
      /\ \A a \in DOMAIN u.proven : u.proven[a] = c.upd.proven[a] /\ u.notes[a] = c.upd.proven[a]
  BY <1>1, UpdaterLoaded DEF Complete
<1>3. SanitizeLoaded(c).upd = u
  BY <1>1, SanitizeOnce
<1> QED
  BY <1>2, <1>3 DEF ProvenIn, Has

LEMMA LoadedFits ==
    ASSUME NEW c, NEW w, FitIn(c, w)
    PROVE  /\ FitIn(SanitizeLoaded(c), w)
           /\ SanitizeLoaded(SanitizeLoaded(c)) = SanitizeLoaded(c)
  BY SanitizeOnce, ProvenLoaded DEF FitIn, ProvenIn

LEMMA FitsMore ==
    ASSUME NEW c, NEW w, NEW v, FitIn(c, w), w \subseteq v PROVE FitIn(c, v)
  BY DEF FitIn, ProvenIn, HasWorked

LEMMA SettingsBegin == SettingsInit => SettingsInv
<1> SUFFICES ASSUME SettingsInit PROVE SettingsInv
  OBVIOUS
<1>1. PICK f \in {files.live, files.bak} : /\ Parses(f) /\ Load(files) = SanitizeLoaded(f)
  BY DEF SettingsInit, Loadable, Load
<1>2. Complete(f) /\ ModelFits(f) /\ files = [live |-> files.live, bak |-> files.bak, tmp |-> files.tmp]
  BY <1>1, SettingsInputs DEF SettingsInit
<1>3. Complete(cfg) /\ ModelFits(cfg) /\ cfg.api.provider \in Providers /\ SanitizeLoaded(cfg) = cfg
  BY <1>1, <1>2, SanitizeOnce DEF SettingsInit
<1>4. \A a \in DOMAIN cfg.upd.proven : HasWorked(a, cfg.upd.proven[a], worked)
  <2> SUFFICES ASSUME NEW a \in DOMAIN cfg.upd.proven PROVE HasWorked(a, cfg.upd.proven[a], worked)
    OBVIOUS
  <2>1. PICK t : t = <<a, cfg.upd.proven[a].urls>>
    OBVIOUS
  <2>2. t \in worked /\ t[1] = a /\ t[2] = cfg.upd.proven[a].urls
    BY <2>1 DEF SettingsInit
  <2>3. KeepsUrls(t[2], cfg.upd.proven[a])
    BY <2>2 DEF KeepsUrls
  <2> QED
    BY <2>2, <2>3 DEF HasWorked
<1>5. FitIn(cfg, worked)
  BY <1>3, <1>4, ProvenLoaded DEF FitIn
<1>6. OnDisk
  BY <1>2, <1>3 DEF SettingsInit, OnDisk
<1>7. SettingsTypeOK
  <2>1. Cardinality(guided) <= 1
    <3>1. Cardinality({}) = 0 /\ guided = {}
      BY FS_EmptySet DEF SettingsInit
    <3>2. Cardinality(guided) = 0
      BY <3>1
    <3> QED
      BY <3>2
  <2>2. DOMAIN cfg.upd.notes \subseteq NotedApps
    BY <1>3 DEF Complete, CompleteUpd, AreNotes
  <2>3. listed \subseteq NotedApps /\ cfg = draft
    BY DEF SettingsInit
  <2>4. DOMAIN files = {"live", "bak", "tmp"}
    BY <1>2
  <2> QED
    BY <2>1, <2>2, <2>3, <2>4 DEF SettingsInit, SettingsTypeOK
<1>8. LoopKept /\ InForce
  BY DEF SettingsInit, LoopKept, InForce, ClientOf
<1> QED
  BY <1>5, <1>6, <1>7, <1>8 DEF SettingsInv, SettingsInit

LEMMA AtMostOne == \A S : S = {} \/ (\E g : S = {g}) => Cardinality(S) <= 1
<1> SUFFICES ASSUME NEW S, S = {} \/ \E g : S = {g} PROVE Cardinality(S) <= 1
  OBVIOUS
<1>1. Cardinality(S) \in {0, 1}
  BY FS_EmptySet, FS_Singleton
<1> QED
  BY <1>1

(* The answers and the errors the service shows.                           *)
SaidOK == said \in {"none", "rejected", "failed", "unchanged", "saved", "applied", "portable",
                    "restarting", "not restarted"}
ShownOK == shownError \in {"none", "noai", "other"} /\ ranBefore \in BOOLEAN /\ listed \subseteq NotedApps

LEMMA HeldTypes == SettingsInv => SaidOK /\ ShownOK /\ running \in BOOLEAN /\ portable \in BOOLEAN
  BY DEF SettingsInv, SettingsTypeOK, SaidOK, ShownOK

(* The types, step by step, from those of the configurations.              *)
LEMMA TypesOf ==
    ASSUME SettingsInv,
           saving' \in {"no", "backup", "copying", "write", "writing", "rename", "saved"},
           SaidOK', ShownOK', running' \in BOOLEAN, portable' \in BOOLEAN,
           guided' = guided \/ guided' = {} \/ \E g : guided' = {g},
           OnDisk', Complete(cfg'), Complete(draft')
    PROVE  SettingsTypeOK'
<1>1. Cardinality(guided') <= 1
  <2>1. CASE guided' = guided
    BY <2>1 DEF SettingsInv, SettingsTypeOK
  <2>2. CASE guided' = {} \/ \E g : guided' = {g}
    BY <2>2, AtMostOne
  <2> QED
    BY <2>1, <2>2
<1>2. \A c \in {cfg', draft'} : DOMAIN c.upd.notes \subseteq NotedApps
  BY DEF Complete, CompleteUpd, AreNotes
<1>3. DOMAIN files' = {"live", "bak", "tmp"}
  BY DEF OnDisk
<1> QED
  BY <1>1, <1>2, <1>3 DEF SettingsTypeOK, SaidOK, ShownOK


-----------------------------------------------------------------------------
(* The settings: what a command makes of a fitting configuration fits *)

LEMMA AppliedFits ==
    ASSUME NEW c, NEW w, FitIn(c, w), NEW u \in Updates, ~RejectsUpdate(u)
    PROVE  FitIn(Applied(c, u), w)
<1>1. PICK api, adv, mon, upd :
         /\ c = [api |-> api, advisor |-> adv, mon |-> mon, upd |-> upd]
         /\ CompleteApi(api) /\ CompleteAdvisor(adv) /\ CompleteMon(mon) /\ CompleteUpd(upd)
  BY DEF FitIn, Complete
<1>p. PICK to : to = Provider(u.provider) /\ to \in Providers /\ Provider(to) = to
  BY ProviderOnce
<1>2. PICK adv1, api1 :
         /\ adv1 = EscalationFor(c, to)
         /\ api1 = [provider |-> to, model |-> u.model, check |-> u.check,
                    effort |-> Effort(u.effort), path |-> Keep(api.path, u.path)]
  OBVIOUS
<1>3. PICK tick, poll, wmi, conf, channels, dirs, watch :
         /\ tick = Clamp(u.tick, 10, Week) /\ poll = Clamp(u.poll, 5, Week) /\ wmi = Clamp(u.wmi, 30, Week)
         /\ conf = FiniteOr(u.conf, 50, 95, 80)
         /\ channels = Normal(u.channels) /\ dirs = Normal(u.dirs)
         /\ watch = IF u.watch = "" THEN mon.watch ELSE u.watch
  OBVIOUS
<1>4. PICK mon1 :
         mon1 = [tick |-> tick, poll |-> poll, wmi |-> wmi, conf |-> conf,
                 channels |-> channels, dirs |-> dirs, game |-> u.game, watch |-> watch]
  OBVIOUS
<1>5. PICK d : d = Applied(c, u)
  OBVIOUS
<1>6. d = [c EXCEPT !.advisor = adv1, !.api = api1, !.mon = mon1]
  <2>1. c.api = api /\ c.mon = mon
    BY <1>1
  <2> QED
    BY <1>p, <1>2, <1>3, <1>4, <1>5, <2>1 DEF Applied
<1>7. d = [api |-> api1, advisor |-> adv1, mon |-> mon1, upd |-> upd]
  BY ONLY <1>1, <1>6
<1>8. d.api = api1 /\ d.advisor = adv1 /\ d.mon = mon1 /\ d.upd = upd /\ c.upd = upd
      /\ c.api = api /\ c.advisor = adv
  BY <1>1, <1>7
<1>9. CompleteApi(api1) /\ api1.provider = to
  <2>1. IsSeq(u.model) /\ IsSeq(u.check)
    BY SettingsInputs
  <2> QED
    BY <1>2, <2>1 DEF CompleteApi
<1>10. CompleteMon(mon1)
  <2>1. u.tick \in Int /\ u.poll \in Int /\ u.wmi \in Int /\ u.conf \in Int /\ Week \in Nat /\ 30 <= Week
    BY SettingsInputs, Spans
  <2>2. tick \in Int /\ poll \in Int /\ wmi \in Int
    <3>1. \A x, lo, hi \in Int : Clamp(x, lo, hi) \in Int
      BY DEF Clamp
    <3>2. 10 \in Int /\ 5 \in Int /\ 30 \in Int /\ Week \in Int
      BY <2>1
    <3> QED
      BY ONLY <1>3, <2>1, <3>1, <3>2
  <2>3. conf \in Int
    <3>1. \A x \in Int : FiniteOr(x, 50, 95, 80) \in Int
      BY DEF FiniteOr, Clamp, NotFinite
    <3> QED
      BY ONLY <1>3, <2>1, <3>1
  <2>4. IsSeq(channels) /\ IsSeq(dirs)
    <3>1. ASSUME NEW s, IsSeq(s) PROVE IsSeq(Normal(s))
      <4>1. IsSeq(Named(s))
        BY <3>1, NamedIs DEF Within
      <4>2. IsSeq(Distinct(Named(s)))
        BY <4>1, DistinctIs DEF Within
      <4> QED
        BY <4>2 DEF Normal
    <3>2. IsSeq(u.channels) /\ IsSeq(u.dirs)
      BY SettingsInputs
    <3> QED
      BY <1>3, <3>1, <3>2
  <2> QED
    BY <1>4, <2>2, <2>3, <2>4 DEF CompleteMon
<1>11. CompleteAdvisor(adv1) /\ (adv1.model # <<>> => Provider(adv1.chosenFor) = to)
  <2>1. CASE to = api.provider
    <3>1. adv1 = adv
      BY <1>2, <1>8, <2>1 DEF EscalationFor
    <3>2. adv.model # <<>> => Provider(adv.chosenFor) = Provider(api.provider)
      BY <1>8 DEF FitIn, ModelFits
    <3> QED
      BY <1>1, <1>p, <2>1, <3>1, <3>2
  <2>2. CASE to # api.provider
    <3>1. adv1 = [adv EXCEPT !.model = <<>>]
      BY <1>2, <1>8, <2>2 DEF EscalationFor
    <3>2. PICK on, model, effort, low, chosenFor :
             adv = [on |-> on, model |-> model, effort |-> effort, low |-> low, chosenFor |-> chosenFor]
      BY <1>1 DEF CompleteAdvisor
    <3>3. adv1 = [on |-> on, model |-> <<>>, effort |-> effort, low |-> low, chosenFor |-> chosenFor]
      BY ONLY <3>1, <3>2
    <3>4. low \in Int
      BY <1>1, <3>2 DEF CompleteAdvisor
    <3> QED
      BY <3>3, <3>4 DEF CompleteAdvisor
  <2> QED
    BY <2>1, <2>2
<1>12. Complete(d)
  BY <1>1, <1>7, <1>8, <1>9, <1>10, <1>11 DEF Complete
<1>13. ProvenIn(d, w) /\ ModelFits(d) /\ d.api.provider \in Providers
  BY <1>p, <1>8, <1>9, <1>11 DEF FitIn, ProvenIn, ModelFits
<1> QED
  BY <1>5, <1>12, <1>13 DEF FitIn

LEMMA AdvisorFits ==
    ASSUME NEW c, NEW w, FitIn(c, w), NEW u \in AdvisorUpdates
    PROVE  FitIn(AdvisorApplied(c, u), w) /\ SameLoop(AdvisorApplied(c, u), c)
<1>1. PICK api, adv, mon, upd :
         /\ c = [api |-> api, advisor |-> adv, mon |-> mon, upd |-> upd]
         /\ CompleteApi(api) /\ CompleteAdvisor(adv) /\ CompleteMon(mon) /\ CompleteUpd(upd)
  BY DEF FitIn, Complete
<1>2. PICK low, effort : low = FiniteOr(u.low, 0, 95, 60) /\ effort = Effort(u.effort)
  OBVIOUS
<1>3. PICK adv1 : adv1 = [on |-> u.on, model |-> u.model, effort |-> effort, low |-> low, chosenFor |-> api.provider]
  OBVIOUS
<1>4. PICK d : d = AdvisorApplied(c, u)
  OBVIOUS
<1>5. d = [c EXCEPT !.advisor = adv1]
  <2>1. c.api = api
    BY <1>1
  <2> QED
    BY <1>2, <1>3, <1>4, <2>1 DEF AdvisorApplied
<1>6. d = [api |-> api, advisor |-> adv1, mon |-> mon, upd |-> upd]
  BY ONLY <1>1, <1>5
<1>7. d.api = api /\ d.advisor = adv1 /\ d.mon = mon /\ d.upd = upd
      /\ c.api = api /\ c.mon = mon /\ c.upd = upd
  BY <1>1, <1>6
<1>8. CompleteAdvisor(adv1) /\ adv1.chosenFor = api.provider
  <2>1. low \in Int
    <3>1. u.low \in Int
      BY SettingsInputs
    <3> QED
      BY <1>2, <3>1 DEF FiniteOr, Clamp, NotFinite
  <2> QED
    BY <1>3, <2>1 DEF CompleteAdvisor
<1>9. Complete(d)
  BY <1>1, <1>6, <1>7, <1>8 DEF Complete
<1>10. ProvenIn(d, w) /\ ModelFits(d) /\ d.api.provider \in Providers /\ SameLoop(d, c)
  BY <1>7, <1>8 DEF FitIn, ProvenIn, ModelFits, SameLoop
<1> QED
  BY <1>4, <1>9, <1>10 DEF FitIn

(* Only the updater's part is changed.                                     *)
LEMMA UpdChanged ==
    ASSUME NEW c, NEW w, FitIn(c, w), NEW v, NEW u, CompleteUpd(u),
           \A a \in DOMAIN u.proven : Has(u.notes, a, u.proven[a]) /\ HasWorked(a, u.proven[a], v)
    PROVE  FitIn([c EXCEPT !.upd = u], v) /\ SameLoop([c EXCEPT !.upd = u], c)
<1>1. PICK api, adv, mon, upd :
         /\ c = [api |-> api, advisor |-> adv, mon |-> mon, upd |-> upd]
         /\ CompleteApi(api) /\ CompleteAdvisor(adv) /\ CompleteMon(mon)
  BY DEF FitIn, Complete
<1>2. PICK d : d = [c EXCEPT !.upd = u]
  OBVIOUS
<1>3. d = [api |-> api, advisor |-> adv, mon |-> mon, upd |-> u]
  BY ONLY <1>1, <1>2
<1>4. d.api = api /\ d.advisor = adv /\ d.mon = mon /\ d.upd = u
      /\ c.api = api /\ c.mon = mon /\ c.advisor = adv
  BY <1>1, <1>3
<1>5. Complete(d)
  BY <1>1, <1>3, <1>4 DEF Complete
<1>6. ProvenIn(d, v) /\ ModelFits(d) /\ d.api.provider \in Providers /\ SameLoop(d, c)
  BY <1>4 DEF FitIn, ProvenIn, ModelFits, SameLoop
<1> QED
  BY <1>2, <1>5, <1>6 DEF FitIn

LEMMA UpdaterFits ==
    ASSUME NEW c, NEW w, FitIn(c, w), NEW u \in UpdaterUpdates
    PROVE  FitIn(UpdaterApplied(c, u), w) /\ SameLoop(UpdaterApplied(c, u), c)
<1>1. PICK on, every, methods, native, signed, ignored, notes, proven :
         /\ c.upd = [on |-> on, every |-> every, methods |-> methods, native |-> native,
                     signed |-> signed, ignored |-> ignored, notes |-> notes, proven |-> proven]
         /\ c.upd.methods = methods /\ c.upd.ignored = ignored /\ c.upd.notes = notes /\ c.upd.proven = proven
         /\ IsSeq(methods) /\ IsSeq(ignored) /\ AreNotes(notes) /\ AreNotes(proven)
  BY DEF FitIn, Complete, CompleteUpd
<1>2. PICK every1, methods1, signed1 :
         /\ every1 = Clamp(u.every, 300, Year)
         /\ methods1 = IF SafeMethods(u.methods) = <<>> THEN methods ELSE SafeMethods(u.methods)
         /\ signed1 = IF u.signed \in {"publisher", "any"} THEN u.signed ELSE "valid"
  OBVIOUS
<1>3. PICK old : old = c.upd /\ old = [on |-> on, every |-> every, methods |-> methods, native |-> native,
                     signed |-> signed, ignored |-> ignored, notes |-> notes, proven |-> proven]
  BY <1>1
<1>4. PICK v : v = [old EXCEPT !.on = u.on, !.every = every1, !.methods = methods1, !.native = u.native,
                               !.signed = signed1]
  OBVIOUS
<1>5. v = [on |-> u.on, every |-> every1, methods |-> methods1, native |-> u.native,
           signed |-> signed1, ignored |-> ignored, notes |-> notes, proven |-> proven]
  <2>1. old = [on |-> on, every |-> every, methods |-> methods, native |-> native,
               signed |-> signed, ignored |-> ignored, notes |-> notes, proven |-> proven]
    BY <1>3
  <2> QED
    BY ONLY <2>1, <1>4
<1>6. UpdaterApplied(c, u) = [c EXCEPT !.upd = v]
  BY <1>1, <1>2, <1>3, <1>4 DEF UpdaterApplied
<1>7. every1 \in Int
  <2>1. u.every \in Int /\ Year \in Nat
    BY SettingsInputs, Spans
  <2> QED
    BY <1>2, <2>1 DEF Clamp
<1>8. IsSeq(methods1)
  <2>1. IsSeq(u.methods)
    BY SettingsInputs
  <2> QED
    BY <1>1, <1>2, <2>1, MethodsLoaded
<1>9. CompleteUpd(v) /\ v.notes = notes /\ v.proven = proven
  BY <1>1, <1>5, <1>7, <1>8 DEF CompleteUpd
<1>10. \A a \in DOMAIN v.proven : Has(v.notes, a, v.proven[a]) /\ HasWorked(a, v.proven[a], w)
  BY <1>1, <1>9 DEF FitIn, ProvenIn
<1> QED
  BY <1>6, <1>9, <1>10, UpdChanged

LEMMA NotesChanged ==
    ASSUME NEW c, NEW w, FitIn(c, w), NEW v, NEW n, NEW p, AreNotes(n), AreNotes(p),
           \A a \in DOMAIN p : Has(n, a, p[a]) /\ HasWorked(a, p[a], v)
    PROVE  FitIn(SetNotes(c, n, p), v) /\ SameLoop(SetNotes(c, n, p), c)
<1>1. PICK on, every, methods, native, signed, ignored, notes, proven :
         /\ c.upd = [on |-> on, every |-> every, methods |-> methods, native |-> native,
                     signed |-> signed, ignored |-> ignored, notes |-> notes, proven |-> proven]
         /\ IsSeq(methods) /\ IsSeq(ignored) /\ every \in Int
  BY DEF FitIn, Complete, CompleteUpd
<1>o. PICK old : old = c.upd /\ old = [on |-> on, every |-> every, methods |-> methods, native |-> native,
                     signed |-> signed, ignored |-> ignored, notes |-> notes, proven |-> proven]
  BY <1>1
<1>2. PICK u : u = [old EXCEPT !.notes = n, !.proven = p]
  OBVIOUS
<1>3. u = [on |-> on, every |-> every, methods |-> methods, native |-> native,
           signed |-> signed, ignored |-> ignored, notes |-> n, proven |-> p]
  <2>1. old = [on |-> on, every |-> every, methods |-> methods, native |-> native,
               signed |-> signed, ignored |-> ignored, notes |-> notes, proven |-> proven]
    BY <1>o
  <2> QED
    BY ONLY <2>1, <1>2
<1>4. SetNotes(c, n, p) = [c EXCEPT !.upd = u]
  BY <1>o, <1>2 DEF SetNotes
<1>5. CompleteUpd(u) /\ u.notes = n /\ u.proven = p
  BY <1>1, <1>3 DEF CompleteUpd
<1> QED
  BY <1>4, <1>5, UpdChanged

LEMMA NotedFits ==
    ASSUME NEW c, NEW w, FitIn(c, w), NEW a \in NotedApps, NEW n
    PROVE  FitIn(Noted(c, a, n), w) /\ SameLoop(Noted(c, a, n), c)
<1>1. PICK notes, proven : notes = c.upd.notes /\ proven = c.upd.proven
  OBVIOUS
<1>2. /\ AreNotes(notes) /\ AreNotes(proven)
      /\ \A b \in DOMAIN proven : Has(notes, b, proven[b]) /\ HasWorked(b, proven[b], w)
  BY <1>1 DEF FitIn, Complete, CompleteUpd, ProvenIn
<1>3. PICK left, some, more :
         left = Without(proven, a) /\ some = Without(notes, a) /\ more = With(notes, a, n)
  OBVIOUS
<1>4. /\ AreNotes(left) /\ DOMAIN left = DOMAIN proven \ {a}
      /\ \A b \in DOMAIN left : left[b] = proven[b]
  BY <1>2, <1>3 DEF Without, Only, AreNotes
<1>5. /\ AreNotes(some) /\ DOMAIN some = DOMAIN notes \ {a}
      /\ \A b \in DOMAIN some : some[b] = notes[b]
  BY <1>2, <1>3 DEF Without, Only, AreNotes
<1>6. /\ AreNotes(more) /\ DOMAIN more = DOMAIN notes \cup {a}
      /\ \A b \in DOMAIN notes \ {a} : more[b] = notes[b]
  BY <1>2, <1>3 DEF With, AreNotes
<1>7. CASE n.size = 0
  <2>1. \A b \in DOMAIN left : Has(some, b, left[b]) /\ HasWorked(b, left[b], w)
    BY <1>2, <1>4, <1>5 DEF Has
  <2>2. Noted(c, a, n) = SetNotes(c, some, left)
    BY <1>1, <1>3, <1>7 DEF Noted
  <2> QED
    BY <1>4, <1>5, <2>1, <2>2, NotesChanged
<1>8. CASE n.size # 0 /\ Has(c.upd.notes, a, n)
  <2>1. Noted(c, a, n) = c
    BY <1>8 DEF Noted
  <2> QED
    BY <2>1 DEF SameLoop
<1>9. CASE n.size # 0 /\ ~Has(c.upd.notes, a, n)
  <2>1. \A b \in DOMAIN left : Has(more, b, left[b]) /\ HasWorked(b, left[b], w)
    BY <1>2, <1>4, <1>6 DEF Has
  <2>2. Noted(c, a, n) = SetNotes(c, more, left)
    BY <1>1, <1>3, <1>9 DEF Noted, Unproven
  <2> QED
    BY <1>4, <1>6, <2>1, <2>2, NotesChanged
<1> QED
  BY <1>7, <1>8, <1>9

LEMMA LearnedFits ==
    ASSUME NEW c, NEW w, FitIn(c, w), NEW a \in NotedApps, NEW n, NEW urls, KeepsUrls(urls, n)
    PROVE  /\ FitIn(Learned(c, a, n), w \cup {<<a, urls>>})
           /\ SameLoop(Learned(c, a, n), c)
<1>1. PICK notes, proven : notes = c.upd.notes /\ proven = c.upd.proven
  OBVIOUS
<1>2. /\ AreNotes(notes) /\ AreNotes(proven)
      /\ \A b \in DOMAIN proven : Has(notes, b, proven[b]) /\ HasWorked(b, proven[b], w)
  BY <1>1 DEF FitIn, Complete, CompleteUpd, ProvenIn
<1>3. PICK more, sure : more = With(notes, a, n) /\ sure = With(proven, a, n)
  OBVIOUS
<1>4. /\ AreNotes(more) /\ DOMAIN more = DOMAIN notes \cup {a} /\ more[a] = n
      /\ \A b \in DOMAIN notes \ {a} : more[b] = notes[b]
  BY <1>2, <1>3 DEF With, AreNotes
<1>5. /\ AreNotes(sure) /\ DOMAIN sure = DOMAIN proven \cup {a} /\ sure[a] = n
      /\ \A b \in DOMAIN proven \ {a} : sure[b] = proven[b]
  BY <1>2, <1>3 DEF With, AreNotes
<1>6. PICK v : v = w \cup {<<a, urls>>}
  OBVIOUS
<1>w. HasWorked(a, n, v) /\ \A b, m : HasWorked(b, m, w) => HasWorked(b, m, v)
  <2>0. PICK t : t = <<a, urls>>
    OBVIOUS
  <2>1. t[1] = a /\ t[2] = urls
    BY <2>0
  <2>2. t \in v /\ w \subseteq v
    BY <1>6, <2>0
  <2> QED
    BY <2>1, <2>2 DEF HasWorked
<1>7. ASSUME NEW b \in DOMAIN sure PROVE Has(more, b, sure[b]) /\ HasWorked(b, sure[b], v)
  <2>1. CASE b = a
    BY <1>w, <1>4, <1>5, <2>1 DEF Has
  <2>2. CASE b # a
    BY <1>w, <1>2, <1>4, <1>5, <2>2 DEF Has
  <2> QED
    BY <2>1, <2>2
<1>8. Learned(c, a, n) = SetNotes(c, more, sure)
  BY <1>1, <1>3 DEF Learned
<1> QED
  BY <1>4, <1>5, <1>6, <1>7, <1>8, NotesChanged

LEMMA IgnoredFits ==
    ASSUME NEW c, NEW w, FitIn(c, w), NEW a, NEW on
    PROVE  FitIn(Ignored(c, a, on), w) /\ SameLoop(Ignored(c, a, on), c)
<1>1. PICK on0, every, methods, native, signed, ignored, notes, proven :
         /\ c.upd = [on |-> on0, every |-> every, methods |-> methods, native |-> native,
                     signed |-> signed, ignored |-> ignored, notes |-> notes, proven |-> proven]
         /\ c.upd.ignored = ignored /\ c.upd.notes = notes /\ c.upd.proven = proven
         /\ IsSeq(methods) /\ IsSeq(ignored) /\ every \in Int /\ AreNotes(notes) /\ AreNotes(proven)
  BY DEF FitIn, Complete, CompleteUpd
<1>2. PICK ignored1 : ignored1 = IF ~on THEN Sifted(ignored, {i \in DOMAIN ignored : ignored[i] # a})
                                 ELSE IF IsIgnored(c, a) THEN ignored ELSE Append(ignored, a)
  OBVIOUS
<1>3. IsSeq(ignored1)
  <2>1. IsSeq(Sifted(ignored, {i \in DOMAIN ignored : ignored[i] # a}))
    <3>1. {i \in DOMAIN ignored : ignored[i] # a} \in SUBSET DOMAIN ignored
      OBVIOUS
    <3>2. Within(Sifted(ignored, {i \in DOMAIN ignored : ignored[i] # a}), ignored)
      BY <1>1, <3>1, SiftedWithin
    <3> QED
      BY <3>2 DEF Within
  <2>2. IsSeq(Append(ignored, a))
    <3> DEFINE T == {ignored[i] : i \in DOMAIN ignored} \cup {a}
    <3>1. ignored \in Seq(T) /\ a \in T
      <4>1. ignored \in Seq({ignored[i] : i \in DOMAIN ignored})
        BY <1>1 DEF IsSeq
      <4> QED
        BY <4>1
    <3> HIDE DEF T
    <3>2. Append(ignored, a) \in Seq(T)
      BY <3>1
    <3> QED
      BY <3>2, SeqOfItself
  <2> QED
    BY <1>1, <1>2, <2>1, <2>2
<1>o. PICK old : old = c.upd /\ old = [on |-> on0, every |-> every, methods |-> methods, native |-> native,
                     signed |-> signed, ignored |-> ignored, notes |-> notes, proven |-> proven]
  BY <1>1
<1>4. PICK u : u = [old EXCEPT !.ignored = ignored1]
  OBVIOUS
<1>5. u = [on |-> on0, every |-> every, methods |-> methods, native |-> native,
           signed |-> signed, ignored |-> ignored1, notes |-> notes, proven |-> proven]
  <2>1. old = [on |-> on0, every |-> every, methods |-> methods, native |-> native,
               signed |-> signed, ignored |-> ignored, notes |-> notes, proven |-> proven]
    BY <1>o
  <2> QED
    BY ONLY <2>1, <1>4
<1>6. Ignored(c, a, on) = [c EXCEPT !.upd = u]
  <2>1. PICK api, adv, mon, upd : c = [api |-> api, advisor |-> adv, mon |-> mon, upd |-> upd]
    BY DEF FitIn, Complete
  <2>2. Ignored(c, a, on) = [c EXCEPT !.upd.ignored = ignored1]
    BY <1>1, <1>2, <2>1 DEF Ignored
  <2>3. c.upd = old
    BY <1>o
  <2> QED
    BY ONLY <2>1, <2>2, <2>3, <1>4
<1>7. CompleteUpd(u) /\ u.notes = notes /\ u.proven = proven
  BY <1>1, <1>3, <1>5 DEF CompleteUpd
<1>8. \A b \in DOMAIN u.proven : Has(u.notes, b, u.proven[b]) /\ HasWorked(b, u.proven[b], w)
  BY <1>1, <1>7 DEF FitIn, ProvenIn
<1> QED
  BY <1>6, <1>7, <1>8, UpdChanged


-----------------------------------------------------------------------------
(* The settings: the steps of a save, a crash and a start *)

(* What a guided retry is under way for.                                   *)
GuidedOK == guided' = guided \/ guided' = {} \/ \E g : guided' = {g} /\ g.id \in NotedApps

LEMMA GuidedKept == SettingsInv /\ GuidedOK => \A g \in guided' : g.id \in NotedApps
  BY DEF SettingsInv, GuidedOK

(* A command that is answered at once saves nothing.                       *)
LEMMA AnswerKeeps ==
    ASSUME SettingsInv, UNCHANGED <<cfg, draft, files, saving, running, portable, inUse>>,
           UNCHANGED saveFor, worked \subseteq worked', SaidOK', ShownOK', GuidedOK
    PROVE  SettingsInv'
<1>1. OnDisk'
  BY DEF SettingsInv, OnDisk
<1>2. LoopKept' /\ InForce'
  BY DEF SettingsInv, LoopKept, InForce
<1>3. FitIn(cfg, worked') /\ FitIn(draft, worked')
  BY FitsMore DEF SettingsInv
<1>4. FitIn(cfg', worked') /\ FitIn(draft', worked')
  BY <1>3
<1>5. SettingsTypeOK'
  <2>1. saving' \in {"no", "backup", "copying", "write", "writing", "rename", "saved"}
    BY DEF SettingsInv, SettingsTypeOK
  <2>2. running' \in BOOLEAN /\ portable' \in BOOLEAN
    BY HeldTypes
  <2>3. Complete(cfg') /\ Complete(draft')
    BY <1>4 DEF FitIn
  <2>4. guided' = guided \/ guided' = {} \/ \E g : guided' = {g}
    BY DEF GuidedOK
  <2> QED
    BY <1>1, <2>1, <2>2, <2>3, <2>4, TypesOf
<1>6. \A g \in guided' : g.id \in NotedApps
  BY GuidedKept
<1> QED
  BY <1>1, <1>2, <1>4, <1>5, <1>6 DEF SettingsInv

(* A command saves a configuration that fits.                              *)
LEMMA SaveKeeps ==
    ASSUME SettingsInv, Free, NEW c, NEW for, NEW id, NEW restart, Save(c, for, id, restart),
           worked \subseteq worked', FitIn(c, worked'), for # "settings" => SameLoop(c, cfg),
           UNCHANGED <<inUse, shownError, ranBefore, listed>>, guided' = guided \/ guided' = {}
    PROVE  SettingsInv'
<1>1. /\ draft' = c /\ saving' = "backup" /\ said' = "none" /\ cfg' = cfg
      /\ saveFor' = [for |-> for, id |-> id, restart |-> restart]
      /\ files' = files /\ running' = running /\ portable' = portable
  BY DEF Save
<1>2. running = TRUE /\ saving = "no"
  BY HeldTypes DEF Free
<1>3. OnDisk'
  BY <1>1, <1>2 DEF SettingsInv, OnDisk
<1>4. LoopKept' /\ InForce'
  BY <1>1 DEF SettingsInv, LoopKept, InForce
<1>5. FitIn(cfg', worked') /\ FitIn(draft', worked')
  BY <1>1, FitsMore DEF SettingsInv
<1>6. SettingsTypeOK'
  <2>1. SaidOK'
    BY <1>1 DEF SaidOK
  <2>2. ShownOK' /\ running' \in BOOLEAN /\ portable' \in BOOLEAN
    BY <1>1, HeldTypes DEF ShownOK
  <2>3. Complete(cfg') /\ Complete(draft')
    BY <1>5 DEF FitIn
  <2> QED
    BY <1>1, <1>3, <2>1, <2>2, <2>3, TypesOf
<1>7. \A g \in guided' : g.id \in NotedApps
  BY DEF SettingsInv
<1> QED
  BY <1>3, <1>4, <1>5, <1>6, <1>7 DEF SettingsInv

(* Killed at any step of a save, the service leaves the configuration in   *)
(* force or the one being saved.                                           *)
LEMMA CrashKeeps == SettingsInv /\ Crash => SettingsInv'
<1> SUFFICES ASSUME SettingsInv, Crash PROVE SettingsInv'
  OBVIOUS
<1>1. /\ running' = FALSE /\ saving' = "no" /\ said' = "none" /\ guided' = {}
      /\ UNCHANGED <<cfg, draft, files, saveFor, portable, inUse, shownError, ranBefore, listed, worked>>
  BY DEF Crash, loopVars
<1>2. OnDisk'
  BY <1>1 DEF SettingsInv, OnDisk
<1>3. LoopKept' /\ InForce'
  BY <1>1 DEF LoopKept, InForce
<1>4. FitIn(cfg', worked') /\ FitIn(draft', worked')
  BY <1>1 DEF SettingsInv
<1>5. SettingsTypeOK'
  <2>1. SaidOK'
    BY <1>1 DEF SaidOK
  <2>2. ShownOK' /\ running' \in BOOLEAN /\ portable' \in BOOLEAN
    BY <1>1, HeldTypes DEF ShownOK
  <2>3. Complete(cfg') /\ Complete(draft')
    BY <1>4 DEF FitIn
  <2> QED
    BY <1>1, <1>2, <2>1, <2>2, <2>3, TypesOf
<1> QED
  BY <1>1, <1>2, <1>3, <1>4, <1>5 DEF SettingsInv

(* A start reads one of the two; both fit.                                 *)
LEMMA StartKeeps == SettingsInv /\ Start => SettingsInv'
<1> SUFFICES ASSUME SettingsInv, Start PROVE SettingsInv'
  OBVIOUS
<1>1. PICK client : client \in ClientOf(Load(files)) /\ Started(files, client)
  BY DEF Start
<1>2. /\ cfg' = Load(files) /\ draft' = cfg' /\ running' = TRUE
      /\ inUse' = [ai |-> client, tick |-> cfg'.mon.tick, conf |-> cfg'.mon.conf]
      /\ shownError' = IF client = NoClient THEN "noai" ELSE "none"
  BY <1>1 DEF Started, Start
<1>3. UNCHANGED <<files, saving, saveFor, said, portable, ranBefore, listed, guided, worked>> /\ ~running
  BY DEF Start, diskVarsOf, guideVars
<1>4. saving = "no"
  BY <1>3 DEF SettingsInv, OnDisk, SettingsTypeOK
<1>5. PICK c : /\ Load(files) = SanitizeLoaded(c) /\ FitIn(c, worked)
  BY <1>4 DEF SettingsInv, OnDisk
<1>6. FitIn(cfg', worked') /\ FitIn(draft', worked') /\ SanitizeLoaded(cfg') = cfg'
  BY <1>2, <1>3, <1>5, LoadedFits
<1>7. OnDisk'
  BY <1>2, <1>3, <1>4, <1>6 DEF SettingsInv, OnDisk
<1>8. LoopKept' /\ InForce'
  BY <1>1, <1>2, <1>3, <1>4 DEF LoopKept, InForce, ClientOf
<1>9. SettingsTypeOK'
  <2>1. SaidOK'
    BY <1>3, HeldTypes DEF SaidOK
  <2>2. shownError' \in {"none", "noai", "other"}
    BY <1>2
  <2>3. ShownOK' /\ portable' \in BOOLEAN /\ running' \in BOOLEAN
    BY <1>2, <1>3, <2>2, HeldTypes DEF ShownOK
  <2>4. Complete(cfg') /\ Complete(draft')
    BY <1>6 DEF FitIn
  <2>5. saving' = "no"
    BY <1>3, <1>4
  <2> QED
    BY <1>3, <1>7, <2>1, <2>3, <2>4, <2>5, TypesOf
<1>10. \A g \in guided' : g.id \in NotedApps
  BY <1>3 DEF SettingsInv
<1> QED
  BY <1>6, <1>7, <1>8, <1>9, <1>10 DEF SettingsInv

(* A step of a save changes nothing but the files.                         *)
LEMMA DiskStepKeeps ==
    ASSUME SettingsInv, DiskStep, OnDisk', saving # "no",
           saving' \in {"backup", "copying", "write", "writing", "rename", "saved"}
    PROVE  SettingsInv'
<1>1. UNCHANGED <<cfg, draft, saveFor, said, running, portable, inUse, shownError, ranBefore, listed, guided, worked>>
  BY DEF DiskStep, loopVars, guideVars
<1>2. LoopKept' /\ InForce'
  BY <1>1 DEF SettingsInv, LoopKept, InForce
<1>3. FitIn(cfg', worked') /\ FitIn(draft', worked')
  BY <1>1 DEF SettingsInv
<1>4. SettingsTypeOK'
  <2>1. SaidOK' /\ ShownOK' /\ running' \in BOOLEAN /\ portable' \in BOOLEAN
    BY <1>1, HeldTypes DEF SaidOK, ShownOK
  <2>2. Complete(cfg') /\ Complete(draft')
    BY <1>3 DEF FitIn
  <2> QED
    BY <1>1, <2>1, <2>2, TypesOf
<1>5. \A g \in guided' : g.id \in NotedApps
  BY <1>1 DEF SettingsInv
<1> QED
  BY <1>2, <1>3, <1>4, <1>5 DEF SettingsInv

LEMMA BackupKeeps == SettingsInv /\ (Backup \/ BackupDone) => SettingsInv'
<1> SUFFICES ASSUME SettingsInv, Backup \/ BackupDone PROVE SettingsInv'
  OBVIOUS
<1>1. PICK live, bak, tmp : files = [live |-> live, bak |-> bak, tmp |-> tmp]
  BY DEF SettingsInv, OnDisk
<1>2. running /\ DiskStep /\ UNCHANGED <<cfg, draft, running>> /\ saving \in {"backup", "copying"}
  BY DEF SettingsInv, OnDisk, Backup, BackupDone, DiskStep
<1>3. Load(files) = SanitizeLoaded(cfg) /\ Loadable(files)
  BY <1>2 DEF SettingsInv, OnDisk
<1>4. CASE UNCHANGED files /\ saving' = "write"
  <2>1. OnDisk'
    BY <1>2, <1>3, <1>4 DEF SettingsInv, OnDisk
  <2> QED
    BY <1>2, <1>4, <2>1, DiskStepKeeps
<1>5. CASE Parses(live) /\ saving' \in {"copying", "write"} /\ \E b : files' = [files EXCEPT !.bak = b]
  <2>1. PICK b : files' = [files EXCEPT !.bak = b]
    BY <1>5
  <2>2. files' = [live |-> live, bak |-> b, tmp |-> tmp]
    BY ONLY <1>1, <2>1
  <2>3. files.live = live /\ files'.live = live
    BY <1>1, <2>2
  <2>4. Load(files') = Load(files) /\ Loadable(files')
    BY <1>5, <2>3 DEF Load, Loadable
  <2>5. OnDisk'
    BY <1>2, <1>3, <1>5, <2>2, <2>3, <2>4 DEF OnDisk
  <2> QED
    BY <1>2, <1>5, <2>5, DiskStepKeeps
<1>6. CASE Backup
  BY <1>1, <1>4, <1>5, <1>6 DEF Backup, BackedUp, File
<1>7. CASE BackupDone
  <2>1. Parses(live) /\ saving' = "write"
    BY <1>1, <1>7 DEF BackupDone, SettingsInv, OnDisk
  <2> QED
    BY <1>4, <1>5, <1>7, <2>1 DEF BackupDone, File
<1> QED
  BY <1>6, <1>7

LEMMA WriteKeeps == SettingsInv /\ (WriteTmp \/ TmpDone) => SettingsInv'
<1> SUFFICES ASSUME SettingsInv, WriteTmp \/ TmpDone PROVE SettingsInv'
  OBVIOUS
<1>1. PICK live, bak, tmp : files = [live |-> live, bak |-> bak, tmp |-> tmp]
  BY DEF SettingsInv, OnDisk
<1>2. running /\ DiskStep /\ UNCHANGED <<cfg, draft, running>> /\ saving \in {"write", "writing"}
      /\ saving' \in {"writing", "rename"}
  BY DEF SettingsInv, OnDisk, WriteTmp, TmpDone, DiskStep
<1>3. Load(files) = SanitizeLoaded(cfg) /\ Loadable(files)
  BY <1>2 DEF SettingsInv, OnDisk
<1>4. PICK t : files' = [files EXCEPT !.tmp = t] /\ (saving' = "rename" => t = draft)
  BY DEF WriteTmp, TmpDone, File
<1>5. files' = [live |-> live, bak |-> bak, tmp |-> t]
  BY ONLY <1>1, <1>4
<1>6. files'.live = files.live /\ files'.bak = files.bak /\ files'.tmp = t
  BY <1>1, <1>5
<1>7. Load(files') = Load(files) /\ Loadable(files')
  BY <1>3, <1>6 DEF Load, Loadable
<1>8. OnDisk'
  BY <1>2, <1>3, <1>4, <1>5, <1>6, <1>7 DEF OnDisk
<1> QED
  BY <1>2, <1>8, DiskStepKeeps

LEMMA RenameKeeps == SettingsInv /\ Rename => SettingsInv'
<1> SUFFICES ASSUME SettingsInv, Rename PROVE SettingsInv'
  OBVIOUS
<1>1. PICK live, bak, tmp : files = [live |-> live, bak |-> bak, tmp |-> tmp]
  BY DEF SettingsInv, OnDisk
<1>2. running /\ DiskStep /\ UNCHANGED <<cfg, draft, running>> /\ saving = "rename" /\ saving' = "saved" /\ tmp = draft
  BY <1>1 DEF SettingsInv, OnDisk, Rename, DiskStep
<1>3. files' = [files EXCEPT !.live = files.tmp, !.tmp = Missing] /\ files.tmp = draft
  BY <1>1, <1>2 DEF Rename
<1>4. files' = [live |-> draft, bak |-> bak, tmp |-> Missing]
  BY ONLY <1>1, <1>3
<1>5. Parses(draft) /\ files'.live = draft
  BY <1>4, RecordsParse DEF SettingsInv, FitIn
<1>6. Load(files') = SanitizeLoaded(draft) /\ Loadable(files')
  BY <1>5 DEF Load, Loadable
<1>7. OnDisk'
  BY <1>2, <1>4, <1>6 DEF OnDisk
<1> QED
  BY <1>2, <1>7, DiskStepKeeps


LEMMA SaveFailsKeeps == SettingsInv /\ SaveFails => SettingsInv'
<1> SUFFICES ASSUME SettingsInv, SaveFails PROVE SettingsInv'
  OBVIOUS
<1>1. /\ saving' = "no" /\ draft' = cfg /\ saving \in {"write", "writing", "rename"}
      /\ UNCHANGED <<cfg, files, running, portable, inUse, ranBefore, listed, guided, worked>>
      /\ said' \in {said, "failed"} /\ shownError' \in {shownError, "other"}
  BY DEF SaveFails, guideVars
<1>2. OnDisk'
  BY <1>1 DEF SettingsInv, OnDisk
<1>3. LoopKept' /\ InForce'
  BY <1>1 DEF SettingsInv, LoopKept, InForce
<1>4. FitIn(cfg', worked') /\ FitIn(draft', worked')
  BY <1>1 DEF SettingsInv
<1>5. SettingsTypeOK'
  <2>1. SaidOK'
    BY <1>1, HeldTypes DEF SaidOK
  <2>2. ShownOK' /\ running' \in BOOLEAN /\ portable' \in BOOLEAN
    BY <1>1, HeldTypes DEF ShownOK
  <2>3. Complete(cfg') /\ Complete(draft')
    BY <1>4 DEF FitIn
  <2> QED
    BY <1>1, <1>2, <2>1, <2>2, <2>3, TypesOf
<1>6. \A g \in guided' : g.id \in NotedApps
  BY <1>1 DEF SettingsInv
<1> QED
  BY <1>2, <1>3, <1>4, <1>5, <1>6 DEF SettingsInv

(* What was saved is adopted.                                              *)
LEMMA AdoptKeeps ==
    ASSUME SettingsInv, NEW for, Adopt(for), InForce', SaidOK', ShownOK', running' \in BOOLEAN,
           UNCHANGED <<portable, worked>>, GuidedOK
    PROVE  SettingsInv'
<1>1. saving = "saved" /\ saving' = "no" /\ cfg' = draft /\ draft' = draft /\ files' = files
  BY DEF Adopt
<1>2. OnDisk'
  BY <1>1 DEF SettingsInv, OnDisk
<1>3. LoopKept'
  BY <1>1 DEF LoopKept
<1>4. FitIn(cfg', worked') /\ FitIn(draft', worked')
  BY <1>1 DEF SettingsInv
<1>5. SettingsTypeOK'
  <2>1. portable' \in BOOLEAN
    BY HeldTypes
  <2>2. Complete(cfg') /\ Complete(draft')
    BY <1>4 DEF FitIn
  <2>3. guided' = guided \/ guided' = {} \/ \E g : guided' = {g}
    BY DEF GuidedOK
  <2> QED
    BY <1>1, <1>2, <2>1, <2>2, <2>3, TypesOf
<1>6. \A g \in guided' : g.id \in NotedApps
  BY GuidedKept
<1> QED
  BY <1>2, <1>3, <1>4, <1>5, <1>6 DEF SettingsInv

LEMMA AdoptSettingsKeeps == SettingsInv /\ AdoptSettings => SettingsInv'
<1> SUFFICES ASSUME SettingsInv, AdoptSettings PROVE SettingsInv'
  OBVIOUS
<1>1. /\ Adopt("settings") /\ UNCHANGED <<portable, worked, ranBefore, listed>>
      /\ inUse' = [ai |-> draft.api, tick |-> draft.mon.tick, conf |-> draft.mon.conf]
  BY DEF AdoptSettings
<1>2. said' \in {"applied", "portable", "restarting", "not restarted"}
  BY DEF AdoptSettings
<1>3. shownError' \in {"none", "other", shownError}
  BY DEF AdoptSettings
<1>4. running' \in {FALSE, running} /\ guided' \in {{}, guided}
  BY DEF AdoptSettings
<1>5. SaidOK'
  BY <1>2 DEF SaidOK
<1>6. ShownOK' /\ running' \in BOOLEAN /\ GuidedOK
  BY <1>1, <1>3, <1>4, HeldTypes DEF ShownOK, GuidedOK
<1>7. InForce'
  BY <1>1 DEF InForce, ClientOf, Adopt
<1> QED
  BY <1>1, <1>5, <1>6, <1>7, AdoptKeeps

LEMMA AdoptOtherKeeps == SettingsInv /\ AdoptOther => SettingsInv'
<1> SUFFICES ASSUME SettingsInv, AdoptOther PROVE SettingsInv'
  OBVIOUS
<1>1. PICK for \in {"advisor", "updater", "ignore", "unignore", "note", "learned"} :
           /\ Adopt(for)
           /\ said' = IF for = "learned" THEN said ELSE "saved"
           /\ listed' = IF for = "ignore" THEN listed \ {saveFor.id} ELSE listed
  BY DEF AdoptOther
<1>2. UNCHANGED <<running, portable, inUse, shownError, ranBefore, guided, worked>>
  BY DEF AdoptOther, guideVars
<1>3. SaidOK' /\ ShownOK' /\ running' \in BOOLEAN /\ GuidedOK
  BY <1>1, <1>2, HeldTypes DEF SaidOK, ShownOK, GuidedOK
<1>4. SameLoop(draft, cfg)
  BY <1>1 DEF SettingsInv, LoopKept, Adopt
<1>5. InForce'
  BY <1>1, <1>2, <1>4 DEF SettingsInv, InForce, ClientOf, SameLoop, Adopt
<1> QED
  BY <1>1, <1>2, <1>3, <1>5, AdoptKeeps

-----------------------------------------------------------------------------
(* The settings: the commands *)

LEMMA UpdateSettingsKeeps ==
    ASSUME SettingsInv, NEW u \in Updates, UpdateSettings(u) PROVE SettingsInv'
<1>1. Free /\ UNCHANGED <<inUse, ranBefore, listed, guided, worked>>
  BY DEF UpdateSettings, Command, guideVars
<1>2. CASE Answer("rejected") /\ shownError' = "other"
  <2>1. UNCHANGED <<cfg, draft, files, saving, saveFor, running, portable>> /\ said' = "rejected"
    BY <1>2 DEF Answer, diskVarsOf
  <2>2. SaidOK' /\ ShownOK' /\ GuidedOK
    BY <1>1, <1>2, <2>1, HeldTypes DEF SaidOK, ShownOK, GuidedOK
  <2> QED
    BY <1>1, <2>1, <2>2, AnswerKeeps
<1>3. CASE /\ ~RejectsUpdate(u) /\ UNCHANGED shownError
           /\ Save(Applied(cfg, u), "settings", "", NeedsRestart(cfg, u))
  <2>1. PICK c : c = Applied(cfg, u)
    OBVIOUS
  <2>2. FitIn(c, worked')
    BY <1>1, <1>3, <2>1, AppliedFits DEF SettingsInv
  <2>3. Save(c, "settings", "", NeedsRestart(cfg, u))
    BY <1>3, <2>1
  <2> QED
    BY <1>1, <1>3, <2>2, <2>3, SaveKeeps
<1> QED
  BY <1>2, <1>3 DEF UpdateSettings

(* A command that saves at once a configuration that fits.                 *)
LEMMA SavedKeeps ==
    ASSUME SettingsInv, Free, NEW c, NEW for, NEW id, Save(c, for, id, FALSE),
           FitIn(c, worked), SameLoop(c, cfg), UNCHANGED <<loopVars, guideVars>>
    PROVE  SettingsInv'
<1>1. UNCHANGED <<inUse, shownError, ranBefore, listed, guided, worked>>
  BY DEF loopVars, guideVars
<1>2. FitIn(c, worked') /\ worked \subseteq worked'
  BY <1>1
<1> QED
  BY <1>1, <1>2, SaveKeeps

LEMMA SetAdvisorSettingsKeeps ==
    ASSUME SettingsInv, NEW u \in AdvisorUpdates, SetAdvisorSettings(u) PROVE SettingsInv'
<1>1. PICK c : c = AdvisorApplied(cfg, u)
  OBVIOUS
<1>2. FitIn(c, worked) /\ SameLoop(c, cfg)
  BY <1>1, AdvisorFits DEF SettingsInv
<1>3. Free /\ Save(c, "advisor", "", FALSE) /\ UNCHANGED <<loopVars, guideVars>>
  BY <1>1 DEF SetAdvisorSettings, Command
<1> QED
  BY <1>2, <1>3, SavedKeeps

LEMMA UpdateUpdaterSettingsKeeps ==
    ASSUME SettingsInv, NEW u \in UpdaterUpdates, UpdateUpdaterSettings(u) PROVE SettingsInv'
<1>1. PICK c : c = UpdaterApplied(cfg, u)
  OBVIOUS
<1>2. FitIn(c, worked) /\ SameLoop(c, cfg)
  BY <1>1, UpdaterFits DEF SettingsInv
<1>3. Free /\ Save(c, "updater", "", FALSE) /\ UNCHANGED <<loopVars, guideVars>>
  BY <1>1 DEF UpdateUpdaterSettings, Command
<1> QED
  BY <1>2, <1>3, SavedKeeps

LEMMA SetAppNoteKeeps ==
    ASSUME SettingsInv, NEW a \in NotedApps, NEW n \in Notes, SetAppNote(a, n) PROVE SettingsInv'
<1>1. PICK c : c = Noted(cfg, a, n)
  OBVIOUS
<1>2. FitIn(c, worked) /\ SameLoop(c, cfg)
  BY <1>1, NotedFits DEF SettingsInv
<1>3. Free /\ UNCHANGED <<loopVars, guideVars>>
  BY DEF SetAppNote, Command
<1>4. Answer("rejected") \/ Answer("unchanged") \/ Save(c, "note", a, FALSE)
  BY <1>1 DEF SetAppNote
<1>5. CASE Answer("rejected") \/ Answer("unchanged")
  <2>1. UNCHANGED <<cfg, draft, files, saving, saveFor, running, portable>> /\ said' \in {"rejected", "unchanged"}
    BY <1>5 DEF Answer, diskVarsOf
  <2>2. UNCHANGED <<inUse, shownError, ranBefore, listed, guided, worked>>
    BY <1>3 DEF loopVars, guideVars
  <2>3. SaidOK' /\ ShownOK' /\ GuidedOK
    BY <2>1, <2>2, HeldTypes DEF SaidOK, ShownOK, GuidedOK
  <2> QED
    BY <2>1, <2>2, <2>3, AnswerKeeps
<1>6. CASE Save(c, "note", a, FALSE)
  BY <1>2, <1>3, <1>6, SavedKeeps
<1> QED
  BY <1>4, <1>5, <1>6

LEMMA SetAppIgnoreKeeps ==
    ASSUME SettingsInv, NEW a \in NotedApps, NEW on \in BOOLEAN, NEW n \in Notes, SetAppIgnore(a, on, n)
    PROVE  SettingsInv'
<1>1. PICK toggled : toggled = Ignored(cfg, a, on)
  OBVIOUS
<1>2. FitIn(toggled, worked) /\ SameLoop(toggled, cfg)
  BY <1>1, IgnoredFits DEF SettingsInv
<1>3. PICK c : c = IF n.size = 0 THEN toggled ELSE Noted(toggled, a, n)
  OBVIOUS
<1>4. FitIn(c, worked) /\ SameLoop(c, cfg)
  <2>1. FitIn(Noted(toggled, a, n), worked) /\ SameLoop(Noted(toggled, a, n), toggled)
    BY <1>2, NotedFits
  <2>2. SameLoop(Noted(toggled, a, n), cfg)
    BY <1>2, <2>1 DEF SameLoop
  <2> QED
    BY <1>2, <1>3, <2>1, <2>2
<1>5. Free /\ UNCHANGED <<inUse, shownError, nextRun, ranBefore, guideVars>>
  BY DEF SetAppIgnore, Command
<1>6. \/ (Answer("rejected") \/ Answer("saved")) /\ listed' \in {listed, listed \ {a}}
      \/ Save(c, IF on THEN "ignore" ELSE "unignore", a, FALSE) /\ UNCHANGED listed
  BY <1>1, <1>3 DEF SetAppIgnore
<1>7. CASE (Answer("rejected") \/ Answer("saved")) /\ listed' \in {listed, listed \ {a}}
  <2>1. UNCHANGED <<cfg, draft, files, saving, saveFor, running, portable>> /\ said' \in {"rejected", "saved"}
    BY <1>7 DEF Answer, diskVarsOf
  <2>2. UNCHANGED <<inUse, shownError, ranBefore, guided, worked>>
    BY <1>5 DEF guideVars
  <2>3. SaidOK' /\ ShownOK' /\ GuidedOK
    BY <1>7, <2>1, <2>2, HeldTypes DEF SaidOK, ShownOK, GuidedOK
  <2> QED
    BY <2>1, <2>2, <2>3, AnswerKeeps
<1>8. CASE Save(c, IF on THEN "ignore" ELSE "unignore", a, FALSE) /\ UNCHANGED listed
  <2>1. UNCHANGED <<loopVars, guideVars>>
    BY <1>5, <1>8 DEF loopVars
  <2> QED
    BY <1>4, <1>5, <1>8, <2>1, SavedKeeps
<1> QED
  BY <1>6, <1>7, <1>8

LEMMA StartGuidedKeeps ==
    ASSUME SettingsInv, NEW a \in NotedApps, StartGuided(a) PROVE SettingsInv'
<1>1. PICK n \in GuidanceFor(cfg, a) : guided' = {[id |-> a, note |-> n]}
  BY DEF StartGuided
<1>2. UNCHANGED <<cfg, draft, files, saving, saveFor, said, running, portable, inUse, shownError, ranBefore, listed, worked>>
  BY DEF StartGuided, diskVarsOf, loopVars
<1>3. GuidedOK
  BY <1>1 DEF GuidedOK
<1>4. SaidOK' /\ ShownOK'
  BY <1>2, HeldTypes DEF SaidOK, ShownOK
<1> QED
  BY <1>2, <1>3, <1>4, AnswerKeeps

(* What worked is filed under the app it worked for, with every URL of it. *)
LEMMA FoldGuidedKeeps == SettingsInv /\ FoldGuided => SettingsInv'
<1> SUFFICES ASSUME SettingsInv, FoldGuided PROVE SettingsInv'
  OBVIOUS
<1>1. PICK g \in guided, r \in Rewrites :
         \E n : /\ n = Concise(g.note, r) /\ guided' = {}
                /\ \/ UNCHANGED <<worked, cfg, draft, diskVarsOf, saveFor, said, running, portable, starts>>
                   \/ /\ worked' = worked \cup {<<g.id, g.note.urls>>}
                      /\ IF LearnRefused(cfg, g.id, n)
                         THEN UNCHANGED <<cfg, draft, diskVarsOf, saveFor, said, running, portable, starts>>
                         ELSE Save(Learned(cfg, g.id, n), "learned", g.id, FALSE)
  BY DEF FoldGuided
<1>2. PICK n : /\ n = Concise(g.note, r) /\ guided' = {}
               /\ \/ UNCHANGED <<worked, cfg, draft, diskVarsOf, saveFor, said, running, portable, starts>>
                  \/ /\ worked' = worked \cup {<<g.id, g.note.urls>>}
                     /\ IF LearnRefused(cfg, g.id, n)
                        THEN UNCHANGED <<cfg, draft, diskVarsOf, saveFor, said, running, portable, starts>>
                        ELSE Save(Learned(cfg, g.id, n), "learned", g.id, FALSE)
  BY <1>1
<1>3. Free /\ UNCHANGED <<inUse, shownError, ranBefore, listed>> /\ GuidedOK
  BY <1>2 DEF FoldGuided, loopVars, GuidedOK
<1>4. CASE UNCHANGED <<cfg, draft, diskVarsOf, saveFor, said, running, portable, starts>> /\ worked \subseteq worked'
  <2>1. UNCHANGED <<cfg, draft, files, saving, saveFor, said, running, portable>>
    BY <1>4 DEF diskVarsOf
  <2>2. SaidOK' /\ ShownOK'
    BY <1>3, <2>1, HeldTypes DEF SaidOK, ShownOK
  <2> QED
    BY <1>3, <1>4, <2>1, <2>2, AnswerKeeps
<1>5. CASE worked' = worked \cup {<<g.id, g.note.urls>>} /\ Save(Learned(cfg, g.id, n), "learned", g.id, FALSE)
  <2>1. g.id \in NotedApps /\ KeepsUrls(g.note.urls, n)
    BY <1>2 DEF SettingsInv, Concise, KeepsUrls
  <2>2. PICK c : c = Learned(cfg, g.id, n)
    OBVIOUS
  <2>3. FitIn(c, worked \cup {<<g.id, g.note.urls>>}) /\ SameLoop(c, cfg)
    BY <2>1, <2>2, LearnedFits DEF SettingsInv
  <2>4. FitIn(c, worked') /\ worked \subseteq worked'
    BY <1>5, <2>3
  <2>5. Save(c, "learned", g.id, FALSE) /\ guided' = {}
    BY <1>2, <1>5, <2>2
  <2> QED
    BY <1>3, <2>3, <2>4, <2>5, SaveKeeps
<1> QED
  BY <1>2, <1>4, <1>5

LEMMA SettingsStep == SettingsInv /\ [SettingsNext]_settingsVars => SettingsInv'
<1> SUFFICES ASSUME SettingsInv, [SettingsNext]_settingsVars PROVE SettingsInv'
  OBVIOUS
<1>1. CASE UNCHANGED settingsVars
  <2>1. UNCHANGED <<cfg, draft, files, saving, saveFor, said, running, portable, inUse, shownError, ranBefore,
                    listed, guided, worked>>
    BY <1>1 DEF settingsVars, diskVarsOf, loopVars, guideVars
  <2>2. SaidOK' /\ ShownOK' /\ GuidedOK
    BY <2>1, HeldTypes DEF SaidOK, ShownOK, GuidedOK
  <2> QED
    BY <2>1, <2>2, AnswerKeeps
<1> QED
  BY <1>1, CrashKeeps, StartKeeps, BackupKeeps, WriteKeeps, RenameKeeps, SaveFailsKeeps,
     AdoptSettingsKeeps, AdoptOtherKeeps, UpdateSettingsKeeps, SetAdvisorSettingsKeeps,
     UpdateUpdaterSettingsKeeps, SetAppNoteKeeps, SetAppIgnoreKeeps, StartGuidedKeeps, FoldGuidedKeeps
  DEF SettingsNext

(* The inductive invariant of the settings holds throughout.               *)
THEOREM SettingsInvariance == SettingsSpec => []SettingsInv
  BY SettingsBegin, SettingsStep, PTL DEF SettingsSpec

(* Wherever a save is cut short, a start finds the configuration in force  *)
(* or the one being saved; guidance shared with other apps has worked and  *)
(* is unedited; the loop works with the settings in force; an escalation   *)
(* model is used with the provider it was chosen for, or with the one the  *)
(* name of an older build is read as.                                      *)
THEOREM SettingsAreSound == SettingsSpec => []SettingsSound
<1>1. SettingsInv => SettingsSound
  <2> SUFFICES ASSUME SettingsInv PROVE SettingsSound
    OBVIOUS
  <2>1. ProvenWorked /\ EscalationFits
    <3>1. FitIn(cfg, worked)
      BY DEF SettingsInv
    <3>2. Provider(cfg.api.provider) = cfg.api.provider
      BY <3>1 DEF FitIn, Provider
    <3> QED
      BY <3>1, <3>2 DEF FitIn, ProvenIn, ProvenWorked, ModelFits, EscalationFits
  <2>2. Recoverable
    BY DEF SettingsInv, OnDisk, Recoverable, Free
  <2> QED
    BY <2>1, <2>2 DEF SettingsInv, SettingsSound
<1> QED
  BY <1>1, SettingsInvariance, PTL

=============================================================================
