------------------------ MODULE AgentMessagesProofs ------------------------
(***************************************************************************)
(* Theorems about the messages of AgentRun.tla: each is in one place, what *)
(* was steered stands in the transcript in the order it was sent, and in   *)
(* one-at-a-time mode a response stands between two steered messages.      *)
(*                                                                         *)
(* A message is on its way from a queue over the hands of a caller and of  *)
(* the loop to the transcript.  Each of these places has a line of rows,   *)
(* and LineMoves says what a step does to the lines: it thins them out, it *)
(* carries the head of one to the end of another, or a message arrives.    *)
(***************************************************************************)
EXTENDS AgentRunProofs

USE CallerAssumption, BoundAssumption, ModeAssumption
USE DEF outerVars, userVars, callerVars, slotVars, histVars, loopVars, toolVars,
        dataVars, runVars, vars

-----------------------------------------------------------------------------
(* Where a message may be *)

InQueue(q) == <<"queue", q>>
InHand(c) == <<"hand", c>>
InLoop == <<"loop", NoCaller>>
Recorded == <<"recorded", NoCaller>>

Places == {InQueue(q) : q \in Queues} \cup {InHand(c) : c \in Callers} \cup {InLoop, Recorded}

\* The rows at a place, in order; messages count as the rows they will be.
Line(p) ==
  IF p[1] = "queue" THEN UserRows(queue[p[2]])
  ELSE IF p[1] = "hand" THEN UserRows(hand[p[2]])
  ELSE IF p = InLoop THEN pending ELSE transcript

\* The user rows of s are among those of t, in the same order.
Within(s, t) ==
  \A i, j \in DOMAIN s :
    i <= j /\ s[i].kind = "user" /\ s[j].kind = "user" =>
      \E k, l \in DOMAIN t : t[k] = s[i] /\ t[l] = s[j] /\ (i < j => k < l)

\* The places are apart and each has its rows.
LEMMA PlaceLines ==
  /\ \A q \in Queues : InQueue(q) \in Places /\ Line(InQueue(q)) = UserRows(queue[q])
  /\ \A c \in Callers : InHand(c) \in Places /\ Line(InHand(c)) = UserRows(hand[c])
  /\ InLoop \in Places /\ Line(InLoop) = pending
  /\ Recorded \in Places /\ Line(Recorded) = transcript
  /\ InLoop # Recorded
  /\ \A q \in Queues : InQueue(q) \notin {InLoop, Recorded}
  /\ \A c \in Callers : InHand(c) \notin {InLoop, Recorded}
  /\ \A q \in Queues, c \in Callers : InQueue(q) # InHand(c)
  /\ \A q, r \in Queues : InQueue(q) = InQueue(r) => q = r
  /\ \A c, d \in Callers : InHand(c) = InHand(d) => c = d
BY DEF Places, Line, InQueue, InHand, InLoop, Recorded

\* Every line is a sequence of rows.
LEMMA LinesTyped ==
  ASSUME TypeOK, NEW p \in Places
  PROVE  Line(p) \in Seq(Rows)
<1>1. /\ \A q \in Queues : UserRows(queue[q]) \in Seq(Rows)
      /\ \A c \in Callers : UserRows(hand[c]) \in Seq(Rows)
      /\ pending \in Seq(Rows) /\ transcript \in Seq(Rows)
  BY UserRowsTyped DEF TypeOK
<1>2. \/ \E q \in Queues : p = InQueue(q)
      \/ \E c \in Callers : p = InHand(c)
      \/ p \in {InLoop, Recorded}
  BY DEF Places
<1> QED BY <1>1, <1>2, PlaceLines

\* Nothing at all is within anything, and everything within itself.
LEMMA WithinSame ==
  ASSUME NEW s \in Seq(Rows), NEW t \in Seq(Rows)
  PROVE  Within(s, s) /\ Within(<<>>, t)
BY DEF Within

\* A row that is no message adds nothing.
LEMMA WithinAppend ==
  ASSUME NEW s \in Seq(Rows), NEW row \in Rows, row.kind # "user"
  PROVE  Within(Append(s, row), s)
<1>1. /\ DOMAIN Append(s, row) = 1..(Len(s) + 1) /\ DOMAIN s = 1..Len(s) /\ Len(s) \in Nat
      /\ \A i \in 1..Len(s) : Append(s, row)[i] = s[i]
      /\ Append(s, row)[Len(s) + 1] = row
  OBVIOUS
<1>2. \A i \in DOMAIN Append(s, row) : Append(s, row)[i].kind = "user" => i \in DOMAIN s
  BY <1>1
<1> QED BY <1>1, <1>2 DEF Within

\* A queue with one message taken out of it keeps the order of the others.
LEMMA WithinRemove ==
  ASSUME NEW ms \in Seq(Msgs), NEW n \in DOMAIN ms
  PROVE  Within(UserRows(RemoveAt(ms, n)), UserRows(ms))
<1> DEFINE rest == RemoveAt(ms, n)
<1>1. /\ rest \in Seq(Msgs) /\ Len(rest) = Len(ms) - 1
      /\ \A j \in 1..(Len(ms) - 1) : rest[j] = ms[IF j < n THEN j ELSE j + 1]
  BY RemoveAtProperties
<1> HIDE DEF rest
<1>2. n \in 1..Len(ms) /\ Len(ms) \in Nat
  OBVIOUS
<1>3. /\ DOMAIN UserRows(rest) = 1..(Len(ms) - 1) /\ DOMAIN UserRows(ms) = 1..Len(ms)
      /\ \A j \in 1..(Len(ms) - 1) : UserRows(rest)[j] = User(rest[j])
      /\ \A j \in 1..Len(ms) : UserRows(ms)[j] = User(ms[j])
  BY <1>1, UserRowsTyped
<1> DEFINE old(j) == IF j < n THEN j ELSE j + 1
<1>4. \A j \in 1..(Len(ms) - 1) :
        old(j) \in 1..Len(ms) /\ UserRows(ms)[old(j)] = UserRows(rest)[j]
  <2> TAKE j \in 1..(Len(ms) - 1)
  <2>1. old(j) \in 1..Len(ms)
    BY <1>2
  <2>2. rest[j] = ms[old(j)]
    BY <1>1
  <2> QED BY <1>3, <2>1, <2>2
<1>5. \A i, j \in 1..(Len(ms) - 1) : i < j => old(i) < old(j)
  BY <1>2
<1> HIDE DEF old
<1>6. Within(UserRows(rest), UserRows(ms))
  BY <1>3, <1>4, <1>5 DEF Within
<1> QED BY <1>6 DEF rest

\* The places in two joined lines are those of the first and those of the second.
LEMMA Joined ==
  ASSUME NEW s \in Seq(Rows), NEW t \in Seq(Rows)
  PROVE  /\ \A i \in DOMAIN s : i \in DOMAIN (s \o t) /\ (s \o t)[i] = s[i]
         /\ \A j \in DOMAIN t :
              Len(s) + j \in DOMAIN (s \o t) /\ (s \o t)[Len(s) + j] = t[j]
         /\ \A k \in DOMAIN (s \o t) :
              k \in DOMAIN s \/ (k - Len(s) \in DOMAIN t /\ k = Len(s) + (k - Len(s)))
<1>1. /\ s \o t \in Seq(Rows) /\ Len(s \o t) = Len(s) + Len(t)
      /\ \A i \in 1..(Len(s) + Len(t)) :
           (s \o t)[i] = IF i <= Len(s) THEN s[i] ELSE t[i - Len(s)]
  BY ConcatProperties
<1>2. /\ DOMAIN s = 1..Len(s) /\ DOMAIN t = 1..Len(t) /\ Len(s) \in Nat /\ Len(t) \in Nat
      /\ DOMAIN (s \o t) = 1..(Len(s) + Len(t))
  BY <1>1
<1>3. ASSUME NEW j \in 1..Len(t)
      PROVE  Len(s) + j \in 1..(Len(s) + Len(t)) /\ (s \o t)[Len(s) + j] = t[j]
  <2>1. Len(s) + j > Len(s) /\ (Len(s) + j) - Len(s) = j /\ Len(s) + j \in 1..(Len(s) + Len(t))
    BY <1>2
  <2> QED BY <1>1, <1>2, <2>1
<1> QED BY <1>1, <1>2, <1>3

\* What is left of a line is within it.
LEMMA WithinJoined ==
  ASSUME NEW s \in Seq(Rows), NEW t \in Seq(Rows)
  PROVE  Within(t, s \o t)
<1> DEFINE w == s \o t
<1>1. Len(s) \in Nat /\ \A j \in DOMAIN t : j \in Nat /\ Len(s) + j \in DOMAIN w /\ w[Len(s) + j] = t[j]
  BY Joined
<1> HIDE DEF w
<1>2. \A i, j \in DOMAIN t : i < j => Len(s) + i < Len(s) + j
  BY <1>1
<1>3. Within(t, w)
  BY <1>1, <1>2 DEF Within
<1> QED BY <1>3 DEF w

\* The prompts of a batch and of the rest of its queue are those of the queue.
LEMMA UserRowsJoined ==
  ASSUME NEW ms \in Seq(Msgs), NEW ns \in Seq(Msgs)
  PROVE  UserRows(ms \o ns) = UserRows(ms) \o UserRows(ns)
<1> DEFINE a == UserRows(ms)
           b == UserRows(ns)
           w == ms \o ns
           c == UserRows(w)
<1>1. /\ w \in Seq(Msgs) /\ Len(w) = Len(ms) + Len(ns)
      /\ \A i \in 1..(Len(ms) + Len(ns)) :
           w[i] = IF i <= Len(ms) THEN ms[i] ELSE ns[i - Len(ms)]
  BY ConcatProperties
<1> HIDE DEF w
<1>2. /\ a \in Seq(Rows) /\ Len(a) = Len(ms) /\ \A i \in 1..Len(ms) : a[i] = User(ms[i])
      /\ b \in Seq(Rows) /\ Len(b) = Len(ns) /\ \A i \in 1..Len(ns) : b[i] = User(ns[i])
      /\ c \in Seq(Rows) /\ Len(c) = Len(ms) + Len(ns)
      /\ \A i \in 1..(Len(ms) + Len(ns)) : c[i] = User(w[i])
  BY <1>1, UserRowsTyped
<1> HIDE DEF a, b, c
<1>3. /\ a \o b \in Seq(Rows) /\ Len(a \o b) = Len(a) + Len(b)
      /\ \A i \in 1..(Len(a) + Len(b)) :
           (a \o b)[i] = IF i <= Len(a) THEN a[i] ELSE b[i - Len(a)]
  <2>1. a \in Seq(Rows) /\ b \in Seq(Rows)
    BY <1>2
  <2> QED BY ONLY <2>1, ConcatProperties
<1>4. ASSUME NEW i \in 1..(Len(ms) + Len(ns))
      PROVE  c[i] = (a \o b)[i]
  <2>1. Len(ms) \in Nat /\ Len(ns) \in Nat
    OBVIOUS
  <2>2. CASE i <= Len(ms)
    BY <1>1, <1>2, <1>3, <2>1, <2>2
  <2>3. CASE ~(i <= Len(ms))
    <3>1. i - Len(ms) \in 1..Len(ns)
      BY <2>1, <2>3
    <3> QED BY <1>1, <1>2, <1>3, <2>1, <2>3, <3>1
  <2> QED BY <2>2, <2>3
<1>5. c = a \o b
  BY <1>2, <1>3, <1>4
<1> QED BY <1>5 DEF a, b, c, w

-----------------------------------------------------------------------------
(* How the lines change *)

\* Lines lose messages or gain rows of other kinds.
Thins ==
  /\ sent' = sent
  /\ \A p \in Places : Within(Line(p)', Line(p))

\* The head of one line goes to the end of another.
Carries(from, to) ==
  /\ sent' = sent
  /\ from # to
  /\ Within(Line(from)', Line(from))
  /\ Line(to)' \o Line(from)' = Line(to) \o Line(from)
  /\ \A p \in Places \ {from, to} : Line(p)' = Line(p)

\* A message nobody has sent yet comes through x and goes to the end of a line.
Arrives(x, m, at) ==
  /\ Send(x, m)
  /\ Line(at)' = Append(Line(at), User(m))
  /\ \A p \in Places \ {at} : Line(p)' = Line(p)

\* The lines after a step.
LEMMA NextLines ==
  /\ \A q \in Queues : Line(InQueue(q))' = UserRows(queue'[q])
  /\ \A c \in Callers : Line(InHand(c))' = UserRows(hand'[c])
  /\ Line(InLoop)' = pending'
  /\ Line(Recorded)' = transcript'
BY DEF Line, InQueue, InHand, InLoop, Recorded

\* A place is one of the four.
LEMMA PlaceKinds ==
  ASSUME NEW p \in Places
  PROVE  \/ \E q \in Queues : p = InQueue(q)
         \/ \E c \in Callers : p = InHand(c)
         \/ p = InLoop
         \/ p = Recorded
BY DEF Places

\* The lines after a step are sequences of rows too.
LEMMA NextLinesTyped ==
  ASSUME TypeOK', NEW p \in Places
  PROVE  Line(p)' \in Seq(Rows)
<1>1. /\ \A q \in Queues : UserRows(queue'[q]) \in Seq(Rows)
      /\ \A c \in Callers : UserRows(hand'[c]) \in Seq(Rows)
      /\ pending' \in Seq(Rows) /\ transcript' \in Seq(Rows)
  BY UserRowsTyped DEF TypeOK
<1> QED BY <1>1, NextLines, PlaceKinds

\* Lines thin out when each of the four does.
LEMMA ThinsBy ==
  ASSUME sent' = sent,
         \A q \in Queues : Within(UserRows(queue'[q]), UserRows(queue[q])),
         \A c \in Callers : Within(UserRows(hand'[c]), UserRows(hand[c])),
         Within(pending', pending), Within(transcript', transcript)
  PROVE  Thins
<1> SUFFICES ASSUME NEW p \in Places
             PROVE  Within(Line(p)', Line(p))
  BY DEF Thins
<1>1. CASE \E q \in Queues : p = InQueue(q)
  BY <1>1, PlaceLines, NextLines
<1>2. CASE \E c \in Callers : p = InHand(c)
  BY <1>2, PlaceLines, NextLines
<1>3. CASE p = InLoop \/ p = Recorded
  BY <1>3, PlaceLines, NextLines
<1> QED BY <1>1, <1>2, <1>3, PlaceKinds

\* A line that stays as it is thins out.
LEMMA SameLines ==
  ASSUME TypeOK
  PROVE  /\ \A q \in Queues : Within(UserRows(queue[q]), UserRows(queue[q]))
         /\ \A c \in Callers : Within(UserRows(hand[c]), UserRows(hand[c]))
         /\ Within(pending, pending) /\ Within(transcript, transcript)
         /\ \A q \in Queues : Within(<<>>, UserRows(queue[q]))
         /\ \A c \in Callers : Within(<<>>, UserRows(hand[c]))
         /\ Within(<<>>, pending) /\ Within(<<>>, transcript)
         /\ UserRows(<<>>) = <<>>
<1>1. /\ \A q \in Queues : UserRows(queue[q]) \in Seq(Rows)
      /\ \A c \in Callers : UserRows(hand[c]) \in Seq(Rows)
      /\ pending \in Seq(Rows) /\ transcript \in Seq(Rows)
  BY UserRowsTyped DEF TypeOK
<1>2. UserRows(<<>>) = <<>>
  BY DEF UserRows
<1> QED BY <1>1, <1>2, WithinSame

\* A drain carries its batch to where nothing is (PendingMessageQueue::drain).
LEMMA DrainCarries ==
  ASSUME TypeOK, NEW q \in Queues, queue' = [queue EXCEPT ![q] = Take(q).left], sent' = sent
  PROVE  /\ /\ pending = <<>> /\ pending' = UserRows(Take(q).got)
            /\ UNCHANGED <<hand, transcript>>
            => Carries(InQueue(q), InLoop)
         /\ \A c \in Callers :
              /\ hand[c] = <<>> /\ hand' = [hand EXCEPT ![c] = Take(q).got]
              /\ UNCHANGED <<pending, transcript>>
              => Carries(InQueue(q), InHand(c))
<1>0. /\ Take(q).got \in Seq(Msgs) /\ Take(q).left \in Seq(Msgs)
      /\ queue[q] = Take(q).got \o Take(q).left /\ queue[q] \in Seq(Msgs)
      /\ queue'[q] = Take(q).left /\ \A r \in Queues \ {q} : queue'[r] = queue[r]
  BY TakeSplits DEF TypeOK
<1>1. UserRows(queue[q]) = UserRows(Take(q).got) \o UserRows(queue'[q])
  BY <1>0, UserRowsJoined
<1>2. /\ UserRows(queue[q]) \in Seq(Rows) /\ <<>> \o UserRows(queue[q]) = UserRows(queue[q])
      /\ Within(UserRows(queue'[q]), UserRows(queue[q]))
  BY <1>0, <1>1, UserRowsTyped, ConcatEmptySeq, WithinJoined
<1>3. ASSUME pending = <<>>, pending' = UserRows(Take(q).got), UNCHANGED <<hand, transcript>>
      PROVE  Carries(InQueue(q), InLoop)
  <2>1. pending' \o UserRows(queue'[q]) = pending \o UserRows(queue[q])
    BY <1>1, <1>2, <1>3
  <2>2. ASSUME NEW p \in Places \ {InQueue(q), InLoop}
        PROVE  Line(p)' = Line(p)
    <3>1. CASE \E r \in Queues : p = InQueue(r)
      BY <1>0, <2>2, <3>1, PlaceLines, NextLines
    <3>2. CASE \E c \in Callers : p = InHand(c)
      BY <1>3, <3>2, PlaceLines, NextLines
    <3>3. CASE p = Recorded
      BY <1>3, <3>3, PlaceLines, NextLines
    <3> QED BY <2>2, <3>1, <3>2, <3>3, PlaceKinds
  <2> QED BY <1>2, <2>1, <2>2, PlaceLines, NextLines DEF Carries
<1>4. ASSUME NEW c \in Callers, hand[c] = <<>>, hand' = [hand EXCEPT ![c] = Take(q).got],
             UNCHANGED <<pending, transcript>>
      PROVE  Carries(InQueue(q), InHand(c))
  <2>0. hand'[c] = Take(q).got /\ \A d \in Callers \ {c} : hand'[d] = hand[d]
    BY <1>4 DEF TypeOK
  <2>1. UserRows(hand'[c]) \o UserRows(queue'[q]) = UserRows(hand[c]) \o UserRows(queue[q])
    BY <1>1, <1>2, <1>4, <2>0, SameLines
  <2>2. ASSUME NEW p \in Places \ {InQueue(q), InHand(c)}
        PROVE  Line(p)' = Line(p)
    <3>1. CASE \E r \in Queues : p = InQueue(r)
      BY <1>0, <2>2, <3>1, PlaceLines, NextLines
    <3>2. CASE \E d \in Callers : p = InHand(d)
      BY <2>0, <2>2, <3>2, PlaceLines, NextLines
    <3>3. CASE p = Recorded \/ p = InLoop
      BY <1>4, <3>3, PlaceLines, NextLines
    <3> QED BY <2>2, <3>1, <3>2, <3>3, PlaceKinds
  <2> QED BY <1>2, <2>1, <2>2, PlaceLines, NextLines DEF Carries
<1> QED BY <1>3, <1>4

\* One more message is one more prompt.
LEMMA UserRowsAppend ==
  ASSUME NEW ms \in Seq(Msgs), NEW m \in Msgs
  PROVE  UserRows(Append(ms, m)) = Append(UserRows(ms), User(m))
<1> DEFINE one == Append(ms, m)
           a == UserRows(ms)
           b == UserRows(one)
           row == User(m)
<1>1. /\ one \in Seq(Msgs) /\ Len(one) = Len(ms) + 1 /\ Len(ms) \in Nat
      /\ one[Len(ms) + 1] = m /\ \A i \in 1..Len(ms) : one[i] = ms[i]
  OBVIOUS
<1> HIDE DEF one
<1>2. /\ a \in Seq(Rows) /\ Len(a) = Len(ms) /\ \A i \in 1..Len(ms) : a[i] = User(ms[i])
      /\ b \in Seq(Rows) /\ Len(b) = Len(ms) + 1
      /\ \A i \in 1..(Len(ms) + 1) : b[i] = User(one[i])
      /\ row \in Rows
  BY <1>1, UserRowsTyped, UserRow
<1>3. b[Len(ms) + 1] = row /\ \A i \in 1..Len(ms) : b[i] = a[i]
  BY <1>1, <1>2
<1> HIDE DEF a, b, row
<1>4. /\ Append(a, row) \in Seq(Rows) /\ Len(Append(a, row)) = Len(ms) + 1
      /\ Append(a, row)[Len(ms) + 1] = row /\ \A i \in 1..Len(ms) : Append(a, row)[i] = a[i]
  BY <1>2
<1>5. b = Append(a, row)
  BY <1>1, <1>2, <1>3, <1>4
<1> QED BY <1>5 DEF a, b, row, one

\* The loop delivers what it holds, takes a batch of a queue into its empty hands,
\* or moves no message (run_loop).
LEMMA LoopLines ==
  ASSUME CoreInv, LoopMove \/ Boundary
  PROVE  \/ Thins
         \/ owner # NoCaller /\ \E q \in Queues : Carries(InQueue(q), InLoop)
         \/ Carries(InLoop, Recorded)
<1> USE DEF CoreInv
<1>0. /\ transcript \in Seq(Rows) /\ pending \in Seq(Rows)
      /\ Within(<<>>, pending) /\ Within(<<>>, transcript)
      /\ \A row \in Rows : row.kind # "user" => Within(Append(transcript, row), transcript)
  BY SameLines, WithinAppend DEF TypeOK
<1>1. ASSUME UNCHANGED <<sent, queue, hand>>,
             pending' = pending \/ pending' = <<>>,
             \/ transcript' = transcript
             \/ \E row \in Rows : row.kind # "user" /\ transcript' = Append(transcript, row)
      PROVE  Thins
  BY <1>0, <1>1, SameLines, ThinsBy
<1>2. CASE ToolMove
  BY <1>1, <1>2, ToolMoves
<1>3. CASE ControlMove
  BY <1>1, <1>3, ControlMoves DEF ControlEffect
<1>4. CASE Response
  <2>1. ResponseEffect
    BY <1>4, Responses
  <2>2. \E row \in Rows : row.kind # "user" /\ transcript' = Append(transcript, row)
    BY <2>1, FailureRow, AssistantRow DEF ResponseEffect
  <2> QED BY <1>1, <2>1, <2>2 DEF ResponseEffect
<1>5. CASE PollMove
  <2>1. PollEffect
    BY <1>5, Polls
  <2>2. CASE UNCHANGED queue /\ pending' = <<>>
    BY <1>1, <2>1, <2>2 DEF PollEffect
  <2>3. CASE UNCHANGED queue /\ pending' = <<Continuation>>
    <3>1. pending' = Append(pending, Continuation) /\ pending = <<>>
      BY <2>1, <2>3 DEF PollEffect
    <3>2. Within(pending', pending)
      BY <1>0, <3>1, NoteRow, WithinAppend
    <3> QED BY <1>0, <2>1, <2>3, <3>2, SameLines, ThinsBy DEF PollEffect
  <2>4. ASSUME NEW q \in Queues, queue' = [queue EXCEPT ![q] = Take(q).left],
               pending' = UserRows(Take(q).got)
        PROVE  Carries(InQueue(q), InLoop)
    BY <2>1, <2>4, DrainCarries DEF PollEffect
  <2>5. owner # NoCaller
    BY <2>1 DEF PollEffect, SlotInv
  <2> QED BY <2>1, <2>2, <2>3, <2>4, <2>5 DEF PollEffect
<1>6. CASE EmitPrompt \/ Deliver
  <2>1. DeliverEffect
    BY <1>6, Deliveries
  <2>2. /\ Head(pending) \in Rows /\ Tail(pending) \in Seq(Rows)
        /\ pending = <<Head(pending)>> \o Tail(pending)
        /\ Within(Tail(pending), pending)
    <3>1. /\ Head(pending) \in Rows /\ Tail(pending) \in Seq(Rows)
          /\ pending = <<Head(pending)>> \o Tail(pending)
      BY <1>0, <2>1 DEF DeliverEffect
    <3>2. <<Head(pending)>> \in Seq(Rows)
      BY <3>1
    <3>3. Within(Tail(pending), <<Head(pending)>> \o Tail(pending))
      BY <3>1, <3>2, WithinJoined
    <3> QED BY <3>1, <3>3
  <2>3. transcript' \o pending' = transcript \o pending
    <3>1. transcript \o (<<Head(pending)>> \o Tail(pending))
            = Append(transcript, Head(pending)) \o Tail(pending)
      BY <1>0, <2>2, MovesAcross
    <3> QED BY <2>1, <2>2, <3>1 DEF DeliverEffect
  <2>4. ASSUME NEW p \in Places \ {InLoop, Recorded}
        PROVE  Line(p)' = Line(p)
    BY <2>1, <2>4, PlaceKinds, PlaceLines, NextLines DEF DeliverEffect
  <2> QED BY <2>1, <2>2, <2>3, <2>4, PlaceLines, NextLines DEF DeliverEffect, Carries
<1>7. ASSUME NEW k \in Call, Answer(k)
      PROVE  Thins
  BY <1>1, <1>7, ResultRow DEF Answer
<1>8. CASE ToolsDone
  BY <1>1, <1>8 DEF ToolsDone
<1>9. CASE Boundary
  BY <1>1, <1>9, FailureRow DEF Boundary, Begin, AgentEnd, RunFails, Finish
<1> QED BY <1>2, <1>3, <1>4, <1>5, <1>6, <1>7, <1>8, <1>9 DEF LoopMove, RecordMove

\* The user's messages arrive in the queues, and only from there does the user take
\* any away, but for a reset (Agent::steer, clear_*, remove_*, reset).
LEMMA UserLines ==
  ASSUME CoreInv, UserStep
  PROVE  Thins \/ \E q \in Queues, m \in Msgs : Arrives(q, m, InQueue(q))
<1> USE DEF CoreInv
<1>0. /\ transcript \in Seq(Rows) /\ queue \in [Queues -> Seq(Msgs)]
      /\ Within(Append(transcript, Note), transcript)
  BY NoteRow, WithinAppend DEF TypeOK
<1>1. ASSUME NEW q \in Queues, NEW m \in Msgs, Enqueue(q, m)
      PROVE  Arrives(q, m, InQueue(q))
  <2>1. /\ UserRows(queue'[q]) = Append(UserRows(queue[q]), User(m))
        /\ \A r \in Queues \ {q} : queue'[r] = queue[r]
        /\ UNCHANGED <<hand, pending, transcript>>
    BY <1>0, <1>1, UserRowsAppend DEF Enqueue
  <2>2. ASSUME NEW p \in Places \ {InQueue(q)}
        PROVE  Line(p)' = Line(p)
    BY <2>1, <2>2, PlaceKinds, PlaceLines, NextLines
  <2> QED BY <1>1, <2>1, <2>2, PlaceLines, NextLines DEF Enqueue, Arrives
<1>2. ASSUME NEW q \in Queues, ClearQueue(q)
      PROVE  Thins
  <2>1. /\ \A r \in Queues : queue'[r] = queue[r] \/ queue'[r] = <<>>
        /\ UNCHANGED <<sent, hand, pending, transcript>>
    BY <1>0, <1>2 DEF ClearQueue
  <2> QED BY <2>1, SameLines, ThinsBy
<1>3. ASSUME NEW q \in Queues, NEW i \in DOMAIN queue[q], RemoveQueued(q, i)
      PROVE  Thins
  <2>1. /\ queue'[q] = RemoveAt(queue[q], i) /\ \A r \in Queues \ {q} : queue'[r] = queue[r]
        /\ UNCHANGED <<sent, hand, pending, transcript>>
    BY <1>0, <1>3 DEF RemoveQueued
  <2>2. Within(UserRows(queue'[q]), UserRows(queue[q]))
    BY <1>0, <2>1, WithinRemove
  <2> QED BY <2>1, <2>2, SameLines, ThinsBy
<1>4. CASE Abort \/ \E q \in Queues : \E v \in Modes(q) : SetMode(q, v)
  BY <1>4, SameLines, ThinsBy DEF Abort, SetMode
<1>5. CASE AppendMessages
  BY <1>0, <1>5, SameLines, ThinsBy DEF AppendMessages
<1>6. CASE Reset
  <2>1. /\ \A r \in Queues : queue'[r] = <<>>
        /\ transcript' = <<>> /\ UNCHANGED <<sent, hand, pending>>
    BY <1>6 DEF Reset
  <2> QED BY <2>1, SameLines, ThinsBy
<1> QED BY <1>1, <1>2, <1>3, <1>4, <1>5, <1>6 DEF UserStep

\* A caller brings a prompt, takes a batch into its empty hands, hands it to the run
\* it registers, or loses it with the slot (Agent::prompt, continue_run,
\* run_with_lifecycle).
LEMMA CallerLines ==
  ASSUME CoreInv, NEW c \in Callers, BeforeRun(c) \/ Register(c)
  PROVE  \/ Thins
         \/ \E m \in Msgs : Arrives("prompt", m, InHand(c))
         \/ phase[c] = "continuing" /\ \E q \in Queues : Carries(InQueue(q), InHand(c))
         \/ Carries(InHand(c), InLoop)
<1> USE DEF CoreInv
<1>0. /\ hand \in [Callers -> Seq(Msgs)] /\ queue \in [Queues -> Seq(Msgs)]
      /\ phase[c] # "admitted" => hand[c] = <<>>
      /\ UserRows(<<>>) = <<>>
  BY SameLines DEF TypeOK, SlotInv
<1>1. CASE Continue(c) \/ ContinueBare(c)
  BY <1>1, SameLines, ThinsBy DEF Continue, ContinueBare
<1>2. CASE Refused(c)
  <2>1. /\ \A d \in Callers : hand'[d] = hand[d] \/ hand'[d] = <<>>
        /\ UNCHANGED <<sent, queue, pending, transcript>>
    BY <1>0, <1>2 DEF Refused
  <2> QED BY <2>1, SameLines, ThinsBy
<1>3. CASE TakeQueued(c)
  <2>1. PICK q \in Queues : /\ queue' = [queue EXCEPT ![q] = Take(q).left]
                            /\ hand' = [hand EXCEPT ![c] = Take(q).got]
    BY <1>3 DEF TakeQueued, Drain, QueuedFrom, Queues
  <2>2. UNCHANGED <<sent, pending, transcript>> /\ phase[c] = "continuing" /\ hand[c] = <<>>
    BY <1>0, <1>3 DEF TakeQueued, Drain
  <2> QED BY <2>1, <2>2, DrainCarries
<1>4. ASSUME NEW m \in Msgs, Prompt(c, m)
      PROVE  Arrives("prompt", m, InHand(c))
  <2>1. /\ hand[c] = <<>> /\ hand'[c] = <<m>> /\ \A d \in Callers \ {c} : hand'[d] = hand[d]
        /\ UNCHANGED <<queue, pending, transcript>>
    BY <1>0, <1>4 DEF Prompt
  <2>2. UserRows(hand'[c]) = Append(UserRows(hand[c]), User(m))
    <3>1. hand'[c] = Append(hand[c], m)
      BY <2>1
    <3> QED BY <1>0, <3>1, UserRowsAppend
  <2>3. ASSUME NEW p \in Places \ {InHand(c)}
        PROVE  Line(p)' = Line(p)
    BY <2>1, <2>3, PlaceKinds, PlaceLines, NextLines
  <2> QED BY <1>4, <2>2, <2>3, PlaceLines, NextLines DEF Prompt, Arrives
<1>5. CASE Register(c)
  <2>1. /\ pending = <<>> /\ pending' = UserRows(hand[c])
        /\ hand'[c] = <<>> /\ \A d \in Callers \ {c} : hand'[d] = hand[d]
        /\ UNCHANGED <<sent, queue, transcript>>
    BY <1>0, <1>5 DEF Register, SlotInv, PendingInv
  <2>2. pending' \o UserRows(hand'[c]) = pending \o UserRows(hand[c])
    <3>1. UserRows(hand[c]) \in Seq(Rows)
      BY <1>0, UserRowsTyped
    <3> QED BY <1>0, <2>1, <3>1, ConcatEmptySeq
  <2>3. ASSUME NEW p \in Places \ {InHand(c), InLoop}
        PROVE  Line(p)' = Line(p)
    BY <2>1, <2>3, PlaceKinds, PlaceLines, NextLines
  <2> QED BY <1>0, <2>1, <2>2, <2>3, SameLines, PlaceLines, NextLines DEF Carries
<1> QED BY <1>1, <1>2, <1>3, <1>4, <1>5 DEF BeforeRun

\* What a step does to the lines.
LEMMA LineMoves ==
  ASSUME CoreInv, [Next]_vars
  PROVE  \/ Thins
         \/ \E q \in Queues, m \in Msgs : Arrives(q, m, InQueue(q))
         \/ \E c \in Callers, m \in Msgs : Arrives("prompt", m, InHand(c))
         \/ \E c \in Callers, q \in Queues : phase[c] = "continuing" /\ Carries(InQueue(q), InHand(c))
         \/ owner # NoCaller /\ \E q \in Queues : Carries(InQueue(q), InLoop)
         \/ \E c \in Callers : Carries(InHand(c), InLoop)
         \/ Carries(InLoop, Recorded)
<1>1. CASE UNCHANGED vars
  BY <1>1, SameLines, ThinsBy DEF CoreInv
<1> QED BY <1>1, LoopLines, UserLines, CallerLines, SortedSteps

-----------------------------------------------------------------------------
(* NeverTwice *)

\* No message stands twice in a line.
Once(s) == \A i, j \in DOMAIN s : s[i].kind = "user" /\ s[i] = s[j] => i = j

\* No message stands in both lines.
Apart(s, t) == \A row \in ToSet(s) \cap ToSet(t) : row.kind # "user"

\* Every message is in one place, and there once.
PlacedOnce ==
  /\ \A p \in Places : Once(Line(p))
  /\ \A p, r \in Places : p # r => Apart(Line(p), Line(r))

\* A message is sent once.
SentOnce ==
  \A x, y \in Sources : \A a \in DOMAIN sent[x], b \in DOMAIN sent[y] :
    sent[x][a] = sent[y][b] => x = y /\ a = b

\* Every message was sent, and those in a queue through that queue.
SentFirst ==
  \A m \in Msgs :
    /\ \A p \in Places : User(m) \in ToSet(Line(p)) => \E x \in Sources : m \in ToSet(sent[x])
    /\ \A q \in Queues : User(m) \in ToSet(Line(InQueue(q))) => m \in ToSet(sent[q])

MessageInv == PlacedOnce /\ SentOnce /\ SentFirst

\* A row of the kind of messages is one.
LEMMA MessageRow ==
  ASSUME NEW s \in Seq(Rows), NEW row \in ToSet(s), row.kind = "user"
  PROVE  \E m \in Msgs : row = User(m)
<1>1. row \in Rows
  BY DEF ToSet
<1> QED BY <1>1, RowKinds

\* The rows of two joined lines.
LEMMA JoinedRows ==
  ASSUME NEW s \in Seq(Rows), NEW t \in Seq(Rows)
  PROVE  ToSet(s \o t) = ToSet(s) \cup ToSet(t)
<1> DEFINE w == s \o t
<1>1. /\ \A i \in DOMAIN s : i \in DOMAIN w /\ w[i] = s[i]
      /\ \A j \in DOMAIN t : Len(s) + j \in DOMAIN w /\ w[Len(s) + j] = t[j]
      /\ \A k \in DOMAIN w :
           k \in DOMAIN s \/ (k - Len(s) \in DOMAIN t /\ k = Len(s) + (k - Len(s)))
  BY Joined
<1> HIDE DEF w
<1>2. \A k \in DOMAIN w : w[k] \in ToSet(s) \cup ToSet(t)
  BY <1>1 DEF ToSet
<1>3. ToSet(w) = ToSet(s) \cup ToSet(t)
  BY <1>1, <1>2 DEF ToSet
<1> QED BY <1>3 DEF w

\* Two joined lines have no message twice when neither has and they are apart.
LEMMA JoinedOnce ==
  ASSUME NEW s \in Seq(Rows), NEW t \in Seq(Rows)
  PROVE  Once(s \o t) <=> Once(s) /\ Once(t) /\ Apart(s, t)
<1> DEFINE w == s \o t
           n == Len(s)
<1>0. /\ n \in Nat /\ (\A i \in DOMAIN s : i \in Nat /\ i <= n) /\ DOMAIN w \subseteq Nat
      /\ \A j \in DOMAIN t : j \in Nat /\ j > 0
  <2>1. w \in Seq(Rows)
    BY ConcatProperties
  <2> QED BY <2>1
<1>1. /\ \A i \in DOMAIN s : i \in DOMAIN w /\ w[i] = s[i]
      /\ \A j \in DOMAIN t : n + j \in DOMAIN w /\ w[n + j] = t[j]
      /\ \A k \in DOMAIN w : k \in DOMAIN s \/ (k - n \in DOMAIN t /\ k = n + (k - n))
  BY Joined
<1> HIDE DEF w, n
<1>2. ASSUME Once(w)
      PROVE  Once(s) /\ Once(t) /\ Apart(s, t)
  <2>1. Once(s)
    BY <1>1, <1>2 DEF Once
  <2>2. Once(t)
    BY <1>0, <1>1, <1>2 DEF Once
  <2>3. ASSUME NEW i \in DOMAIN s, NEW j \in DOMAIN t, s[i] = t[j], s[i].kind = "user"
        PROVE  FALSE
    <3>1. i = n + j
      BY <1>1, <1>2, <2>3 DEF Once
    <3> QED BY <1>0, <3>1
  <2>4. Apart(s, t)
    BY <2>3 DEF Apart, ToSet
  <2> QED BY <2>1, <2>2, <2>4
<1>3. ASSUME Once(s), Once(t), Apart(s, t)
      PROVE  Once(w)
  <2> SUFFICES ASSUME NEW k \in DOMAIN w, NEW l \in DOMAIN w, w[k].kind = "user", w[k] = w[l]
               PROVE  k = l
    BY DEF Once
  <2>1. CASE k \in DOMAIN s /\ l \in DOMAIN s
    BY <1>1, <1>3, <2>1 DEF Once
  <2>2. ASSUME NEW i \in DOMAIN w, NEW j \in DOMAIN w, i \in DOMAIN s, j \notin DOMAIN s
        PROVE  ~(w[i].kind = "user" /\ w[i] = w[j])
    BY <1>1, <1>3, <2>2 DEF Apart, ToSet
  <2>3. CASE k \notin DOMAIN s /\ l \notin DOMAIN s
    <3>1. k - n = l - n
      BY <1>1, <1>3, <2>3 DEF Once
    <3> QED BY <1>0, <3>1
  <2> QED BY <2>1, <2>2, <2>3
<1> QED BY <1>2, <1>3 DEF w

\* What is within a line has its messages, each as often.
LEMMA WithinOnce ==
  ASSUME NEW s \in Seq(Rows), NEW t \in Seq(Rows), Within(s, t)
  PROVE  /\ \A row \in ToSet(s) : row.kind = "user" => row \in ToSet(t)
         /\ Once(t) => Once(s)
<1>0. \A i, j \in DOMAIN s : i < j \/ i = j \/ j < i
  OBVIOUS
<1>1. ASSUME NEW i \in DOMAIN s, s[i].kind = "user"
      PROVE  s[i] \in ToSet(t)
  <2>1. PICK k \in DOMAIN t : t[k] = s[i]
    BY <1>0, <1>1 DEF Within
  <2> QED BY <2>1 DEF ToSet
<1>2. ASSUME Once(t), NEW i \in DOMAIN s, NEW j \in DOMAIN s, i < j, s[i].kind = "user",
             s[i] = s[j]
      PROVE  FALSE
  <2>1. PICK k, l \in DOMAIN t : t[k] = s[i] /\ t[l] = s[j] /\ k < l
    BY <1>2 DEF Within
  <2> QED BY <1>2, <2>1 DEF Once
<1>3. Once(t) => Once(s)
  BY <1>0, <1>2 DEF Once
<1> QED BY <1>1, <1>3 DEF ToSet

\* A message that is not in a line may be appended to it.
LEMMA AppendOnce ==
  ASSUME NEW s \in Seq(Rows), NEW row \in Rows, Once(s), row \notin ToSet(s)
  PROVE  Once(Append(s, row))
<1> DEFINE t == Append(s, row)
<1>1. /\ DOMAIN t = 1..(Len(s) + 1) /\ DOMAIN s = 1..Len(s) /\ Len(s) \in Nat
      /\ \A i \in 1..Len(s) : t[i] = s[i] /\ t[i] # row
      /\ t[Len(s) + 1] = row
  BY DEF ToSet
<1> HIDE DEF t
<1>2. Once(t)
  BY <1>1 DEF Once
<1> QED BY <1>2 DEF t

\* Lines that thin out keep every message in one place.
LEMMA ThinsOnce ==
  ASSUME TypeOK, TypeOK', MessageInv, Thins
  PROVE  MessageInv'
<1>1. ASSUME NEW p \in Places
      PROVE  /\ \A row \in ToSet(Line(p)') : row.kind = "user" => row \in ToSet(Line(p))
             /\ Once(Line(p)')
  <2>1. Line(p) \in Seq(Rows) /\ Line(p)' \in Seq(Rows) /\ Within(Line(p)', Line(p))
    BY LinesTyped, NextLinesTyped DEF Thins
  <2>2. Once(Line(p))
    BY DEF MessageInv, PlacedOnce
  <2> QED BY <2>1, <2>2, WithinOnce
<1>2. ASSUME NEW p \in Places, NEW r \in Places, p # r
      PROVE  Apart(Line(p)', Line(r)')
  <2>1. Apart(Line(p), Line(r))
    BY <1>2 DEF MessageInv, PlacedOnce
  <2> QED BY <1>1, <2>1 DEF Apart
<1>3. PlacedOnce'
  BY <1>1, <1>2 DEF PlacedOnce
<1>4. \A m \in Msgs : User(m).kind = "user"
  BY UserRow
<1>5. SentFirst'
  BY <1>1, <1>4, PlaceLines DEF MessageInv, SentFirst, Thins
<1>6. SentOnce'
  BY DEF MessageInv, SentOnce, Thins
<1> QED BY <1>3, <1>5, <1>6 DEF MessageInv

\* So do those of which one hands its head to another, which is no queue.
LEMMA CarriesOnce ==
  ASSUME TypeOK, TypeOK', MessageInv, NEW from \in Places, NEW to \in Places,
         \A q \in Queues : to # InQueue(q), Carries(from, to)
  PROVE  MessageInv'
<1> DEFINE a == Line(to)'
           b == Line(from)'
           c == Line(to)
           d == Line(from)
<1>1. /\ a \in Seq(Rows) /\ b \in Seq(Rows) /\ c \in Seq(Rows) /\ d \in Seq(Rows)
      /\ a \o b = c \o d /\ Within(b, d)
  BY LinesTyped, NextLinesTyped DEF Carries
<1>2. Once(c) /\ Once(d) /\ Apart(c, d)
  BY DEF MessageInv, PlacedOnce, Carries
<1>3. from # to /\ sent' = sent /\ \A p \in Places \ {from, to} : Line(p)' = Line(p)
  BY DEF Carries
<1>4. \A p, r \in Places : p # r => Apart(Line(p), Line(r))
  BY DEF MessageInv, PlacedOnce
<1>5. ASSUME NEW p \in Places \ {from, to}
      PROVE  Apart(Line(p), c) /\ Apart(Line(p), d)
  BY <1>4, <1>5
<1>6. /\ \A m \in Msgs : User(m) \in ToSet(c) \cup ToSet(d) => \E x \in Sources : m \in ToSet(sent[x])
      /\ \A m \in Msgs, q \in Queues : from = InQueue(q) /\ User(m) \in ToSet(d) => m \in ToSet(sent[q])
  BY DEF MessageInv, SentFirst
<1> HIDE DEF a, b, c, d
<1>7. Once(a) /\ Once(b) /\ Apart(a, b)
  <2>1. Once(c \o d)
    BY <1>1, <1>2, JoinedOnce
  <2> QED BY <1>1, <2>1, JoinedOnce
<1>8. ToSet(a) \cup ToSet(b) = ToSet(c) \cup ToSet(d)
  <2>1. ToSet(a \o b) = ToSet(a) \cup ToSet(b) /\ ToSet(c \o d) = ToSet(c) \cup ToSet(d)
    BY <1>1, JoinedRows
  <2> QED BY <1>1, <2>1
<1>9. \A row \in ToSet(b) : row.kind = "user" => row \in ToSet(d)
  BY <1>1, WithinOnce
<1>10. ASSUME NEW p \in Places \ {from, to}
       PROVE  /\ Apart(Line(p), a) /\ Apart(a, Line(p))
              /\ Apart(Line(p), b) /\ Apart(b, Line(p))
  BY <1>5, <1>8, <1>10 DEF Apart
<1>11. \A p \in Places : Once(Line(p))
  BY DEF MessageInv, PlacedOnce
<1>12. PlacedOnce'
  <2>1. \A p \in Places : Once(Line(p)')
    BY <1>3, <1>7, <1>11 DEF a, b
  <2>2. ASSUME NEW p \in Places, NEW r \in Places, p # r
        PROVE  Apart(Line(p)', Line(r)')
    <3>1. CASE p \notin {from, to} /\ r \notin {from, to}
      BY <1>3, <1>4, <2>2, <3>1
    <3>2. CASE p \notin {from, to} /\ r \in {from, to}
      BY <1>3, <1>10, <3>2 DEF a, b
    <3>3. CASE p \in {from, to} /\ r \notin {from, to}
      BY <1>3, <1>10, <3>3 DEF a, b
    <3>4. CASE p \in {from, to} /\ r \in {from, to}
      BY <1>7, <2>2, <3>4 DEF a, b, Apart
    <3> QED BY <3>1, <3>2, <3>3, <3>4
  <2> QED BY <2>1, <2>2 DEF PlacedOnce
<1>13. SentFirst'
  <2>1. ASSUME NEW m \in Msgs, NEW p \in Places, User(m) \in ToSet(Line(p)')
        PROVE  \E x \in Sources : m \in ToSet(sent[x])
    <3>1. CASE p \notin {from, to}
      BY <1>3, <2>1, <3>1 DEF MessageInv, SentFirst
    <3>2. CASE p \in {from, to}
      BY <1>6, <1>8, <2>1, <3>2 DEF a, b
    <3> QED BY <3>1, <3>2
  <2>2. ASSUME NEW m \in Msgs, NEW q \in Queues, User(m) \in ToSet(Line(InQueue(q))')
        PROVE  m \in ToSet(sent[q])
    <3>1. InQueue(q) \in Places /\ InQueue(q) # to
      BY PlaceLines
    <3>2. CASE InQueue(q) = from
      BY <1>6, <1>9, <2>2, <3>2, UserRow DEF b
    <3>3. CASE InQueue(q) # from
      BY <1>3, <2>2, <3>1, <3>3 DEF MessageInv, SentFirst
    <3> QED BY <3>2, <3>3
  <2> QED BY <1>3, <2>1, <2>2 DEF SentFirst
<1>14. SentOnce'
  BY <1>3 DEF MessageInv, SentOnce
<1> QED BY <1>12, <1>13, <1>14 DEF MessageInv

\* A message that is sent for the first time is nowhere yet (Agent::steer).
LEMMA ArrivesOnce ==
  ASSUME TypeOK, TypeOK', MessageInv, NEW x \in Sources, NEW m \in Msgs, NEW at \in Places,
         \A q \in Queues : at = InQueue(q) => x = q, Arrives(x, m, at)
  PROVE  MessageInv'
<1>0. /\ sent \in [Sources -> Seq(Msgs)] /\ sent[x] \in Seq(Msgs)
      /\ \A p \in Places : Line(p) \in Seq(Rows) /\ Line(p)' \in Seq(Rows)
  BY LinesTyped, NextLinesTyped DEF TypeOK
<1>1. /\ \A y \in Sources : m \notin ToSet(sent[y])
      /\ sent' = [sent EXCEPT ![x] = Append(@, m)]
      /\ sent'[x] = Append(sent[x], m)
      /\ \A y \in Sources \ {x} : sent'[y] = sent[y]
      /\ Line(at)' = Append(Line(at), User(m))
      /\ \A p \in Places \ {at} : Line(p)' = Line(p)
  BY <1>0 DEF Arrives, Send
<1>2. \A p \in Places : User(m) \notin ToSet(Line(p))
  BY <1>1 DEF MessageInv, SentFirst
<1>3. User(m) \in Rows /\ User(m).kind = "user" /\ \A n \in Msgs : User(n) = User(m) => n = m
  BY UserRow
<1>4. ToSet(Line(at)') = ToSet(Line(at)) \cup {User(m)} /\ Once(Line(at)')
  <2> DEFINE row == User(m)
             s == Line(at)
  <2>1. s \in Seq(Rows) /\ row \in Rows /\ row \notin ToSet(s) /\ Once(s)
    BY <1>0, <1>2, <1>3 DEF MessageInv, PlacedOnce
  <2> HIDE DEF row, s
  <2>2. ToSet(Append(s, row)) = ToSet(s) \cup {row} /\ Once(Append(s, row))
    BY <2>1, AppendElements, AppendOnce
  <2> QED BY <1>1, <2>2 DEF row, s
<1>5. PlacedOnce'
  <2>1. \A p \in Places : Once(Line(p)')
    BY <1>1, <1>4 DEF MessageInv, PlacedOnce
  <2>2. ASSUME NEW p \in Places, NEW r \in Places, p # r
        PROVE  Apart(Line(p)', Line(r)')
    <3>1. Apart(Line(p), Line(r))
      BY <2>2 DEF MessageInv, PlacedOnce
    <3>2. CASE p # at /\ r # at
      BY <1>1, <3>1, <3>2
    <3>3. CASE p = at
      BY <1>1, <1>2, <1>4, <2>2, <3>1, <3>3 DEF Apart
    <3>4. CASE r = at
      BY <1>1, <1>2, <1>4, <2>2, <3>1, <3>4 DEF Apart
    <3> QED BY <3>2, <3>3, <3>4
  <2> QED BY <2>1, <2>2 DEF PlacedOnce
<1>6. /\ ToSet(sent'[x]) = ToSet(sent[x]) \cup {m}
      /\ DOMAIN sent'[x] = 1..(Len(sent[x]) + 1) /\ DOMAIN sent[x] = 1..Len(sent[x])
      /\ \A a \in 1..Len(sent[x]) : sent'[x][a] = sent[x][a]
      /\ sent'[x][Len(sent[x]) + 1] = m
  BY <1>0, <1>1, AppendElements
<1>7. SentFirst'
  <2>1. ASSUME NEW n \in Msgs, NEW p \in Places, User(n) \in ToSet(Line(p)')
        PROVE  \E y \in Sources : n \in ToSet(sent'[y])
    <3>1. User(n) \in ToSet(Line(p)) \/ n = m
      <4>1. CASE p = at
        BY <1>3, <1>4, <2>1, <4>1
      <4>2. CASE p # at
        BY <1>1, <2>1, <4>2
      <4> QED BY <4>1, <4>2
    <3>2. CASE n = m
      BY <1>6, <3>2
    <3>3. CASE User(n) \in ToSet(Line(p))
      <4>1. PICK y \in Sources : n \in ToSet(sent[y])
        BY <3>3 DEF MessageInv, SentFirst
      <4> QED BY <1>1, <1>6, <4>1
    <3> QED BY <3>1, <3>2, <3>3
  <2>2. ASSUME NEW n \in Msgs, NEW q \in Queues, User(n) \in ToSet(Line(InQueue(q))')
        PROVE  n \in ToSet(sent'[q])
    <3>0. InQueue(q) \in Places /\ q \in Sources
      BY PlaceLines DEF Sources
    <3>1. User(n) \in ToSet(Line(InQueue(q))) \/ (n = m /\ at = InQueue(q))
      <4>1. CASE InQueue(q) = at
        BY <1>3, <1>4, <2>2, <4>1
      <4>2. CASE InQueue(q) # at
        BY <1>1, <2>2, <3>0, <4>2
      <4> QED BY <4>1, <4>2
    <3>2. CASE n = m /\ at = InQueue(q)
      BY <1>6, <3>2
    <3>3. CASE User(n) \in ToSet(Line(InQueue(q)))
      <4>1. n \in ToSet(sent[q])
        BY <3>3 DEF MessageInv, SentFirst
      <4> QED BY <1>1, <1>6, <3>0, <4>1
    <3> QED BY <3>1, <3>2, <3>3
  <2> QED BY <2>1, <2>2 DEF SentFirst
<1>8. SentOnce'
  <2>1. \A y \in Sources : \A a \in DOMAIN sent[y] : sent[y][a] # m
    BY <1>1 DEF ToSet
  <2>2. \A y \in Sources : \A a \in DOMAIN sent'[y] :
          \/ a \in DOMAIN sent[y] /\ sent'[y][a] = sent[y][a]
          \/ y = x /\ a = Len(sent[x]) + 1 /\ sent'[y][a] = m
    BY <1>1, <1>6
  <2>3. SentOnce
    BY DEF MessageInv
  <2> QED BY <2>1, <2>2, <2>3 DEF SentOnce
<1> QED BY <1>5, <1>7, <1>8 DEF MessageInv

\* Every step keeps every message in one place.
LEMMA MessageKept ==
  ASSUME CoreInv, CoreInv', MessageInv, [Next]_vars
  PROVE  MessageInv'
<1> USE DEF CoreInv
<1>1. CASE Thins
  BY <1>1, ThinsOnce
<1>2. ASSUME NEW q \in Queues, NEW m \in Msgs, Arrives(q, m, InQueue(q))
      PROVE  MessageInv'
  <2>1. InQueue(q) \in Places /\ q \in Sources /\ \A r \in Queues : InQueue(q) = InQueue(r) => q = r
    BY PlaceLines DEF Sources
  <2> QED BY <1>2, <2>1, ArrivesOnce
<1>3. ASSUME NEW c \in Callers, NEW m \in Msgs, Arrives("prompt", m, InHand(c))
      PROVE  MessageInv'
  <2>1. InHand(c) \in Places /\ "prompt" \in Sources /\ \A q \in Queues : InHand(c) # InQueue(q)
    BY PlaceLines DEF Sources
  <2> QED BY <1>3, <2>1, ArrivesOnce
<1>4. /\ InLoop \in Places /\ Recorded \in Places
      /\ \A q \in Queues : InQueue(q) \in Places /\ InQueue(q) \notin {InLoop, Recorded}
      /\ \A c \in Callers : InHand(c) \in Places /\ \A q \in Queues : InHand(c) # InQueue(q)
  BY PlaceLines
<1>5. ASSUME NEW from \in Places, NEW to \in Places, \A q \in Queues : to # InQueue(q),
             Carries(from, to)
      PROVE  MessageInv'
  BY <1>5, CarriesOnce
<1> QED BY <1>1, <1>2, <1>3, <1>4, <1>5, LineMoves

\* So every message is in one place in every state.
LEMMA MessagesHold == Spec => []MessageInv
<1>1. Init => MessageInv
  <2> SUFFICES ASSUME Init
               PROVE  MessageInv
    OBVIOUS
  <2>1. \A p \in Places : Line(p) = <<>>
    <3>1. UserRows(<<>>) = <<>>
      BY DEF UserRows
    <3>2. /\ \A q \in Queues : Line(InQueue(q)) = <<>>
          /\ \A c \in Callers : Line(InHand(c)) = <<>>
          /\ Line(InLoop) = <<>> /\ Line(Recorded) = <<>>
      BY <3>1, PlaceLines DEF Init
    <3> QED BY <3>2, PlaceKinds
  <2>2. ToSet(<<>>) = {}
    BY DEF ToSet
  <2>3. PlacedOnce
    BY <2>1, <2>2 DEF PlacedOnce, Once, Apart
  <2>4. SentFirst
    BY <2>1, <2>2, PlaceLines DEF SentFirst
  <2>5. SentOnce
    BY DEF Init, SentOnce
  <2> QED BY <2>3, <2>4, <2>5 DEF MessageInv
<1>2. CoreInv /\ CoreInv' /\ MessageInv /\ [Next]_vars => MessageInv'
  BY MessageKept
<1> QED BY <1>1, <1>2, CoreHolds, PTL DEF Spec

\* Of a set with one element at most there is one at most.
LEMMA AtMostOne ==
  ASSUME NEW S, \A x, y \in S : x = y
  PROVE  Cardinality(S) \in {0, 1} /\ (S = {} => Cardinality(S) = 0)
<1>1. CASE S = {}
  BY <1>1, FS_EmptySet
<1>2. CASE S # {}
  <2>1. PICK x : S = {x}
    BY <1>2
  <2> QED BY <2>1, FS_Singleton
<1> QED BY <1>1, <1>2

\* No message is in two places at once, and none is recorded twice: drains, polls,
\* prompts and failures hand it on (PendingMessageQueue::drain, run_loop).
THEOREM InOnePlace == Spec => []NeverTwice
<1>1. CoreInv /\ MessageInv => NeverTwice
  <2> SUFFICES ASSUME CoreInv, MessageInv
               PROVE  NeverTwice
    OBVIOUS
  <2>1. Once(transcript)
    BY PlaceLines DEF MessageInv, PlacedOnce
  <2>2. ASSUME NEW m \in Msgs
        PROVE  Cardinality({q \in Queues : m \in ToSet(queue[q])})
                 + Cardinality({c \in Callers : m \in ToSet(hand[c])})
                 + (IF User(m) \in ToSet(pending) THEN 1 ELSE 0)
                 + (IF User(m) \in ToSet(transcript) THEN 1 ELSE 0) <= 1
    <3> DEFINE Q == {q \in Queues : m \in ToSet(queue[q])}
               H == {c \in Callers : m \in ToSet(hand[c])}
    <3>1. \A p, r \in Places : User(m) \in ToSet(Line(p)) /\ User(m) \in ToSet(Line(r)) => p = r
      BY UserRow DEF MessageInv, PlacedOnce, Apart
    <3>2. /\ \A q \in Q : InQueue(q) \in Places /\ User(m) \in ToSet(Line(InQueue(q)))
          /\ \A c \in H : InHand(c) \in Places /\ User(m) \in ToSet(Line(InHand(c)))
      BY PlaceLines, UserRowsElements DEF CoreInv, TypeOK
    <3>3. /\ \A q, r \in Q : q = r
          /\ \A c, d \in H : c = d
          /\ Q # {} => H = {}
          /\ User(m) \in ToSet(pending) => Q = {} /\ H = {}
          /\ User(m) \in ToSet(transcript) => Q = {} /\ H = {}
          /\ ~(User(m) \in ToSet(pending) /\ User(m) \in ToSet(transcript))
      BY <3>1, <3>2, PlaceLines
    <3>4. /\ Cardinality(Q) \in {0, 1} /\ (Q = {} => Cardinality(Q) = 0)
          /\ Cardinality(H) \in {0, 1} /\ (H = {} => Cardinality(H) = 0)
      BY <3>3, AtMostOne
    <3> HIDE DEF Q, H
    <3>5. Cardinality(Q) + Cardinality(H)
            + (IF User(m) \in ToSet(pending) THEN 1 ELSE 0)
            + (IF User(m) \in ToSet(transcript) THEN 1 ELSE 0) <= 1
      BY <3>3, <3>4
    <3> QED BY <3>5 DEF Q, H
  <2> QED BY <2>1, <2>2 DEF NeverTwice, Once
<1> QED BY <1>1, CoreHolds, MessagesHold, PTL

-----------------------------------------------------------------------------
(* QueuesInOrder, with one caller *)

\* What came in by q stands in s in the order it came.
InOrder(q, s) ==
  \A i, j \in DOMAIN s : \A a, b \in DOMAIN sent[q] :
    i < j /\ s[i] = User(sent[q][a]) /\ s[j] = User(sent[q][b]) => a < b

\* What came in by q and stands in s came before what stands in t.
Ahead(q, s, t) ==
  \A a, b \in DOMAIN sent[q] :
    User(sent[q][a]) \in ToSet(s) /\ User(sent[q][b]) \in ToSet(t) => a < b

\* How far a message is from the transcript.
Distance(p) ==
  IF p = Recorded THEN 0 ELSE IF p = InLoop THEN 1 ELSE IF p[1] = "hand" THEN 2 ELSE 3

\* The messages of a queue are in order, in every place and along their way.
OrderInv ==
  \A q \in Queues :
    /\ \A p \in Places : InOrder(q, Line(p))
    /\ \A p, r \in Places : Distance(p) < Distance(r) => Ahead(q, Line(p), Line(r))

\* The way of a message.
LEMMA Distances ==
  /\ Distance(Recorded) = 0 /\ Distance(InLoop) = 1
  /\ \A c \in Callers : Distance(InHand(c)) = 2
  /\ \A q \in Queues : Distance(InQueue(q)) = 3
BY DEF Distance, Recorded, InLoop, InHand, InQueue

\* A message that was sent is a message.
LEMMA SentRows ==
  ASSUME TypeOK, NEW q \in Queues, NEW a \in DOMAIN sent[q]
  PROVE  sent[q][a] \in Msgs /\ User(sent[q][a]) \in Rows /\ User(sent[q][a]).kind = "user"
<1>1. sent[q] \in Seq(Msgs)
  BY DEF TypeOK, Sources
<1> QED BY <1>1, UserRow

\* What is within a line in order is in order.
LEMMA WithinOrder ==
  ASSUME TypeOK, NEW q \in Queues, NEW s \in Seq(Rows), NEW t \in Seq(Rows),
         Within(s, t), InOrder(q, t)
  PROVE  InOrder(q, s)
<1> SUFFICES ASSUME NEW i \in DOMAIN s, NEW j \in DOMAIN s,
                    NEW a \in DOMAIN sent[q], NEW b \in DOMAIN sent[q],
                    i < j, s[i] = User(sent[q][a]), s[j] = User(sent[q][b])
             PROVE  a < b
  BY DEF InOrder
<1>1. i <= j /\ s[i].kind = "user" /\ s[j].kind = "user"
  BY SentRows
<1>2. PICK k, l \in DOMAIN t : t[k] = s[i] /\ t[l] = s[j] /\ k < l
  BY <1>1 DEF Within
<1> QED BY <1>2 DEF InOrder

\* Two joined lines are in order when both are and the first is ahead.
LEMMA JoinedOrder ==
  ASSUME NEW q \in Queues, NEW s \in Seq(Rows), NEW t \in Seq(Rows)
  PROVE  InOrder(q, s \o t) <=> InOrder(q, s) /\ InOrder(q, t) /\ Ahead(q, s, t)
<1> DEFINE w == s \o t
           n == Len(s)
<1>0. /\ n \in Nat /\ (\A i \in DOMAIN s : i \in Nat /\ i <= n) /\ DOMAIN w \subseteq Nat
      /\ \A j \in DOMAIN t : j \in Nat /\ j > 0
  <2>1. w \in Seq(Rows)
    BY ConcatProperties
  <2> QED BY <2>1
<1>1. /\ \A i \in DOMAIN s : i \in DOMAIN w /\ w[i] = s[i]
      /\ \A j \in DOMAIN t : n + j \in DOMAIN w /\ w[n + j] = t[j]
      /\ \A k \in DOMAIN w : k \in DOMAIN s \/ (k - n \in DOMAIN t /\ k = n + (k - n))
  BY Joined
<1> HIDE DEF w, n
<1>2. ASSUME InOrder(q, w)
      PROVE  InOrder(q, s) /\ InOrder(q, t) /\ Ahead(q, s, t)
  <2>1. InOrder(q, s)
    BY <1>1, <1>2 DEF InOrder
  <2>2. InOrder(q, t)
    BY <1>0, <1>1, <1>2 DEF InOrder
  <2>3. ASSUME NEW i \in DOMAIN s, NEW j \in DOMAIN t,
               NEW a \in DOMAIN sent[q], NEW b \in DOMAIN sent[q],
               s[i] = User(sent[q][a]), t[j] = User(sent[q][b])
        PROVE  a < b
    <3>1. i < n + j
      BY <1>0
    <3> QED BY <1>1, <1>2, <2>3, <3>1 DEF InOrder
  <2>4. Ahead(q, s, t)
    BY <2>3 DEF Ahead, ToSet
  <2> QED BY <2>1, <2>2, <2>4
<1>3. ASSUME InOrder(q, s), InOrder(q, t), Ahead(q, s, t)
      PROVE  InOrder(q, w)
  <2> SUFFICES ASSUME NEW i \in DOMAIN w, NEW j \in DOMAIN w,
                      NEW a \in DOMAIN sent[q], NEW b \in DOMAIN sent[q],
                      i < j, w[i] = User(sent[q][a]), w[j] = User(sent[q][b])
               PROVE  a < b
    BY DEF InOrder
  <2>1. CASE i \in DOMAIN s /\ j \in DOMAIN s
    BY <1>1, <1>3, <2>1 DEF InOrder
  <2>2. CASE i \in DOMAIN s /\ j \notin DOMAIN s
    BY <1>1, <1>3, <2>2 DEF Ahead, ToSet
  <2>3. CASE i \notin DOMAIN s /\ j \in DOMAIN s
    BY <1>0, <1>1, <2>3
  <2>4. CASE i \notin DOMAIN s /\ j \notin DOMAIN s
    <3>1. i - n < j - n
      BY <1>0
    <3> QED BY <1>1, <1>3, <2>4, <3>1 DEF InOrder
  <2> QED BY <2>1, <2>2, <2>3, <2>4
<1> QED BY <1>2, <1>3 DEF w

\* Two queues never hold messages of the same source.
LEMMA QueuesApart ==
  ASSUME TypeOK, MessageInv, NEW q \in Queues, NEW r \in Queues, q # r, NEW x \in Queues
  PROVE  Ahead(x, Line(InQueue(q)), Line(InQueue(r)))
<1>1. ASSUME NEW y \in Queues, NEW a \in DOMAIN sent[x],
             User(sent[x][a]) \in ToSet(Line(InQueue(y)))
      PROVE  y = x
  <2>1. sent[x][a] \in ToSet(sent[y])
    BY <1>1, SentRows DEF MessageInv, SentFirst
  <2> QED BY <2>1 DEF MessageInv, SentOnce, ToSet, Sources
<1> QED BY <1>1 DEF Ahead

\* Lines that thin out stay in order.
LEMMA ThinsOrder ==
  ASSUME TypeOK, TypeOK', OrderInv, Thins
  PROVE  OrderInv'
<1>1. ASSUME NEW p \in Places
      PROVE  /\ Line(p) \in Seq(Rows) /\ Line(p)' \in Seq(Rows) /\ Within(Line(p)', Line(p))
             /\ \A row \in ToSet(Line(p)') : row.kind = "user" => row \in ToSet(Line(p))
  <2>1. Line(p) \in Seq(Rows) /\ Line(p)' \in Seq(Rows) /\ Within(Line(p)', Line(p))
    BY LinesTyped, NextLinesTyped DEF Thins
  <2> QED BY <2>1, WithinOnce
<1>2. ASSUME NEW q \in Queues, NEW p \in Places
      PROVE  InOrder(q, Line(p))'
  <2>1. InOrder(q, Line(p)')
    BY <1>1, WithinOrder DEF OrderInv
  <2> QED BY <2>1 DEF InOrder, Thins
<1>3. ASSUME NEW q \in Queues, NEW p \in Places, NEW r \in Places, Distance(p) < Distance(r)
      PROVE  Ahead(q, Line(p), Line(r))'
  <2>1. Ahead(q, Line(p), Line(r))
    BY <1>3 DEF OrderInv
  <2>2. \A a \in DOMAIN sent[q] : User(sent[q][a]).kind = "user"
    BY SentRows
  <2> QED BY <1>1, <2>1, <2>2 DEF Ahead, Thins
<1> QED BY <1>2, <1>3 DEF OrderInv

\* A head that moves on stays in order if it overtakes nothing.
LEMMA CarriesOrder ==
  ASSUME TypeOK, TypeOK', OrderInv, NEW from \in Places, NEW to \in Places,
         Distance(to) < Distance(from), Carries(from, to),
         \A q \in Queues : \A p \in Places \ {from, to} :
           Distance(to) < Distance(p) /\ Distance(p) <= Distance(from) =>
             Ahead(q, Line(from), Line(p))
  PROVE  OrderInv'
<1> DEFINE a == Line(to)'
           b == Line(from)'
           c == Line(to)
           d == Line(from)
<1>1. /\ a \in Seq(Rows) /\ b \in Seq(Rows) /\ c \in Seq(Rows) /\ d \in Seq(Rows)
      /\ a \o b = c \o d /\ Within(b, d)
      /\ from # to /\ sent' = sent /\ \A p \in Places \ {from, to} : Line(p)' = Line(p)
  BY LinesTyped, NextLinesTyped DEF Carries
<1>2. \A q \in Queues : InOrder(q, c) /\ InOrder(q, d) /\ Ahead(q, c, d)
  BY DEF OrderInv
<1>3. \A p \in Places : Distance(p) \in 0..3
  BY DEF Distance
<1>4. ASSUME NEW q \in Queues, NEW p \in Places \ {from, to}
      PROVE  /\ Distance(p) < Distance(to) => Ahead(q, Line(p), c) /\ Ahead(q, Line(p), d)
             /\ Distance(p) < Distance(from) => Ahead(q, Line(p), d)
             /\ Distance(to) < Distance(p) => Ahead(q, c, Line(p)) /\ Ahead(q, d, Line(p))
             /\ Distance(from) < Distance(p) => Ahead(q, d, Line(p))
  BY <1>3 DEF OrderInv
<1> HIDE DEF a, b, c, d
<1>5. ToSet(a) \cup ToSet(b) = ToSet(c) \cup ToSet(d)
  <2>1. ToSet(a \o b) = ToSet(a) \cup ToSet(b) /\ ToSet(c \o d) = ToSet(c) \cup ToSet(d)
    BY <1>1, JoinedRows
  <2> QED BY <1>1, <2>1
<1>6. \A row \in ToSet(b) : row.kind = "user" => row \in ToSet(d)
  BY <1>1, WithinOnce
<1>7. \A q \in Queues : \A i \in DOMAIN sent[q] : User(sent[q][i]).kind = "user"
  BY SentRows
<1>8. ASSUME NEW q \in Queues
      PROVE  InOrder(q, a) /\ InOrder(q, b) /\ Ahead(q, a, b)
  <2>1. InOrder(q, c \o d)
    BY <1>1, <1>2, JoinedOrder
  <2> QED BY <1>1, <2>1, JoinedOrder
<1>9. ASSUME NEW q \in Queues, NEW p \in Places
      PROVE  InOrder(q, Line(p)')
  <2>1. CASE p \in {from, to}
    BY <1>8, <2>1 DEF a, b
  <2>2. CASE p \notin {from, to}
    BY <1>1, <2>2 DEF OrderInv
  <2> QED BY <2>1, <2>2
<1>10. ASSUME NEW q \in Queues, NEW p \in Places \ {from, to}
       PROVE  /\ Distance(p) < Distance(to) => Ahead(q, Line(p), a)
              /\ Distance(p) < Distance(from) => Ahead(q, Line(p), b)
              /\ Distance(to) < Distance(p) => Ahead(q, a, Line(p))
              /\ Distance(from) < Distance(p) => Ahead(q, b, Line(p))
  BY <1>4, <1>5, <1>6, <1>7, <1>10 DEF Ahead
<1>11. ASSUME NEW q \in Queues, NEW p \in Places, NEW r \in Places, Distance(p) < Distance(r)
       PROVE  Ahead(q, Line(p)', Line(r)')
  <2>1. CASE p \notin {from, to} /\ r \notin {from, to}
    BY <1>1, <1>11, <2>1 DEF OrderInv
  <2>2. CASE p \notin {from, to} /\ r \in {from, to}
    BY <1>1, <1>10, <1>11, <2>2 DEF a, b
  <2>3. CASE p \in {from, to} /\ r \notin {from, to}
    BY <1>1, <1>10, <1>11, <2>3 DEF a, b
  <2>4. CASE p \in {from, to} /\ r \in {from, to}
    <3>1. p = to /\ r = from
      BY <1>3, <1>11, <2>4
    <3> QED BY <1>8, <3>1 DEF a, b
  <2> QED BY <2>1, <2>2, <2>3, <2>4
<1> QED BY <1>1, <1>9, <1>11 DEF OrderInv, InOrder, Ahead

\* What is sent joins the end of its queue, behind everything that was sent there
\* before; a prompt is of no queue (Agent::steer, Agent::prompt).
LEMMA ArrivesOrder ==
  ASSUME TypeOK, TypeOK', MessageInv, OrderInv,
         NEW x \in Sources, NEW m \in Msgs, NEW at \in Places,
         x \in Queues => Distance(at) = 3, Arrives(x, m, at)
  PROVE  OrderInv'
<1>0. /\ sent \in [Sources -> Seq(Msgs)] /\ sent[x] \in Seq(Msgs)
      /\ \A p \in Places : Line(p) \in Seq(Rows) /\ Distance(p) \in 0..3
  BY SMTT(30), LinesTyped DEF TypeOK, Distance
<1>1. /\ \A y \in Sources : m \notin ToSet(sent[y])
      /\ sent'[x] = Append(sent[x], m)
      /\ \A y \in Sources \ {x} : sent'[y] = sent[y]
      /\ Line(at)' = Append(Line(at), User(m))
      /\ \A p \in Places \ {at} : Line(p)' = Line(p)
  BY <1>0 DEF Arrives, Send
<1> DEFINE n == Len(sent[x]) + 1
           old(q, a) == a \in DOMAIN sent[q] /\ sent'[q][a] = sent[q][a] /\ sent[q][a] # m
           new(q, a) == q = x /\ a = n /\ sent'[q][a] = m
<1>2. ASSUME NEW q \in Queues, NEW a \in DOMAIN sent'[q]
      PROVE  /\ old(q, a) \/ new(q, a)
             /\ \A b \in DOMAIN sent'[q] : old(q, a) /\ new(q, b) => a < b
  <2>0. q \in Sources
    BY DEF Sources
  <2>1. \A b \in DOMAIN sent[q] : sent[q][b] # m
    BY <1>1, <2>0 DEF ToSet
  <2>2. CASE q # x
    BY <1>1, <2>0, <2>1, <2>2
  <2>3. CASE q = x
    <3>1. /\ DOMAIN sent'[q] = 1..n /\ DOMAIN sent[q] = 1..(n - 1) /\ n \in Nat
          /\ sent'[q][n] = m /\ \A b \in 1..(n - 1) : sent'[q][b] = sent[q][b]
      BY <1>0, <1>1, <2>3
    <3> QED BY <2>1, <2>3, <3>1
  <2> QED BY <2>2, <2>3
<1>3. ASSUME NEW p \in Places, NEW i \in DOMAIN Line(p)'
      PROVE  \/ i \in DOMAIN Line(p) /\ Line(p)'[i] = Line(p)[i]
             \/ /\ p = at /\ Line(p)'[i] = User(m)
                /\ \A j \in DOMAIN Line(p)' : j <= i
  <2>1. CASE p # at
    BY <1>1, <2>1
  <2>2. CASE p = at
    <3> DEFINE s == Line(at)
               row == User(m)
    <3>1. s \in Seq(Rows) /\ row \in Rows /\ Line(p)' = Append(s, row)
      BY <1>0, <1>1, <2>2, UserRow
    <3> HIDE DEF s, row
    <3>2. /\ DOMAIN Line(p)' = 1..(Len(s) + 1) /\ DOMAIN s = 1..Len(s) /\ Len(s) \in Nat
          /\ \A j \in 1..Len(s) : Line(p)'[j] = s[j]
          /\ Line(p)'[Len(s) + 1] = row
      BY <3>1
    <3>3. \/ i \in DOMAIN s /\ Line(p)'[i] = s[i]
          \/ Line(p)'[i] = row /\ \A j \in DOMAIN Line(p)' : j <= i
      BY <3>2
    <3> QED BY <2>2, <3>3 DEF s, row
  <2> QED BY <2>1, <2>2
<1>4. \A l \in Msgs : User(l) = User(m) => l = m
  BY UserRow
<1>5. \A q \in Queues : \A a \in DOMAIN sent[q] : sent[q][a] \in Msgs
  BY SentRows
<1>6. \A p \in Places : User(m) \notin ToSet(Line(p))
  BY <1>1 DEF MessageInv, SentFirst
<1> HIDE DEF n
<1>7. ASSUME NEW q \in Queues, NEW p \in Places
      PROVE  InOrder(q, Line(p))'
  <2> SUFFICES ASSUME NEW i \in DOMAIN Line(p)', NEW j \in DOMAIN Line(p)',
                      NEW a \in DOMAIN sent'[q], NEW b \in DOMAIN sent'[q], i < j,
                      Line(p)'[i] = User(sent'[q][a]), Line(p)'[j] = User(sent'[q][b])
               PROVE  a < b
    BY DEF InOrder
  <2>0. i \in Int /\ j \in Int
    BY NextLinesTyped
  <2>1. i \in DOMAIN Line(p) /\ Line(p)'[i] = Line(p)[i]
    BY <1>3, <2>0
  <2>2. old(q, a)
    <3> SUFFICES ASSUME new(q, a)
                 PROVE  FALSE
      BY <1>2
    <3>1. Line(p)[i] = User(m)
      BY <2>1
    <3> QED BY <1>6, <2>1, <3>1 DEF ToSet
  <2>3. CASE old(q, b)
    <3>1. j \in DOMAIN Line(p) /\ Line(p)'[j] = Line(p)[j]
      BY <1>3, <1>4, <1>5, <2>3
    <3>2. Line(p)[i] = User(sent[q][a]) /\ Line(p)[j] = User(sent[q][b])
      BY <2>1, <2>2, <2>3, <3>1
    <3>3. InOrder(q, Line(p))
      BY DEF OrderInv
    <3> QED BY <2>1, <2>2, <2>3, <3>1, <3>2, <3>3 DEF InOrder
  <2>4. CASE new(q, b)
    BY <1>2, <2>2, <2>4
  <2> QED BY <1>2, <2>3, <2>4
<1>8. ASSUME NEW q \in Queues, NEW p \in Places, NEW r \in Places, Distance(p) < Distance(r)
      PROVE  Ahead(q, Line(p), Line(r))'
  <2> SUFFICES ASSUME NEW i \in DOMAIN Line(p)', NEW j \in DOMAIN Line(r)',
                      NEW a \in DOMAIN sent'[q], NEW b \in DOMAIN sent'[q],
                      Line(p)'[i] = User(sent'[q][a]), Line(r)'[j] = User(sent'[q][b])
               PROVE  a < b
    BY DEF Ahead, ToSet
  <2>1. old(q, a)
    <3> SUFFICES ASSUME new(q, a)
                 PROVE  FALSE
      BY <1>2
    <3>1. p # at
      BY <1>0, <1>8
    <3> QED BY <1>3, <1>6, <3>1 DEF ToSet
  <2>2. i \in DOMAIN Line(p) /\ Line(p)'[i] = Line(p)[i]
    BY <1>3, <1>4, <1>5, <2>1
  <2>3. CASE old(q, b)
    <3>1. j \in DOMAIN Line(r) /\ Line(r)'[j] = Line(r)[j]
      BY <1>3, <1>4, <1>5, <2>3
    <3> QED BY <1>8, <2>1, <2>2, <2>3, <3>1 DEF OrderInv, Ahead, ToSet
  <2>4. CASE new(q, b)
    BY <1>2, <2>1, <2>4
  <2> QED BY <1>2, <2>3, <2>4
<1> QED BY <1>7, <1>8 DEF OrderInv

\* With one caller no step disturbs the order.
LEMMA OrderKept ==
  ASSUME CoreInv, CoreInv', MessageInv, OrderInv, \A c, d \in Callers : c = d, [Next]_vars
  PROVE  OrderInv'
<1> USE DEF CoreInv
<1>0. /\ InLoop \in Places /\ Recorded \in Places
      /\ \A q \in Queues : InQueue(q) \in Places
      /\ \A c \in Callers : InHand(c) \in Places
  BY PlaceLines
<1>1. CASE Thins
  BY <1>1, ThinsOrder
<1>2. ASSUME NEW q \in Queues, NEW m \in Msgs, Arrives(q, m, InQueue(q))
      PROVE  OrderInv'
  BY <1>0, <1>2, ArrivesOrder, Distances DEF Sources
<1>3. ASSUME NEW c \in Callers, NEW m \in Msgs, Arrives("prompt", m, InHand(c))
      PROVE  OrderInv'
  BY <1>0, <1>3, ArrivesOrder DEF Sources, Queues
<1>4. ASSUME NEW c \in Callers, NEW q \in Queues, Carries(InQueue(q), InHand(c))
      PROVE  OrderInv'
  <2>1. ASSUME NEW x \in Queues, NEW p \in Places \ {InQueue(q), InHand(c)},
               2 < Distance(p)
        PROVE  Ahead(x, Line(InQueue(q)), Line(p))
    BY <2>1, Distances, PlaceKinds, QueuesApart
  <2> QED BY <1>0, <1>4, <2>1, Distances, CarriesOrder
<1>5. ASSUME owner # NoCaller, NEW q \in Queues, Carries(InQueue(q), InLoop)
      PROVE  OrderInv'
  <2>1. ASSUME NEW c \in Callers
        PROVE  Line(InHand(c)) = <<>>
    <3>1. c = owner /\ phase[c] = "running"
      BY <1>5 DEF SlotInv, TypeOK
    <3>2. hand[c] = <<>>
      BY <3>1 DEF SlotInv
    <3> QED BY <3>2, PlaceLines, SameLines
  <2>2. ASSUME NEW x \in Queues, NEW p \in Places \ {InQueue(q), InLoop}, 1 < Distance(p)
        PROVE  Ahead(x, Line(InQueue(q)), Line(p))
    <3>1. CASE \E c \in Callers : p = InHand(c)
      BY <2>1, <3>1 DEF Ahead, ToSet
    <3>2. CASE \E r \in Queues : p = InQueue(r)
      BY <2>2, <3>2, QueuesApart
    <3> QED BY <2>2, <3>1, <3>2, Distances, PlaceKinds
  <2> QED BY <1>0, <1>5, <2>2, Distances, CarriesOrder
<1>6. ASSUME NEW c \in Callers, Carries(InHand(c), InLoop)
      PROVE  OrderInv'
  <2>1. \A p \in Places \ {InHand(c), InLoop} : ~(1 < Distance(p) /\ Distance(p) <= 2)
    BY Distances, PlaceKinds
  <2> QED BY <1>0, <1>6, <2>1, Distances, CarriesOrder
<1>7. CASE Carries(InLoop, Recorded)
  <2>1. \A p \in Places \ {InLoop, Recorded} : ~(0 < Distance(p) /\ Distance(p) <= 1)
    BY Distances, PlaceKinds
  <2> QED BY <1>0, <1>7, <2>1, Distances, CarriesOrder
<1> QED BY <1>1, <1>2, <1>3, <1>4, <1>5, <1>6, <1>7, LineMoves

\* With one caller of prompt and continue_run, what was steered stands in the
\* transcript in the order it was sent, and so do the follow-ups.  (Two callers may
\* each hold a batch of one queue and get the slot the other way round.)
THEOREM InSentOrder ==
  ASSUME \A c, d \in Callers : c = d
  PROVE  Spec => []QueuesInOrder
<1>1. Init => OrderInv
  <2> SUFFICES ASSUME Init
               PROVE  OrderInv
    OBVIOUS
  <2>1. \A q \in Queues : DOMAIN sent[q] = {}
    BY DEF Init, Sources
  <2> QED BY <2>1 DEF OrderInv, InOrder, Ahead
<1>2. CoreInv /\ CoreInv' /\ MessageInv /\ OrderInv /\ [Next]_vars => OrderInv'
  BY OrderKept
<1>3. CoreInv /\ MessageInv /\ OrderInv => QueuesInOrder
  <2> SUFFICES ASSUME CoreInv, MessageInv, OrderInv, NEW q \in Queues,
                      NEW i \in DOMAIN transcript, NEW j \in DOMAIN transcript,
                      NEW a \in DOMAIN sent[q], NEW b \in DOMAIN sent[q],
                      transcript[i] = User(sent[q][a]), transcript[j] = User(sent[q][b])
               PROVE  i < j <=> a < b
    BY DEF QueuesInOrder
  <2>1. InOrder(q, transcript)
    BY PlaceLines DEF OrderInv
  <2>2. i \in Int /\ j \in Int /\ a \in Int /\ b \in Int
    BY SMTT(30) DEF CoreInv, TypeOK, Sources
  <2>3. CASE i < j
    BY <2>1, <2>3 DEF InOrder
  <2>4. CASE j < i
    BY <2>1, <2>2, <2>4 DEF InOrder
  <2>5. CASE i = j
    <3>1. sent[q][a] = sent[q][b]
      BY <2>5, SentRows, UserRow DEF CoreInv
    <3>2. a = b
      BY <3>1 DEF MessageInv, SentOnce, Sources
    <3> QED BY <2>2, <2>5, <3>2
  <2> QED BY <2>2, <2>3, <2>4, <2>5
<1> QED BY <1>1, <1>2, <1>3, CoreHolds, MessagesHold, PTL DEF Spec

-----------------------------------------------------------------------------
(* OneSteerPerTurn *)

\* The rows of what was steered.
Steers == ToSet(UserRows(sent["steer"]))

\* One of the rows of s at most was steered.
OneSteer(s) == \A i, j \in DOMAIN s : s[i] \in Steers /\ s[j] \in Steers => i = j

\* Between two rows that were steered there is a response: the loop holds one such
\* row at most, and none while the last row recorded is one; a run that began with
\* one in hand does not poll at once.
SteerInv ==
  /\ OneSteer(pending)
  /\ \A i \in 1..(Len(transcript) - 1) : ~ {transcript[i], transcript[i + 1]} \subseteq Steers
  /\ transcript # <<>> /\ Last(transcript) \in Steers =>
       /\ ToSet(pending) \cap Steers = {}
       /\ pc \in {"prompts", "turn", "deliver", "streaming", "fail"}
       /\ pc = "prompts" => skip[owner]
  /\ pc \in {"start", "prompts"} /\ ToSet(pending) \cap Steers # {} => skip[owner]
  /\ \A c \in Callers :
       /\ OneSteer(UserRows(hand[c]))
       /\ ToSet(UserRows(hand[c])) \cap Steers # {} => skip[c]

\* What was steered are messages.
LEMMA SteersAre ==
  ASSUME TypeOK
  PROVE  /\ \A m \in Msgs : User(m) \in Steers <=> m \in ToSet(sent["steer"])
         /\ \A row \in Steers : row \in Rows /\ row.kind = "user"
<1>1. sent["steer"] \in Seq(Msgs)
  BY DEF TypeOK, Sources, Queues
<1>2. UserRows(sent["steer"]) \in Seq(Rows)
      /\ \A i \in DOMAIN UserRows(sent["steer"]) :
           UserRows(sent["steer"])[i] = User(sent["steer"][i]) /\ sent["steer"][i] \in Msgs
  BY <1>1, UserRowsTyped
<1> QED BY SMTT(30), <1>1, <1>2, UserRow, UserRowsElements DEF Steers, ToSet

\* In one-at-a-time mode a batch holds one steered row at most, and none unless it is
\* of the steering queue (PendingMessageQueue::drain).
LEMMA BatchSteers ==
  ASSUME TypeOK, MessageInv, SteerModes = {"one"}, NEW q \in Queues
  PROVE  /\ OneSteer(UserRows(Take(q).got))
         /\ q # "steer" => ToSet(UserRows(Take(q).got)) \cap Steers = {}
<1>1. /\ Take(q).got \in Seq(Msgs) /\ Take(q).left \in Seq(Msgs) /\ queue[q] \in Seq(Msgs)
      /\ queue[q] = Take(q).got \o Take(q).left
      /\ mode[q] # "all" => Len(Take(q).got) <= 1
  BY TakeSplits DEF TypeOK
<1> DEFINE rows == UserRows(Take(q).got)
<1>2. rows \in Seq(Rows) /\ Len(rows) = Len(Take(q).got)
  BY <1>1, UserRowsTyped
<1>3. CASE q = "steer"
  <2>1. mode[q] = "one"
    BY <1>3 DEF TypeOK, Modes
  <2>2. Len(rows) <= 1
    BY <1>1, <1>2, <2>1
  <2>3. \A i, j \in DOMAIN rows : i = j
    BY <1>2, <2>2
  <2> QED BY <1>3, <2>3 DEF OneSteer
<1>4. CASE q # "steer"
  <2>1. ToSet(rows) \subseteq ToSet(Line(InQueue(q)))
    <3>1. UserRows(queue[q]) = rows \o UserRows(Take(q).left)
      BY <1>1, UserRowsJoined
    <3>2. UserRows(Take(q).left) \in Seq(Rows)
      BY <1>1, UserRowsTyped
    <3>3. ToSet(rows \o UserRows(Take(q).left)) = ToSet(rows) \cup ToSet(UserRows(Take(q).left))
      BY <1>2, <3>2, JoinedRows
    <3> QED BY <3>1, <3>3, PlaceLines
  <2>2. ASSUME NEW row \in ToSet(rows), row \in Steers
        PROVE  FALSE
    <3>1. PICK m \in Msgs : row = User(m)
      BY <1>2, <2>2, SteersAre, MessageRow
    <3>2. m \in ToSet(sent[q]) /\ m \in ToSet(sent["steer"])
      BY <2>1, <2>2, <3>1, SteersAre DEF MessageInv, SentFirst
    <3> QED BY <1>4, <3>2 DEF MessageInv, SentOnce, ToSet, Sources, Queues
  <2> QED BY <1>4, <2>2 DEF OneSteer, ToSet
<1> QED BY <1>3, <1>4

\* The rows of a place have been steered before a step or never.
LEMMA SteersKept ==
  ASSUME TypeOK, MessageInv, CoreInv, [Next]_vars, NEW p \in Places, NEW row \in ToSet(Line(p))
  PROVE  row \in Steers' <=> row \in Steers
<1>1. CASE sent'["steer"] = sent["steer"]
  BY <1>1 DEF Steers
<1>2. ASSUME NEW q \in Queues, NEW m \in Msgs, Arrives(q, m, InQueue(q))
      PROVE  row \in Steers' <=> row \in Steers
  <2>1. sent \in [Sources -> Seq(Msgs)] /\ sent["steer"] \in Seq(Msgs) /\ "steer" \in Sources
    BY DEF TypeOK, Sources, Queues
  <2>2. /\ sent' = [sent EXCEPT ![q] = Append(@, m)]
        /\ \A x \in Sources : m \notin ToSet(sent[x])
    BY <1>2 DEF Arrives, Send
  <2>3. CASE q # "steer"
    BY <1>1, <2>1, <2>2, <2>3
  <2>4. CASE q = "steer"
    <3>1. User(m) # row
      BY <2>2 DEF MessageInv, SentFirst
    <3>2. sent'["steer"] = Append(sent["steer"], m)
      BY <2>1, <2>2, <2>4
    <3> DEFINE rows == UserRows(sent["steer"])
               last == User(m)
    <3>3. rows \in Seq(Rows) /\ last \in Rows /\ UserRows(sent'["steer"]) = Append(rows, last)
      BY <2>1, <3>2, UserRowsTyped, UserRowsAppend, UserRow
    <3> HIDE DEF rows, last
    <3>4. ToSet(Append(rows, last)) = ToSet(rows) \cup {last}
      BY <3>3, AppendElements
    <3>5. Steers' = ToSet(rows) \cup {last} /\ Steers = ToSet(rows) /\ last # row
      BY <3>1, <3>3, <3>4 DEF Steers, rows, last
    <3> QED BY <3>5
  <2> QED BY <2>3, <2>4
<1>3. ASSUME NEW c \in Callers, NEW m \in Msgs, Arrives("prompt", m, InHand(c))
      PROVE  row \in Steers' <=> row \in Steers
  <2>1. sent'["steer"] = sent["steer"]
    BY <1>3 DEF Arrives, Send, TypeOK, Sources, Queues
  <2> QED BY <1>1, <2>1
<1> QED BY <1>1, <1>2, <1>3, LineMoves DEF Thins, Carries

\* Rows that are no messages were not steered.
LEMMA NotSteered ==
  ASSUME TypeOK, NEW row, row.kind # "user"
  PROVE  row \notin Steers
BY SteersAre

\* A step that moves no message and opens no run keeps the invariant.
LEMMA SteerStays ==
  ASSUME SteerInv, Steers' = Steers, UNCHANGED <<pending, transcript, hand, skip, owner>>,
         \/ pc' = pc
         \/ pc' \in {"deliver", "streaming", "fail"}
         \/ pc = "start" /\ pc' = "prompts"
         \/ pc \notin {"prompts", "turn", "deliver", "streaming", "fail"} /\ pc' \notin {"start", "prompts"}
  PROVE  SteerInv'
BY DEF SteerInv, OneSteer

\* So does one that records a row of another kind.
LEMMA SteerBehind ==
  ASSUME TypeOK, SteerInv, Steers' = Steers, NEW row \in Rows, row \notin Steers,
         transcript' = Append(transcript, row), UNCHANGED <<hand, skip, owner>>,
         pending' = pending \/ pending' = <<>>, pc' = pc \/ pc' \notin {"start", "prompts"}
  PROVE  SteerInv'
<1>1. transcript \in Seq(Rows) /\ ToSet(<<>>) = {}
  BY DEF TypeOK, ToSet
<1>2. /\ transcript' # <<>> /\ Len(transcript') = Len(transcript) + 1 /\ Len(transcript) \in Nat
      /\ \A i \in 1..Len(transcript) : transcript'[i] = transcript[i]
      /\ transcript'[Len(transcript) + 1] = row /\ Last(transcript') = row
  BY <1>1, LastAppend DEF Last
<1>3. ASSUME NEW i \in 1..(Len(transcript') - 1)
      PROVE  ~ {transcript'[i], transcript'[i + 1]} \subseteq Steers
  <2>1. CASE i = Len(transcript)
    BY <1>2, <2>1
  <2>2. CASE i # Len(transcript)
    <3>1. i \in 1..(Len(transcript) - 1) /\ i + 1 \in 1..Len(transcript) /\ i \in 1..Len(transcript)
      BY <1>2, <2>2
    <3> QED BY <1>2, <3>1 DEF SteerInv
  <2> QED BY <2>1, <2>2
<1>4. OneSteer(pending')
  BY DEF SteerInv, OneSteer
<1>5. ToSet(pending') \cap Steers # {} => ToSet(pending) \cap Steers # {}
  BY <1>1
<1> QED BY ZenonT(60), <1>2, <1>3, <1>4, <1>5 DEF SteerInv, OneSteer

\* The message that is recorded may be steered, but then it is the only one in hand
\* and the row before it is none (process_events).
LEMMA SteerDelivered ==
  ASSUME TypeOK, SteerInv, Steers' = Steers, DeliverEffect
  PROVE  SteerInv'
<1> DEFINE row == Head(pending)
<1>0. /\ pending # <<>> /\ transcript' = Append(transcript, row) /\ pending' = Tail(pending)
      /\ UNCHANGED <<hand, skip, owner>> /\ pc \in {"prompts", "deliver"} /\ pc' \in {pc, "fail"}
  BY DEF DeliverEffect
<1>1. transcript \in Seq(Rows) /\ pending \in Seq(Rows)
  BY DEF TypeOK
<1>2. /\ row \in Rows /\ Len(pending) \in Nat \ {0} /\ row = pending[1]
      /\ DOMAIN pending = 1..Len(pending) /\ DOMAIN pending' = 1..(Len(pending) - 1)
      /\ \A i \in 1..(Len(pending) - 1) : pending'[i] = pending[i + 1]
  BY <1>0, <1>1
<1> HIDE DEF row
<1>3. /\ transcript' # <<>> /\ Len(transcript') = Len(transcript) + 1 /\ Len(transcript) \in Nat
      /\ \A i \in 1..Len(transcript) : transcript'[i] = transcript[i]
      /\ transcript'[Len(transcript) + 1] = row /\ Last(transcript') = row
      /\ transcript # <<>> => Last(transcript) = transcript[Len(transcript)]
  BY <1>0, <1>1, <1>2, LastAppend DEF Last
<1>4. row \in ToSet(pending)
  BY <1>2 DEF ToSet
<1>5. ASSUME NEW i \in 1..(Len(transcript') - 1)
      PROVE  ~ {transcript'[i], transcript'[i + 1]} \subseteq Steers
  <2>1. CASE i = Len(transcript)
    <3>1. transcript'[i] = Last(transcript) /\ transcript # <<>> /\ transcript'[i + 1] = row
      BY <1>3, <2>1
    <3> QED BY <1>4, <3>1 DEF SteerInv
  <2>2. CASE i # Len(transcript)
    <3>1. i \in 1..(Len(transcript) - 1) /\ i + 1 \in 1..Len(transcript) /\ i \in 1..Len(transcript)
      BY <1>3, <2>2
    <3> QED BY <1>3, <3>1 DEF SteerInv
  <2> QED BY <2>1, <2>2
<1>6. \A i \in DOMAIN pending' : i \in Int /\ i + 1 \in DOMAIN pending /\ pending'[i] = pending[i + 1]
  BY <1>2
<1>7. OneSteer(pending')
  BY <1>6 DEF SteerInv, OneSteer
<1>8. ToSet(pending') \subseteq ToSet(pending)
  BY <1>6 DEF ToSet
<1>9. ASSUME row \in Steers
      PROVE  ToSet(pending') \cap Steers = {}
  <2>1. \A i \in DOMAIN pending' : i + 1 # 1
    BY <1>2
  <2>2. 1 \in DOMAIN pending
    BY <1>2
  <2> QED BY <1>2, <1>6, <1>9, <2>1, <2>2 DEF SteerInv, OneSteer, ToSet
<1>10. row \in Steers /\ pc = "prompts" => skip[owner]
  BY <1>4 DEF SteerInv
<1> QED BY ZenonT(60), <1>0, <1>3, <1>5, <1>7, <1>8, <1>9, <1>10 DEF SteerInv, OneSteer

\* A poll comes when the last row recorded was not steered (run_loop).
LEMMA SteerPolled ==
  ASSUME CoreInv, MessageInv, SteerInv, SteerModes = {"one"}, Steers' = Steers, PollEffect
  PROVE  SteerInv'
<1>0. TypeOK
  BY DEF CoreInv
<1>1. /\ UNCHANGED <<transcript, hand, owner, phase>>
      /\ pc \in {"prompts", "steerPoll", "followPoll", "continuation"}
      /\ pc' \in {"turn", "followPoll", "continuation", "agentEnd", "fail"}
      /\ pending' # <<>> => pc' = "turn"
  BY DEF PollEffect
<1>2. ToSet(<<>>) = {} /\ ToSet(<<Continuation>>) \cap Steers = {}
  BY <1>0, NoteRow, NotSteered DEF ToSet
<1>3. /\ OneSteer(pending')
      /\ transcript # <<>> /\ Last(transcript) \in Steers => ToSet(pending') \cap Steers = {}
  <2>1. CASE pending' \in {<<>>, <<Continuation>>}
    BY <1>2, <2>1 DEF OneSteer, ToSet
  <2>2. ASSUME NEW q \in Queues, pending' = UserRows(Take(q).got),
               pc \in {"prompts", "steerPoll"} => q = "steer", pc = "prompts" => ~skip[owner]
        PROVE  /\ OneSteer(pending')
               /\ transcript # <<>> /\ Last(transcript) \in Steers => ToSet(pending') \cap Steers = {}
    BY <1>0, <1>1, <2>2, BatchSteers DEF SteerInv
  <2> QED BY <2>1, <2>2 DEF PollEffect
<1>4. transcript # <<>> /\ Last(transcript) \in Steers => pc' = "turn"
  BY <1>1 DEF SteerInv, PollEffect
<1>5. ASSUME NEW c \in Callers, ToSet(UserRows(hand[c])) \cap Steers # {}
      PROVE  skip'[c]
  <2>1. skip[c]
    BY <1>5 DEF SteerInv
  <2>2. hand[c] # <<>>
    <3>1. UserRows(<<>>) = <<>>
      BY DEF UserRows
    <3> QED BY <1>2, <1>5, <3>1
  <2>3. c # owner
    BY <2>2 DEF CoreInv, SlotInv
  <2> QED BY <2>1, <2>3 DEF PollEffect
<1> QED BY <1>1, <1>3, <1>4, <1>5 DEF SteerInv, OneSteer

\* Before it has registered a caller takes one steered message at most, and then it
\* is not to poll (run_queued_messages).
LEMMA SteerTaken ==
  ASSUME CoreInv, MessageInv, SteerInv, SteerModes = {"one"}, Steers' = Steers,
         NEW c \in Callers, BeforeRun(c)
  PROVE  SteerInv'
<1>0. /\ TypeOK /\ hand \in [Callers -> Seq(Msgs)] /\ skip \in [Callers -> BOOLEAN]
      /\ UserRows(<<>>) = <<>> /\ ToSet(<<>>) = {}
      /\ phase[c] # "admitted" => hand[c] = <<>>
  BY DEF CoreInv, TypeOK, SlotInv, UserRows, ToSet
<1>1. ASSUME OneSteer(UserRows(hand'[c])), ToSet(UserRows(hand'[c])) \cap Steers # {} => skip'[c],
             \A d \in Callers \ {c} : skip'[d] = skip[d] /\ hand'[d] = hand[d],
             UNCHANGED <<transcript, pending, pc, owner>>, owner # c
      PROVE  SteerInv'
  <2>1. pc \in {"prompts", "start"} => owner \in Callers \ {c}
    BY <1>0, <1>1 DEF CoreInv, SlotInv, TypeOK
  <2>2. pc \in {"prompts", "start"} => skip'[owner] = skip[owner]
    BY <1>1, <2>1
  <2> QED BY <1>1, <2>2 DEF SteerInv, OneSteer
<1>2. owner # c /\ UNCHANGED <<transcript, pending, pc, owner>>
  BY BeforeRunMoves DEF CoreInv, BeforeRunEffect, SlotInv
<1>3. CASE Continue(c)
  BY <1>1, <1>2, <1>3 DEF Continue, SteerInv
<1>4. ASSUME hand'[c] = <<>>, \A d \in Callers \ {c} : skip'[d] = skip[d] /\ hand'[d] = hand[d]
      PROVE  SteerInv'
  BY <1>0, <1>1, <1>2, <1>4 DEF OneSteer
<1>5. CASE ContinueBare(c) \/ Refused(c)
  BY <1>0, <1>4, <1>5 DEF ContinueBare, Refused
<1>6. CASE TakeQueued(c)
  <2> DEFINE q == QueuedFrom
  <2>1. q \in Queues /\ hand' = [hand EXCEPT ![c] = Take(q).got]
        /\ skip' = [skip EXCEPT ![c] = (q = "steer")]
    BY <1>6 DEF TakeQueued, QueuedFrom, Queues, SkipsPoll
  <2>2. /\ OneSteer(UserRows(Take(q).got))
        /\ q # "steer" => ToSet(UserRows(Take(q).got)) \cap Steers = {}
    BY <1>0, <2>1, BatchSteers
  <2> HIDE DEF q
  <2> QED BY <1>0, <1>1, <1>2, <2>1, <2>2
<1>7. ASSUME NEW m \in Msgs, Prompt(c, m)
      PROVE  SteerInv'
  <2>1. /\ hand'[c] = <<m>> /\ \A d \in Callers \ {c} : skip'[d] = skip[d] /\ hand'[d] = hand[d]
        /\ m \notin ToSet(sent["steer"])
    BY <1>0, <1>7 DEF Prompt, Send, Sources, Queues
  <2>2. \A i \in DOMAIN UserRows(<<m>>) : UserRows(<<m>>)[i] \notin Steers
    BY <1>0, <2>1, SteersAre DEF UserRows
  <2> QED BY <1>1, <1>2, <2>1, <2>2 DEF OneSteer, ToSet
<1> QED BY <1>3, <1>5, <1>6, <1>7 DEF BeforeRun

\* What is steered now is in no hands and not recorded (Agent::steer).
LEMMA SteerSent ==
  ASSUME CoreInv, MessageInv, SteerInv, [Next]_vars,
         UNCHANGED <<transcript, pending, hand, skip, pc, owner>>
  PROVE  SteerInv'
<1>1. \A p \in Places : \A row \in ToSet(Line(p)) : row \in Steers' <=> row \in Steers
  BY SteersKept DEF CoreInv
<1>2. /\ \A i \in DOMAIN transcript : transcript[i] \in Steers' <=> transcript[i] \in Steers
      /\ \A i \in DOMAIN pending : pending[i] \in Steers' <=> pending[i] \in Steers
      /\ \A c \in Callers : \A i \in DOMAIN UserRows(hand[c]) :
           UserRows(hand[c])[i] \in Steers' <=> UserRows(hand[c])[i] \in Steers
  BY <1>1, PlaceLines DEF ToSet
<1>3. /\ ToSet(pending) \cap Steers' = ToSet(pending) \cap Steers
      /\ \A c \in Callers : ToSet(UserRows(hand[c])) \cap Steers'
                              = ToSet(UserRows(hand[c])) \cap Steers
  BY <1>2 DEF ToSet
<1>4. /\ transcript # <<>> => (Last(transcript) \in Steers' <=> Last(transcript) \in Steers)
      /\ \A i \in 1..(Len(transcript) - 1) :
           {transcript[i], transcript[i + 1]} \subseteq Steers'
             => {transcript[i], transcript[i + 1]} \subseteq Steers
  <2>1. transcript \in Seq(Rows)
    BY DEF CoreInv, TypeOK
  <2>2. /\ transcript # <<>> => Len(transcript) \in DOMAIN transcript
        /\ \A i \in 1..(Len(transcript) - 1) : i \in DOMAIN transcript /\ i + 1 \in DOMAIN transcript
    BY <2>1
  <2> QED BY <1>2, <2>2 DEF Last
<1>5. OneSteer(pending)' /\ \A c \in Callers : OneSteer(UserRows(hand[c]))'
  BY <1>2 DEF SteerInv, OneSteer
<1> QED BY <1>3, <1>4, <1>5 DEF SteerInv

\* The invariant is kept.
LEMMA SteerKept ==
  ASSUME CoreInv, MessageInv, SteerInv, SteerModes = {"one"}, [Next]_vars
  PROVE  SteerInv'
<1>0. TypeOK
  BY DEF CoreInv
<1>1. sent' = sent => Steers' = Steers
  BY DEF Steers
<1>2. CASE ToolMove
  BY <1>0, <1>1, <1>2, ToolMoves, SteerStays
<1>3. CASE ControlMove
  <2>1. ControlEffect
    BY <1>3, ControlMoves DEF CoreInv
  <2> QED BY <1>1, <2>1, SteerStays DEF ControlEffect, Onward
<1>4. CASE Response
  <2>1. ResponseEffect
    BY <1>4, Responses DEF CoreInv
  <2>2. PICK row \in Rows : transcript' = Append(transcript, row) /\ row.kind = "assistant"
    BY <2>1, FailureRow, AssistantRow DEF ResponseEffect
  <2>3. row \notin Steers
    BY <1>0, <2>2, NotSteered
  <2>4. pc' \notin {"start", "prompts"} /\ UNCHANGED <<sent, hand, skip, owner, pending>>
    BY <2>1 DEF ResponseEffect
  <2> QED BY <1>0, <1>1, <2>2, <2>3, <2>4, SteerBehind
<1>5. CASE PollMove
  <2>1. PollEffect
    BY <1>5, Polls DEF CoreInv
  <2> QED BY <1>1, <2>1, SteerPolled DEF PollEffect
<1>6. CASE EmitPrompt \/ Deliver
  <2>1. DeliverEffect
    BY <1>0, <1>6, Deliveries
  <2> QED BY <1>0, <1>1, <2>1, SteerDelivered DEF DeliverEffect
<1>7. ASSUME NEW k \in Call, Answer(k)
      PROVE  SteerInv'
  <2>1. /\ transcript' = Append(transcript, Result(k)) /\ Result(k) \in Rows /\ Result(k) \notin Steers
        /\ UNCHANGED <<sent, hand, skip, owner, pending>> /\ pc' \notin {"start", "prompts"}
    BY <1>0, <1>7, ResultRow, NotSteered DEF Answer, Emit, Goto, ListenerError
  <2> QED BY <1>0, <1>1, <2>1, SteerBehind
<1>8. CASE ToolsDone
  BY <1>1, <1>8, SteerStays DEF ToolsDone, Goto
<1>9. CASE Boundary
  <2>1. CASE Begin \/ AgentEnd
    BY <1>1, <2>1, SteerStays DEF Begin, AgentEnd
  <2>2. CASE RunFails
    <3>1. Failure \in Rows /\ Failure \notin Steers
      BY <1>0, FailureRow, NotSteered
    <3> QED BY <1>0, <1>1, <2>2, <3>1, SteerBehind DEF RunFails
  <2>3. CASE Finish
    <3>1. /\ pc = "finish" /\ pc' = "off" /\ pending' = <<>>
          /\ UNCHANGED <<sent, transcript, hand, skip>>
      BY <2>3 DEF Finish, Goto
    <3>2. ToSet(<<>>) = {} /\ DOMAIN <<>> = {}
      BY DEF ToSet
    <3> QED BY <1>1, <3>1, <3>2 DEF SteerInv, OneSteer
  <2> QED BY <1>9, <2>1, <2>2, <2>3 DEF Boundary
<1>10. CASE UserStep
  <2>1. CASE AppendMessages
    <3>1. Note \in Rows /\ Note \notin Steers
      BY <1>0, NoteRow, NotSteered
    <3> QED BY <1>0, <1>1, <2>1, <3>1, SteerBehind DEF AppendMessages
  <2>2. CASE Reset
    <3>1. transcript' = <<>> /\ UNCHANGED <<sent, pending, hand, skip, pc, owner>>
      BY <2>2 DEF Reset
    <3>2. \A i \in 1..(Len(<<>>) - 1) : FALSE
      OBVIOUS
    <3> QED BY <1>1, <3>1, <3>2 DEF SteerInv, OneSteer
  <2>3. CASE UNCHANGED <<transcript, pending, hand, skip, pc, owner>>
    BY <2>3, SteerSent
  <2> QED BY <1>10, <2>1, <2>2, <2>3 DEF UserStep, Enqueue, ClearQueue, RemoveQueued, SetMode, Abort
<1>11. ASSUME NEW c \in Callers, BeforeRun(c)
       PROVE  SteerInv'
  <2>1. sent'["steer"] = sent["steer"]
    BY <1>0, <1>11 DEF BeforeRun, Continue, TakeQueued, Drain, ContinueBare, Refused, Prompt, Send,
                       TypeOK, Sources, Queues
  <2>2. Steers' = Steers
    BY <2>1 DEF Steers
  <2> QED BY <1>11, <2>2, SteerTaken
<1>12. ASSUME NEW c \in Callers, Register(c)
       PROVE  SteerInv'
  <2>1. /\ pending' = UserRows(hand[c]) /\ hand' = [hand EXCEPT ![c] = <<>>] /\ owner' = c
        /\ pc = "off" /\ pc' = "start" /\ UNCHANGED <<sent, transcript, skip>>
    BY <1>12 DEF Register, CoreInv, SlotInv
  <2>2. UserRows(<<>>) = <<>> /\ ToSet(<<>>) = {} /\ DOMAIN <<>> = {}
    BY DEF UserRows, ToSet
  <2>3. \A d \in Callers : hand'[d] = hand[d] \/ hand'[d] = <<>>
    BY <1>0, <2>1 DEF TypeOK
  <2> QED BY <1>1, <2>1, <2>2, <2>3 DEF SteerInv, OneSteer
<1>13. CASE UNCHANGED vars
  BY <1>1, <1>13, SteerStays
<1> QED BY <1>2, <1>3, <1>4, <1>5, <1>6, <1>7, <1>8, <1>9, <1>10, <1>11, <1>12, <1>13,
           SortedSteps DEF LoopMove, RecordMove

\* In one-at-a-time mode no two steering messages stand next to each other in the
\* transcript, whichever of the callers' runs recorded them: there is a response in
\* between (skip_initial_steering_poll, run_loop).
THEOREM SteeredOneByOne == Spec => []OneSteerPerTurn
<1>1. CASE SteerModes # {"one"}
  <2>1. CoreInv => OneSteerPerTurn
    BY <1>1 DEF OneSteerPerTurn
  <2> QED BY <2>1, CoreHolds, PTL
<1>2. CASE SteerModes = {"one"}
  <2>1. Init => SteerInv
    <3> SUFFICES ASSUME Init
                 PROVE  SteerInv
      OBVIOUS
    <3>1. UserRows(<<>>) = <<>> /\ ToSet(<<>>) = {} /\ DOMAIN <<>> = {}
      BY DEF UserRows, ToSet
    <3>2. pending = <<>> /\ transcript = <<>> /\ pc = "off" /\ \A c \in Callers : hand[c] = <<>>
      BY DEF Init
    <3>3. \A i \in 1..(Len(<<>>) - 1) : FALSE
      OBVIOUS
    <3> QED BY <3>1, <3>2, <3>3 DEF SteerInv, OneSteer
  <2>2. CoreInv /\ MessageInv /\ SteerInv /\ [Next]_vars => SteerInv'
    BY <1>2, SteerKept
  <2>3. SteerInv => OneSteerPerTurn
    BY DEF SteerInv, OneSteerPerTurn, Steers
  <2> QED BY <2>1, <2>2, <2>3, CoreHolds, MessagesHold, PTL DEF Spec
<1> QED BY <1>1, <1>2

=============================================================================
