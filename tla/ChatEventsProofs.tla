-------------------------- MODULE ChatEventsProofs --------------------------
(***************************************************************************)
(* What a client of the HTTP API sees of a chat, for every number of       *)
(* chats, turns and subscribers and every size of their channels; and the  *)
(* session files under those chats (SessionStore), for every number of     *)
(* saves, lists and crashes.                                               *)
(***************************************************************************)
EXTENDS ChatEvents, SessionStore, SequenceTheorems, TLAPS

Kinds == {"started", "delta", "finished", "failed"}
Events == [kind : Kinds, turn : Turns]

\* What a subscriber's handler and channel hold.
StreamTypes ==
    /\ watching \in [Subscribers -> Chats \cup {None}]
    /\ since \in [Subscribers -> Nat]
    /\ buffer \in [Subscribers -> Seq(Nat)]
    /\ received \in [Subscribers -> Nat]
    /\ last \in [Subscribers -> Nat]
    /\ missed \in [Subscribers -> Nat]
    /\ log \in [Chats -> Seq(Events)]

\* The channel b of a subscriber that joined after the first n events and got
\* event l last, when m events are published: it holds later events of the
\* log, in their order.
InOrder(b, l, n, m) ==
    /\ l <= m
    /\ \A i \in 1..Len(b) : b[i] \in n + 1 .. m
    /\ \A i \in 1..Len(b) : l < b[i]
    /\ \A i, j \in 1..Len(b) : i < j => b[i] < b[j]

\* A request that is not subscribed has nothing; of one that is every event
\* since then was written, waits in its channel or was dropped.
StreamInOrder(s) ==
    /\ watching[s] = None =>
         /\ buffer[s] = <<>>
         /\ received[s] = 0 /\ last[s] = 0 /\ missed[s] = 0
    /\ watching[s] # None =>
         LET published == Len(log[watching[s]]) IN
         /\ InOrder(buffer[s], last[s], since[s], published)
         /\ since[s] + received[s] + Len(buffer[s]) + missed[s] = published

StreamsInOrder == \A s \in Subscribers : StreamInOrder(s)

-----------------------------------------------------------------------------
(* Lemmas about one channel                                                *)

\* The event after the last one of the log goes to the end of a channel.
LEMMA AppendInOrder ==
    ASSUME NEW b \in Seq(Nat), NEW l \in Nat, NEW n \in Nat, NEW m \in Nat,
           n <= m, InOrder(b, l, n, m)
    PROVE  /\ InOrder(Append(b, m + 1), l, n, m + 1)
           /\ InOrder(b, l, n, m + 1)
<1>1. /\ Len(Append(b, m + 1)) = Len(b) + 1
      /\ Append(b, m + 1)[Len(b) + 1] = m + 1
      /\ \A i \in 1..Len(b) : Append(b, m + 1)[i] = b[i]
  OBVIOUS
<1>2. Len(b) \in Nat /\ \A i \in 1..Len(b) : b[i] \in Nat
  OBVIOUS
<1>3. \A i \in 1..(Len(b) + 1) : i \in 1..Len(b) \/ i = Len(b) + 1
  BY <1>2
<1> QED
  BY <1>1, <1>2, <1>3 DEF InOrder

\* The oldest event of a channel is written to the client.
LEMMA TailInOrder ==
    ASSUME NEW b \in Seq(Nat), b # <<>>, NEW l \in Nat, NEW n \in Nat,
           NEW m \in Nat, InOrder(b, l, n, m)
    PROVE  InOrder(Tail(b), Head(b), n, m)
<1>1. /\ Len(b) \in Nat /\ Len(b) >= 1 /\ Len(Tail(b)) = Len(b) - 1
      /\ Head(b) = b[1] /\ \A i \in 1..Len(Tail(b)) : Tail(b)[i] = b[i + 1]
  OBVIOUS
<1>2. \A i \in 1..Len(Tail(b)) : i + 1 \in 1..Len(b) /\ 1 < i + 1
  BY <1>1
<1>3. 1 \in 1..Len(b) /\ b[1] \in Nat
  BY <1>1
<1> QED
  BY <1>1, <1>2, <1>3 DEF InOrder

-----------------------------------------------------------------------------
(* The streams                                                             *)

\* publish sends to each subscriber that has room (sse.go:42-56).
LEMMA PublishInOrder ==
    ASSUME StreamTypes, StreamsInOrder, NEW c \in Chats, NEW t \in Turns,
           NEW kind \in Kinds, Publish(c, kind, t)
    PROVE  StreamTypes' /\ StreamsInOrder'
<1> DEFINE e == [kind |-> kind, turn |-> t]
<1>1. e \in Events
  BY DEF Events
<1>2. /\ log' = [log EXCEPT ![c] = Append(@, e)]
      /\ UNCHANGED <<watching, since, received, last>>
  BY DEF Publish
<1>3. /\ log' \in [Chats -> Seq(Events)]
      /\ Len(log'[c]) = Len(log[c]) + 1 /\ Len(log[c]) \in Nat
      /\ \A d \in Chats : d # c => log'[d] = log[d]
  BY <1>1, <1>2 DEF StreamTypes
<1>4. ASSUME NEW s \in Subscribers
      PROVE  /\ buffer'[s] = IF watching[s] = c /\ HasRoom(s)
                             THEN Append(buffer[s], Len(log[c]) + 1)
                             ELSE buffer[s]
             /\ missed'[s] = IF watching[s] = c /\ ~HasRoom(s)
                             THEN missed[s] + 1 ELSE missed[s]
  BY DEF Publish, SubscribersOf
<1>5. /\ buffer' \in [Subscribers -> Seq(Nat)]
      /\ missed' \in [Subscribers -> Nat]
  <2>1. ASSUME NEW s \in Subscribers
        PROVE  buffer'[s] \in Seq(Nat) /\ missed'[s] \in Nat
    <3>1. buffer[s] \in Seq(Nat) /\ missed[s] \in Nat
      BY DEF StreamTypes
    <3>2. Append(buffer[s], Len(log[c]) + 1) \in Seq(Nat)
      BY <1>3, <3>1
    <3>3. buffer'[s] \in Seq(Nat)
      BY <1>4, <3>1, <3>2
    <3>4. missed'[s] = missed[s] \/ missed'[s] = missed[s] + 1
      BY <1>4
    <3> QED
      BY <3>1, <3>3, <3>4
  <2>2. /\ buffer' = [s \in Subscribers |-> buffer'[s]]
        /\ missed' = [s \in Subscribers |-> missed'[s]]
    BY DEF Publish
  <2> QED
    BY <2>1, <2>2
<1>6. StreamTypes'
  BY <1>2, <1>3, <1>5 DEF StreamTypes
<1>7. ASSUME NEW s \in Subscribers PROVE StreamInOrder(s)'
  <2>0. /\ StreamInOrder(s)
        /\ UNCHANGED <<watching[s], since[s], received[s], last[s]>>
    BY <1>2 DEF StreamsInOrder
  <2>1. CASE watching[s] # c
    <3>1. UNCHANGED <<buffer[s], missed[s]>>
      BY <1>4, <2>1
    <3>2. watching[s] # None => log'[watching[s]] = log[watching[s]]
      BY <1>3, <2>1 DEF StreamTypes
    <3> QED
      BY <2>0, <3>1, <3>2 DEF StreamInOrder
  <2>2. CASE watching[s] = c
    <3>1. c # None
      BY EventsAssumption DEF EventsAssumption
    <3>2. /\ InOrder(buffer[s], last[s], since[s], Len(log[c]))
          /\ since[s] + received[s] + Len(buffer[s]) + missed[s] = Len(log[c])
      BY <2>0, <2>2, <3>1 DEF StreamInOrder
    <3>3. /\ buffer[s] \in Seq(Nat) /\ last[s] \in Nat /\ since[s] \in Nat
          /\ received[s] \in Nat /\ missed[s] \in Nat /\ Len(buffer[s]) \in Nat
      BY DEF StreamTypes
    <3>4. since[s] <= Len(log[c])
      BY <1>3, <3>2, <3>3
    <3>5. /\ InOrder(Append(buffer[s], Len(log[c]) + 1), last[s], since[s],
                     Len(log[c]) + 1)
          /\ InOrder(buffer[s], last[s], since[s], Len(log[c]) + 1)
      BY <1>3, <3>2, <3>3, <3>4, AppendInOrder
    <3>6. InOrder(buffer'[s], last[s], since[s], Len(log'[c]))
      BY <1>3, <1>4, <3>5
    <3>7. since[s] + received[s] + Len(buffer'[s]) + missed'[s] = Len(log'[c])
      <4>1. Len(Append(buffer[s], Len(log[c]) + 1)) = Len(buffer[s]) + 1
        BY <3>3
      <4>2. \/ Len(buffer'[s]) = Len(buffer[s]) + 1 /\ missed'[s] = missed[s]
            \/ Len(buffer'[s]) = Len(buffer[s]) /\ missed'[s] = missed[s] + 1
        BY <1>4, <2>2, <4>1
      <4>3. since[s] + received[s] + Len(buffer[s]) + missed[s] = Len(log[c])
        BY <3>2
      <4>4. /\ Len(log'[c]) = Len(log[c]) + 1 /\ Len(log[c]) \in Nat
            /\ since[s] \in Nat /\ received[s] \in Nat /\ missed[s] \in Nat
            /\ Len(buffer[s]) \in Nat
        BY <1>3, <3>3
      <4>5. /\ since[s] + received[s] + (Len(buffer[s]) + 1) + missed[s]
                 = Len(log[c]) + 1
            /\ since[s] + received[s] + Len(buffer[s]) + (missed[s] + 1)
                 = Len(log[c]) + 1
        <5>1. PICK k \in Nat, m \in Nat : k = Len(buffer[s]) /\ m = Len(log[c])
          BY <4>4
        <5>2. since[s] + received[s] + k + missed[s] = m
          BY <4>3, <5>1
        <5>3. /\ since[s] + received[s] + (k + 1) + missed[s] = m + 1
              /\ since[s] + received[s] + k + (missed[s] + 1) = m + 1
          <6>1. since[s] \in Nat /\ received[s] \in Nat /\ missed[s] \in Nat
            BY <4>4
          <6> QED
            BY <5>2, <6>1
        <5> QED
          BY <5>1, <5>3
      <4> QED
        BY <4>2, <4>4, <4>5
    <3> QED
      BY <2>0, <2>2, <3>1, <3>6, <3>7 DEF StreamInOrder
  <2> QED
    BY <2>1, <2>2
<1> QED
  BY <1>6, <1>7 DEF StreamsInOrder

\* The streams that end leave nothing behind.
LEMMA CutInOrder ==
    ASSUME StreamTypes, StreamsInOrder, NEW S, Cut(S), UNCHANGED log
    PROVE  StreamTypes' /\ StreamsInOrder'
<1>1. StreamTypes'
  BY DEF Cut, StreamTypes
<1>2. ASSUME NEW s \in Subscribers PROVE StreamInOrder(s)'
  <2>1. CASE s \in S
    BY <2>1 DEF Cut, StreamInOrder
  <2>2. CASE s \notin S
    BY <2>2 DEF Cut, StreamInOrder, StreamsInOrder
  <2> QED
    BY <2>1, <2>2
<1> QED
  BY <1>1, <1>2 DEF StreamsInOrder

LEMMA TurnPublishes ==
    ASSUME NEW t \in Turns, Turn(t)
    PROVE  \/ \E kind \in Kinds : Publish(ChatOf[t], kind, t)
           \/ UNCHANGED <<log, subVars>>
<1>1. CASE Start(t)
  <2>1. Publish(ChatOf[t], "started", t)
    BY <1>1 DEF Start
  <2> QED
    BY <2>1 DEF Kinds
<1>2. CASE Emit(t)
  <2>1. Publish(ChatOf[t], "delta", t)
    BY <1>2 DEF Emit
  <2> QED
    BY <2>1 DEF Kinds
<1>3. CASE Finish(t)
  <2>1. \/ Publish(ChatOf[t], "finished", t)
        \/ Publish(ChatOf[t], "failed", t)
    BY <1>3 DEF Finish
  <2> QED
    BY <2>1 DEF Kinds
<1>4. CASE Execute(t) \/ Save(t) \/ SaveFails(t)
  BY <1>4 DEF Execute, Save, SaveFails
<1> QED
  BY <1>1, <1>2, <1>3, <1>4 DEF Turn

LEMMA StepInOrder ==
    ASSUME StreamTypes, StreamsInOrder, [Next]_vars
    PROVE  StreamTypes' /\ StreamsInOrder'
<1>1. CASE UNCHANGED <<log, watching, since, buffer, received, last, missed>>
  BY <1>1 DEF StreamTypes, StreamsInOrder, StreamInOrder
<1>2. CASE \E t \in Turns : Turn(t)
  <2>1. PICK t \in Turns : Turn(t)
    BY <1>2
  <2>2. ChatOf[t] \in Chats
    BY EventsAssumption DEF EventsAssumption
  <2> QED
    BY <1>1, <2>1, <2>2, TurnPublishes, PublishInOrder DEF subVars
<1>3. CASE \E s \in Subscribers, c \in Chats : Subscribe(s, c)
  <2>1. PICK s \in Subscribers, c \in Chats : Subscribe(s, c)
    BY <1>3
  <2>2. /\ watching' = [watching EXCEPT ![s] = c] /\ watching[s] = None
        /\ since' = [since EXCEPT ![s] = Len(log[c])]
        /\ UNCHANGED <<log, buffer, received, last, missed>>
    BY <2>1 DEF Subscribe
  <2>3. Len(log[c]) \in Nat /\ StreamTypes'
    BY <2>2 DEF StreamTypes
  <2>4. StreamInOrder(s)'
    <3>1. /\ buffer'[s] = <<>> /\ received'[s] = 0
          /\ last'[s] = 0 /\ missed'[s] = 0
      BY <2>2 DEF StreamsInOrder, StreamInOrder
    <3>2. /\ watching'[s] = c /\ since'[s] = Len(log[c])
          /\ log'[watching'[s]] = log[c]
      BY <2>2 DEF StreamTypes
    <3>3. InOrder(<<>>, 0, Len(log[c]), Len(log[c]))
      BY <2>3 DEF InOrder
    <3>4. c # None
      BY EventsAssumption DEF EventsAssumption
    <3> QED
      BY <2>3, <3>1, <3>2, <3>3, <3>4 DEF StreamInOrder
  <2>5. ASSUME NEW u \in Subscribers \ {s} PROVE StreamInOrder(u)'
    <3>1. watching'[u] = watching[u] /\ since'[u] = since[u]
      BY <2>2 DEF StreamTypes
    <3> QED
      BY <2>2, <3>1 DEF StreamsInOrder, StreamInOrder
  <2> QED
    BY <2>3, <2>4, <2>5 DEF StreamsInOrder
<1>4. CASE \E s \in Subscribers : Deliver(s)
  <2>1. PICK s \in Subscribers : Deliver(s)
    BY <1>4
  <2>2. /\ watching[s] # None /\ buffer[s] # <<>>
        /\ received' = [received EXCEPT ![s] = @ + 1]
        /\ last' = [last EXCEPT ![s] = Head(buffer[s])]
        /\ buffer' = [buffer EXCEPT ![s] = Tail(@)]
        /\ UNCHANGED <<log, watching, since, missed>>
    BY <2>1 DEF Deliver
  <2>3. /\ buffer[s] \in Seq(Nat) /\ Head(buffer[s]) \in Nat
        /\ Tail(buffer[s]) \in Seq(Nat) /\ Len(buffer[s]) \in Nat
        /\ Len(Tail(buffer[s])) = Len(buffer[s]) - 1
    BY <2>2 DEF StreamTypes
  <2>4. StreamTypes'
    BY <2>2, <2>3 DEF StreamTypes
  <2>5. StreamInOrder(s)'
    <3> DEFINE published == Len(log[watching[s]])
    <3>1. /\ InOrder(buffer[s], last[s], since[s], published)
          /\ since[s] + received[s] + Len(buffer[s]) + missed[s] = published
      BY <2>2 DEF StreamsInOrder, StreamInOrder
    <3>2. /\ last[s] \in Nat /\ since[s] \in Nat /\ published \in Nat
          /\ received[s] \in Nat /\ missed[s] \in Nat
      BY <2>2 DEF StreamTypes
    <3>3. InOrder(Tail(buffer[s]), Head(buffer[s]), since[s], published)
      BY <2>2, <2>3, <3>1, <3>2, TailInOrder
    <3>4. since[s] + (received[s] + 1) + Len(Tail(buffer[s])) + missed[s]
            = published
      <4>1. since[s] + received[s] + Len(buffer[s]) + missed[s] = published
        BY <3>1
      <4>2. /\ Len(Tail(buffer[s])) = Len(buffer[s]) - 1
            /\ Len(buffer[s]) \in Nat
        BY <2>3
      <4> HIDE DEF published
      <4>3. since[s] + (received[s] + 1) + (Len(buffer[s]) - 1) + missed[s]
              = published
        <5>1. PICK k \in Nat : k = Len(buffer[s])
          BY <4>2
        <5>2. since[s] + received[s] + k + missed[s] = published
          BY <4>1, <5>1
        <5>3. since[s] + (received[s] + 1) + (k - 1) + missed[s] = published
          BY <3>2, <5>2
        <5> QED
          BY <5>1, <5>3
      <4> QED
        BY <4>2, <4>3
    <3>5. /\ received'[s] = received[s] + 1 /\ last'[s] = Head(buffer[s])
          /\ buffer'[s] = Tail(buffer[s])
      BY <2>2 DEF StreamTypes
    <3> QED
      BY <2>2, <3>3, <3>4, <3>5 DEF StreamInOrder
  <2>6. ASSUME NEW u \in Subscribers \ {s} PROVE StreamInOrder(u)'
    <3>1. UNCHANGED <<received[u], last[u], buffer[u]>>
      BY <2>2 DEF StreamTypes
    <3> QED
      BY <2>2, <3>1 DEF StreamsInOrder, StreamInOrder
  <2> QED
    BY <2>4, <2>5, <2>6 DEF StreamsInOrder
<1>5. CASE \E s \in Subscribers : Unsubscribe(s)
  BY <1>5, CutInOrder DEF Unsubscribe
<1>6. CASE Crash
  BY <1>6, CutInOrder DEF Crash
<1>7. CASE \/ \E c \in Chats : CreateChat(c)
           \/ \E s \in Subscribers : Disconnect(s)
  BY <1>1, <1>7 DEF CreateChat, Disconnect, subVars
<1> QED
  BY <1>1, <1>2, <1>3, <1>4, <1>5, <1>6, <1>7 DEF Next, vars

\* A subscriber's client and channel have the events published since it
\* subscribed, in order and without one twice, and every missing one was
\* dropped while its own channel was full - whatever the other subscribers
\* do, whoever is gone and however often the process dies (sse.go:27-56).
THEOREM StreamsFollowTheLog == Spec => []SubscribersSeeTheLog
<1>1. Init => StreamTypes /\ StreamsInOrder
  BY DEF Init, StreamTypes, StreamsInOrder, StreamInOrder
<1>2. StreamTypes /\ StreamsInOrder /\ [Next]_vars
        => (StreamTypes /\ StreamsInOrder)'
  BY StepInOrder
<1>3. StreamTypes /\ StreamsInOrder => SubscribersSeeTheLog
  <2> SUFFICES ASSUME StreamTypes, StreamsInOrder,
                      NEW s \in Subscribers, watching[s] # None
               PROVE  LET pending == <<last[s]>> \o buffer[s] IN
        /\ \A i \in 1..Len(buffer[s]) : pending[i] < pending[i + 1]
        /\ \A i \in 1..Len(buffer[s]) :
             buffer[s][i] \in since[s] + 1 .. Len(log[watching[s]])
        /\ received[s] + Len(buffer[s]) + missed[s]
             = Len(log[watching[s]]) - since[s]
    BY DEF SubscribersSeeTheLog
  <2> DEFINE b == buffer[s]
             pending == <<last[s]>> \o b
  <2>1. /\ b \in Seq(Nat) /\ last[s] \in Nat /\ since[s] \in Nat
        /\ received[s] \in Nat /\ missed[s] \in Nat /\ Len(b) \in Nat
        /\ Len(log[watching[s]]) \in Nat
    BY DEF StreamTypes
  <2>2. /\ InOrder(b, last[s], since[s], Len(log[watching[s]]))
        /\ since[s] + received[s] + Len(b) + missed[s]
             = Len(log[watching[s]])
    BY DEF StreamsInOrder, StreamInOrder
  <2>3. pending[1] = last[s] /\ \A i \in 1..Len(b) : pending[i + 1] = b[i]
    BY <2>1
  <2>4. ASSUME NEW i \in 1..Len(b) PROVE pending[i] < pending[i + 1]
    <3>1. CASE i = 1
      BY <2>2, <2>3, <3>1 DEF InOrder
    <3>2. CASE i # 1
      <4>1. i - 1 \in 1..Len(b) /\ i - 1 < i /\ (i - 1) + 1 = i
        BY <2>1, <3>2
      <4>2. pending[i] = b[i - 1]
        BY <2>3, <4>1
      <4> QED
        BY <2>2, <2>3, <4>1, <4>2 DEF InOrder
    <3> QED
      BY <3>1, <3>2
  <2>5. received[s] + Len(b) + missed[s] = Len(log[watching[s]]) - since[s]
    <3>1. since[s] + received[s] + Len(b) + missed[s] = Len(log[watching[s]])
      BY <2>2
    <3> HIDE DEF b
    <3> QED
      BY <2>1, <3>1
  <2>6. \A i \in 1..Len(b) : b[i] \in since[s] + 1 .. Len(log[watching[s]])
    BY <2>2 DEF InOrder
  <2> QED
    BY <2>4, <2>5, <2>6
<1> QED
  BY <1>1, <1>2, <1>3, PTL DEF Spec

-----------------------------------------------------------------------------
(* The messages of the chat                                                *)

TurnSteps == {"unsent", "running", "executed", "saved", "ended"}
Active(t) == pc[t] \in {"running", "executed", "saved"}

TurnTypes ==
    /\ pc \in [Turns -> TurnSteps]
    /\ files \in [Chats -> (SUBSET Messages) \cup {None}]
    /\ log \in [Chats -> Seq(Events)]
    /\ draft \in [Turns -> (SUBSET Messages) \cup {None}]
    /\ \A t \in Turns : Active(t) => draft[t] \in SUBSET Messages

\* A turn begins when the earlier ones of its chat have ended.
OneAtATime ==
    \A t, u \in Turns :
        ChatOf[t] = ChatOf[u] /\ t < u /\ pc[u] # "unsent" => pc[t] = "ended"

\* The answer to turn t, and that events e announce it only if M has it.
AnswerOf(t) == [turn |-> t, answered |-> TRUE]
Covers(M, e) ==
    \A i \in 1..Len(e) : e[i].kind = "finished" => AnswerOf(e[i].turn) \in M

\* What was announced is in the file and in what a turn under way will save;
\* the file has the answer a turn is about to announce.
AnswersAreKept ==
    /\ \A c \in Chats : Covers(Loaded(c), log[c])
    /\ \A t \in Turns : Active(t) => Covers(draft[t], log[ChatOf[t]])
    /\ \A t \in Turns : pc[t] = "saved" /\ Answered(t) =>
                            AnswerOf(t) \in Loaded(ChatOf[t])

KeptInv == TurnTypes /\ OneAtATime /\ AnswersAreKept

LEMMA ChatTypes == \A t \in Turns : ChatOf[t] \in Chats /\ t \in Nat
  BY EventsAssumption DEF EventsAssumption

\* No two turns of a chat are under way.
LEMMA AloneInChat ==
    ASSUME TurnTypes, OneAtATime, NEW t \in Turns, NEW u \in Turns,
           ChatOf[t] = ChatOf[u], t # u,
           Active(t) \/ (\A w \in Turns : ChatOf[w] = ChatOf[t] /\ w < t =>
                                              pc[w] = "ended"),
           pc[t] # "ended"
    PROVE  ~Active(u)
<1>1. t < u \/ u < t
  BY ChatTypes
<1>2. CASE t < u
  BY <1>2 DEF OneAtATime, Active
<1>3. CASE u < t
  <2>1. pc[u] = "ended"
    BY <1>3 DEF OneAtATime, Active
  <2> QED
    BY <2>1 DEF Active
<1> QED
  BY <1>1, <1>2, <1>3

LEMMA CoversAppend ==
    ASSUME NEW M, NEW e \in Seq(Events), NEW x \in Events, Covers(M, e),
           x.kind = "finished" => AnswerOf(x.turn) \in M
    PROVE  Covers(M, Append(e, x))
<1>1. /\ Len(Append(e, x)) = Len(e) + 1 /\ Append(e, x)[Len(e) + 1] = x
      /\ \A i \in 1..Len(e) : Append(e, x)[i] = e[i]
  OBVIOUS
<1>2. \A i \in 1..(Len(e) + 1) : i \in 1..Len(e) \/ i = Len(e) + 1
  OBVIOUS
<1> QED
  BY <1>1, <1>2 DEF Covers

\* A turn begins (http.go:267-297).
LEMMA StartKeeps ==
    ASSUME KeptInv, NEW t \in Turns, Start(t)
    PROVE  KeptInv'
<1> DEFINE c == ChatOf[t]
           e == [kind |-> "started", turn |-> t]
<1>1. /\ pc[t] = "unsent" /\ pc' = [pc EXCEPT ![t] = "running"]
      /\ draft' = [draft EXCEPT ![t] = Loaded(c)]
      /\ log' = [log EXCEPT ![c] = Append(@, e)]
      /\ UNCHANGED files
      /\ \A u \in Turns : ChatOf[u] = c /\ u < t => pc[u] = "ended"
  BY DEF Start, Publish
<1>2. c \in Chats /\ e \in Events /\ Loaded(c) \in SUBSET Messages
  <2>1. c \in Chats /\ e \in Events
    BY ChatTypes DEF Events, Kinds
  <2>2. Loaded(c) \in SUBSET Messages
    BY <2>1 DEF Loaded, KeptInv, TurnTypes
  <2> QED
    BY <2>1, <2>2
<1>3. TurnTypes'
  <2>1. /\ pc' \in [Turns -> TurnSteps] /\ log' \in [Chats -> Seq(Events)]
        /\ draft' \in [Turns -> (SUBSET Messages) \cup {None}]
    BY <1>1, <1>2 DEF KeptInv, TurnTypes, TurnSteps
  <2>2. ASSUME NEW u \in Turns, Active(u)' PROVE draft'[u] \in SUBSET Messages
    BY <1>1, <1>2, <2>2 DEF KeptInv, TurnTypes, Active
  <2> QED
    BY <1>1, <2>1, <2>2 DEF KeptInv, TurnTypes
<1>4. OneAtATime'
  <2> SUFFICES ASSUME NEW u \in Turns, NEW w \in Turns, ChatOf[u] = ChatOf[w],
                      u < w, pc'[w] # "unsent"
               PROVE  pc'[u] = "ended"
    BY DEF OneAtATime
  <2>1. CASE w = t
    BY <1>1, <2>1, ChatTypes DEF KeptInv, TurnTypes
  <2>2. CASE w # t
    <3>1. pc[u] = "ended"
      BY <1>1, <2>2 DEF KeptInv, TurnTypes, OneAtATime
    <3> QED
      BY <1>1, <3>1 DEF KeptInv, TurnTypes
  <2> QED
    BY <2>1, <2>2
<1>5. ASSUME NEW d \in Chats PROVE Covers(Loaded(d), log[d])'
  <2>1. Loaded(d)' = Loaded(d) /\ Covers(Loaded(d), log[d])
    BY <1>1 DEF Loaded, KeptInv, AnswersAreKept
  <2>2. log'[d] = IF d = c THEN Append(log[c], e) ELSE log[d]
    BY <1>1, <1>2 DEF KeptInv, TurnTypes
  <2>3. log[d] \in Seq(Events)
    BY DEF KeptInv, TurnTypes
  <2> QED
    BY <1>2, <2>1, <2>2, <2>3, CoversAppend
<1>6. ASSUME NEW u \in Turns, Active(u)'
      PROVE  Covers(draft[u], log[ChatOf[u]])'
  <2>1. CASE u = t
    <3>1. draft'[t] = Loaded(c)' /\ Covers(Loaded(c), log[c])'
      BY <1>1, <1>2, <1>5 DEF Loaded, KeptInv, TurnTypes
    <3> QED
      BY <2>1, <3>1
  <2>2. CASE u # t
    <3>1. Active(u) /\ draft'[u] = draft[u]
      BY <1>1, <1>6, <2>2 DEF Active, KeptInv, TurnTypes
    <3>2. ChatOf[u] # c
      BY <1>1, <2>2, <3>1, AloneInChat DEF KeptInv
    <3>3. log'[ChatOf[u]] = log[ChatOf[u]]
      BY <1>1, <3>2, ChatTypes DEF KeptInv, TurnTypes
    <3> QED
      BY <3>1, <3>3 DEF KeptInv, AnswersAreKept
  <2> QED
    BY <2>1, <2>2
<1>7. ASSUME NEW u \in Turns, pc'[u] = "saved", Answered(u)'
      PROVE  AnswerOf(u) \in Loaded(ChatOf[u])'
  <2>1. u # t /\ pc[u] = "saved" /\ draft'[u] = draft[u]
    BY <1>1, <1>7 DEF KeptInv, TurnTypes
  <2> QED
    BY <1>1, <1>7, <2>1 DEF KeptInv, AnswersAreKept, Answered, Loaded
<1> QED
  BY <1>3, <1>4, <1>5, <1>6, <1>7 DEF KeptInv, AnswersAreKept

\* A turn announces how it ended (http.go:313-348).
LEMMA FinishKeeps ==
    ASSUME KeptInv, NEW t \in Turns, Finish(t)
    PROVE  KeptInv'
<1> DEFINE c == ChatOf[t]
           e == [kind |-> IF Answered(t) THEN "finished" ELSE "failed",
                 turn |-> t]
<1>1. /\ pc[t] = "saved" /\ pc' = [pc EXCEPT ![t] = "ended"]
      /\ draft' = [draft EXCEPT ![t] = None]
      /\ log' = [log EXCEPT ![c] = Append(@, e)]
      /\ UNCHANGED files
  BY DEF Finish, Publish
<1>2. c \in Chats /\ e \in Events /\ e.turn = t
      /\ (e.kind = "finished" => Answered(t))
  BY ChatTypes DEF Events, Kinds
<1> HIDE DEF e
<1>3. TurnTypes'
  <2>1. /\ pc' \in [Turns -> TurnSteps] /\ log' \in [Chats -> Seq(Events)]
        /\ draft' \in [Turns -> (SUBSET Messages) \cup {None}]
    <3>1. pc' \in [Turns -> TurnSteps]
      BY <1>1 DEF KeptInv, TurnTypes, TurnSteps
    <3>2. log' \in [Chats -> Seq(Events)]
      BY <1>1, <1>2 DEF KeptInv, TurnTypes
    <3>3. draft' \in [Turns -> (SUBSET Messages) \cup {None}]
      BY <1>1 DEF KeptInv, TurnTypes
    <3> QED
      BY <3>1, <3>2, <3>3
  <2>2. ASSUME NEW u \in Turns, Active(u)' PROVE draft'[u] \in SUBSET Messages
    BY <1>1, <2>2 DEF KeptInv, TurnTypes, Active
  <2> QED
    BY <1>1, <2>1, <2>2 DEF KeptInv, TurnTypes
<1>4. OneAtATime'
  BY <1>1 DEF KeptInv, TurnTypes, OneAtATime
<1>5. ASSUME NEW d \in Chats PROVE Covers(Loaded(d), log[d])'
  <2>1. Loaded(d)' = Loaded(d) /\ Covers(Loaded(d), log[d])
    BY <1>1 DEF Loaded, KeptInv, AnswersAreKept
  <2>2. CASE d = c
    <3>1. log'[d] = Append(log[c], e) /\ log[c] \in Seq(Events)
      BY <1>1, <1>2, <2>2 DEF KeptInv, TurnTypes
    <3>2. e.kind = "finished" => AnswerOf(e.turn) \in Loaded(c)
      BY <1>1, <1>2 DEF KeptInv, AnswersAreKept
    <3> QED
      BY <1>2, <2>1, <2>2, <3>1, <3>2, CoversAppend
  <2>3. CASE d # c
    BY <1>1, <2>1, <2>3 DEF KeptInv, TurnTypes
  <2> QED
    BY <2>2, <2>3
<1>6. ASSUME NEW u \in Turns, Active(u)'
      PROVE  Covers(draft[u], log[ChatOf[u]])'
  <2>1. u # t /\ Active(u) /\ draft'[u] = draft[u]
    BY <1>1, <1>6 DEF Active, KeptInv, TurnTypes
  <2>2. ChatOf[u] # c
    BY <1>1, <2>1, AloneInChat DEF KeptInv, Active
  <2>3. log'[ChatOf[u]] = log[ChatOf[u]]
    BY <1>1, <2>2, ChatTypes DEF KeptInv, TurnTypes
  <2> QED
    BY <2>1, <2>3 DEF KeptInv, AnswersAreKept
<1>7. ASSUME NEW u \in Turns, pc'[u] = "saved", Answered(u)'
      PROVE  AnswerOf(u) \in Loaded(ChatOf[u])'
  <2>1. u # t /\ pc[u] = "saved" /\ draft'[u] = draft[u]
    BY <1>1, <1>7 DEF KeptInv, TurnTypes
  <2> QED
    BY <1>1, <1>7, <2>1 DEF KeptInv, AnswersAreKept, Answered, Loaded
<1> QED
  BY <1>3, <1>4, <1>5, <1>6, <1>7 DEF KeptInv, AnswersAreKept

\* A turn reports progress, gets its answer or saves (http.go:299-329).
LEMMA RunKeeps ==
    ASSUME KeptInv, NEW t \in Turns,
           Emit(t) \/ Execute(t) \/ Save(t) \/ SaveFails(t)
    PROVE  KeptInv'
<1> DEFINE c == ChatOf[t]
<1>0. c \in Chats /\ Active(t) /\ pc[t] \in {"running", "executed"}
  BY ChatTypes DEF Emit, Execute, Save, SaveFails, Active
<1>1. ASSUME NEW u \in Turns, u # t, ChatOf[u] = c PROVE ~Active(u)
  BY <1>0, <1>1, AloneInChat DEF KeptInv
<1>2. draft[t] \in SUBSET Messages /\ Covers(draft[t], log[c])
  BY <1>0 DEF KeptInv, TurnTypes, AnswersAreKept
<1>3. CASE Emit(t)
  <2> DEFINE e == [kind |-> "delta", turn |-> t]
  <2>1. /\ log' = [log EXCEPT ![c] = Append(@, e)]
        /\ UNCHANGED <<files, pc, draft>>
    BY <1>3 DEF Emit, Publish
  <2>2. e \in Events /\ e.kind # "finished"
    BY DEF Events, Kinds
  <2> HIDE DEF e
  <2>3. log' \in [Chats -> Seq(Events)]
    BY <1>0, <2>1, <2>2 DEF KeptInv, TurnTypes
  <2>4. ASSUME NEW d \in Chats, NEW M, Covers(M, log[d])
        PROVE  Covers(M, log'[d])
    <3>1. log'[d] = IF d = c THEN Append(log[d], e) ELSE log[d]
      BY <2>1 DEF KeptInv, TurnTypes
    <3>2. log[d] \in Seq(Events)
      BY DEF KeptInv, TurnTypes
    <3> QED
      BY <2>2, <2>4, <3>1, <3>2, CoversAppend
  <2>5. AnswersAreKept'
    <3>1. \A d \in Chats : Covers(Loaded(d), log[d])'
      BY <2>1, <2>4 DEF KeptInv, AnswersAreKept, Loaded
    <3>2. \A u \in Turns : Active(u)' => Covers(draft[u], log[ChatOf[u]])'
      BY <2>1, <2>4, ChatTypes DEF KeptInv, AnswersAreKept, Active
    <3>3. \A u \in Turns : pc'[u] = "saved" /\ Answered(u)' =>
                             AnswerOf(u) \in Loaded(ChatOf[u])'
      BY <2>1 DEF KeptInv, AnswersAreKept, Answered, Loaded
    <3> QED
      BY <3>1, <3>2, <3>3 DEF AnswersAreKept
  <2> QED
    BY <2>1, <2>3, <2>5 DEF KeptInv, TurnTypes, OneAtATime, Active
<1>4. CASE Execute(t) \/ Save(t) \/ SaveFails(t)
  <2>1. /\ \/ pc'[t] \in {"executed", "saved"}
           \/ pc'[t] = "ended"
        /\ pc' \in [Turns -> TurnSteps]
        /\ \A u \in Turns \ {t} : pc'[u] = pc[u] /\ draft'[u] = draft[u]
        /\ UNCHANGED log
    BY <1>4 DEF Execute, Save, SaveFails, KeptInv, TurnTypes, TurnSteps
  <2>2. draft' \in [Turns -> (SUBSET Messages) \cup {None}]
        /\ (pc'[t] # "ended" =>
              draft'[t] \in SUBSET Messages /\ draft[t] \subseteq draft'[t])
    <3>1. CASE Execute(t)
      <4>1. PICK ok \in BOOLEAN : draft' =
              [draft EXCEPT ![t] = @ \cup {[turn |-> t, answered |-> ok]}]
        BY <3>1 DEF Execute
      <4>2. [turn |-> t, answered |-> ok] \in Messages
        BY DEF Messages
      <4>3. draft'[t] = draft[t] \cup {[turn |-> t, answered |-> ok]}
        BY <4>1 DEF KeptInv, TurnTypes
      <4>4. draft'[t] \in SUBSET Messages
        BY <1>2, <4>2, <4>3
      <4> QED
        BY <4>1, <4>3, <4>4 DEF KeptInv, TurnTypes
    <3>2. CASE Save(t)
      BY <1>2, <3>2 DEF Save, KeptInv, TurnTypes
    <3>3. CASE SaveFails(t)
      BY <1>2, <3>3 DEF SaveFails, KeptInv, TurnTypes
    <3> QED
      BY <1>4, <3>1, <3>2, <3>3
  <2>3. \/ UNCHANGED files /\ (pc'[t] = "saved" => ~Answered(t)')
        \/ /\ files' = [files EXCEPT ![c] = draft[t]]
           /\ pc'[t] = "saved" /\ draft' = draft
    <3>1. CASE Execute(t)
      BY <3>1 DEF Execute, KeptInv, TurnTypes
    <3>2. CASE Save(t)
      BY <3>2 DEF Save, KeptInv, TurnTypes
    <3>3. CASE SaveFails(t)
      BY <3>3 DEF SaveFails, Answered, KeptInv, TurnTypes
    <3> QED
      BY <1>4, <3>1, <3>2, <3>3
  <2>4. files' \in [Chats -> (SUBSET Messages) \cup {None}]
    BY <1>2, <2>3 DEF KeptInv, TurnTypes
  <2>5. TurnTypes'
    <3>1. ASSUME NEW u \in Turns, Active(u)'
          PROVE  draft'[u] \in SUBSET Messages
      BY <2>1, <2>2, <3>1 DEF KeptInv, TurnTypes, Active
    <3> QED
      BY <2>1, <2>2, <2>4, <3>1 DEF KeptInv, TurnTypes
  <2>6. OneAtATime'
    <3> SUFFICES ASSUME NEW u \in Turns, NEW w \in Turns,
                        ChatOf[u] = ChatOf[w], u < w, pc'[w] # "unsent"
                 PROVE  pc'[u] = "ended"
      BY DEF OneAtATime
    <3>1. pc[w] # "unsent"
      BY <1>0, <2>1
    <3>2. pc[u] = "ended"
      BY <3>1 DEF KeptInv, OneAtATime
    <3> QED
      BY <1>0, <2>1, <3>2
  <2>7. ASSUME NEW d \in Chats PROVE Covers(Loaded(d), log[d])'
    <3>1. CASE Loaded(d)' = Loaded(d)
      BY <2>1, <3>1 DEF KeptInv, AnswersAreKept
    <3>2. CASE Loaded(d)' # Loaded(d)
      <4>1. d = c /\ files'[c] = draft[t]
        BY <2>3, <3>2 DEF Loaded, KeptInv, TurnTypes
      <4>2. Loaded(d)' = draft[t]
        BY <1>2, <4>1, EventsAssumption DEF Loaded, EventsAssumption
      <4> QED
        BY <1>2, <2>1, <4>1, <4>2
    <3> QED
      BY <3>1, <3>2
  <2>8. ASSUME NEW u \in Turns, Active(u)'
        PROVE  Covers(draft[u], log[ChatOf[u]])'
    <3>1. CASE u = t
      <4>1. draft[t] \subseteq draft'[t]
        BY <2>2, <2>8, <3>1 DEF Active
      <4> QED
        BY <1>2, <2>1, <3>1, <4>1 DEF Covers
    <3>2. CASE u # t
      BY <2>1, <2>8, <3>2 DEF KeptInv, AnswersAreKept, Active
    <3> QED
      BY <3>1, <3>2
  <2>9. ASSUME NEW u \in Turns, pc'[u] = "saved", Answered(u)'
        PROVE  AnswerOf(u) \in Loaded(ChatOf[u])'
    <3>1. CASE u = t
      <4>1. files'[c] = draft[t] /\ draft' = draft
        BY <1>0, <2>3, <2>9, <3>1 DEF KeptInv, TurnTypes
      <4>2. Loaded(c)' = draft[t]
        BY <1>2, <4>1, EventsAssumption DEF Loaded, EventsAssumption
      <4> QED
        BY <2>9, <3>1, <4>1, <4>2 DEF Answered, AnswerOf
    <3>2. CASE u # t
      <4>1. pc[u] = "saved" /\ draft'[u] = draft[u] /\ Active(u)
        BY <2>1, <2>9, <3>2 DEF Active
      <4>2. ChatOf[u] # c
        BY <1>1, <3>2, <4>1
      <4>3. files'[ChatOf[u]] = files[ChatOf[u]]
        BY <2>3, <4>2, ChatTypes DEF KeptInv, TurnTypes
      <4> QED
        BY <2>9, <4>1, <4>3 DEF KeptInv, AnswersAreKept, Answered, Loaded
    <3> QED
      BY <3>1, <3>2
  <2> QED
    BY <2>5, <2>6, <2>7, <2>8, <2>9 DEF KeptInv, AnswersAreKept
<1> QED
  BY <1>3, <1>4

LEMMA StepKeeps == KeptInv /\ [Next]_vars => KeptInv'
<1> SUFFICES ASSUME KeptInv, [Next]_vars PROVE KeptInv'
  OBVIOUS
<1>1. CASE UNCHANGED <<files, pc, draft, log>>
  BY <1>1 DEF KeptInv, TurnTypes, OneAtATime, AnswersAreKept, Active,
              Loaded, Answered
<1>2. CASE \E t \in Turns : Turn(t)
  BY <1>2, StartKeeps, RunKeeps, FinishKeeps DEF Turn
<1>3. CASE \E c \in Chats : CreateChat(c)
  <2>1. PICK c \in Chats : CreateChat(c)
    BY <1>3
  <2>2. /\ files[c] = None /\ files' = [files EXCEPT ![c] = {}]
        /\ UNCHANGED <<pc, draft, log>>
    BY <2>1 DEF CreateChat, turnVars
  <2>3. TurnTypes'
    BY <2>2 DEF KeptInv, TurnTypes, Active
  <2>4. \A d \in Chats : Loaded(d)' = Loaded(d)
    BY <2>2 DEF KeptInv, TurnTypes, Loaded
  <2> QED
    BY <2>2, <2>3, <2>4, ChatTypes
    DEF KeptInv, OneAtATime, AnswersAreKept, Active, Answered
<1>4. CASE Crash
  <2>1. /\ pc' = [t \in Turns |->
                    IF pc[t] = "unsent" THEN "unsent" ELSE "ended"]
        /\ draft' = [t \in Turns |-> None]
        /\ UNCHANGED <<files, log>>
    BY <1>4 DEF Crash
  <2>2. \A t \in Turns : ~Active(t)' /\ pc'[t] # "saved"
    BY <2>1 DEF Active
  <2>3. TurnTypes'
    BY <2>1, <2>2 DEF KeptInv, TurnTypes, TurnSteps
  <2>4. OneAtATime'
    BY <2>1 DEF KeptInv, OneAtATime
  <2> QED
    BY <2>1, <2>2, <2>3, <2>4 DEF KeptInv, AnswersAreKept, Loaded
<1>5. CASE \E s \in Subscribers : \/ \E c \in Chats : Subscribe(s, c)
                                  \/ Deliver(s) \/ Disconnect(s)
                                  \/ Unsubscribe(s)
  BY <1>1, <1>5 DEF Subscribe, Deliver, Disconnect, Unsubscribe, turnVars
<1> QED
  BY <1>1, <1>2, <1>3, <1>4, <1>5 DEF Next, vars, turnVars

\* A client that was told execution.finished finds the answer in the messages
\* of the chat from then on: turns that follow build on it, and a crash or a
\* failed save loses no answer that was announced (http.go:329-338).
THEOREM FinishedAnswersAreKept == Spec => []FinishedIsReadable
<1>1. Init => KeptInv
  <2> SUFFICES ASSUME Init PROVE KeptInv
    OBVIOUS
  <2>1. TurnTypes
    BY DEF Init, TurnTypes, TurnSteps, Active
  <2>2. \A t \in Turns : ~Active(t) /\ pc[t] = "unsent"
    BY DEF Init, Active
  <2>3. \A c \in Chats : Covers(Loaded(c), log[c])
    BY DEF Init, Covers
  <2> QED
    BY <2>1, <2>2, <2>3 DEF KeptInv, OneAtATime, AnswersAreKept
<1>2. KeptInv => FinishedIsReadable
  BY DEF KeptInv, AnswersAreKept, Covers, AnswerOf, Loaded, ListMessages,
         FinishedIsReadable
<1> QED
  BY <1>1, <1>2, StepKeeps, PTL DEF Spec

-----------------------------------------------------------------------------
(* The session files under the messages of a chat: SessionStore, with its  *)
(* own state, beside the chats.                                            *)

\* Only a whole save of a chat is ever renamed to its file, and the file of
\* a chat that was saved stays.
FilesInStep ==
    /\ \A w \in Saves : saving[w] = "written" => dir[w] = w
    /\ \A c \in ChatIds :
         dir[c] \in {Absent} \cup {w \in Saves : SavedChat[w] = c}
    /\ \A w \in Saves : saving[w] = "done" => dir[SavedChat[w]] # Absent

\* A save has its stamp before it has a file, and no other save has it.
StampsAreOwn ==
    /\ \A w \in Saves : saving[w] = "idle" => updatedAt[w] = 0
    /\ \A v, w \in Saves :
         v # w /\ updatedAt[v] = updatedAt[w] => updatedAt[v] = 0
    /\ \A w \in Saves : saving[w] \in {"created", "written"} => updatedAt[w] # 0
    /\ \A c \in ChatIds : dir[c] \in Saves => updatedAt[dir[c]] # 0

\* What List has read is of different chats, each in a state it has had since
\* List began; a chat it will not read any more was not there all the time.
ListedOnce ==
    /\ \A i \in DOMAIN out : /\ updatedAt[out[i]] # 0
                             /\ out[i] \in held[SavedChat[out[i]]]
    /\ \A i, j \in DOMAIN out : SavedChat[out[i]] = SavedChat[out[j]] => i = j

ListedAll(chats) ==
    \A c \in ChatIds \ unread : Absent \notin held[c] =>
        c \in chats \/ \E i \in DOMAIN out : SavedChat[out[i]] = c

Sorted ==
    \A i, j \in DOMAIN out : i < j => updatedAt[out[i]] > updatedAt[out[j]]

ListInStep ==
    /\ ListedOnce
    /\ listing = "reading" =>
         /\ ListedAll(todo)
         /\ \A c \in ChatIds : dir[c] \in held[c]
         /\ \A i \in DOMAIN out : SavedChat[out[i]] \notin todo
    /\ listing = "done" => ListedAll({}) /\ Sorted

StoreInv == StoreTypes /\ FilesInStep /\ StampsAreOwn /\ ListInStep

\* An empty directory.
LEMMA InitStoreInv ==
    ASSUME StoreInit PROVE StoreInv
  <1> USE DEF StoreInit
  <1>1. StoreTypes
    BY StoreAssumption DEF StoreTypes, Names, Contents
  <1>2. FilesInStep /\ StampsAreOwn
    BY StoreAssumption DEF FilesInStep, StampsAreOwn, Names
  <1>3. ListInStep
    BY DEF ListInStep, ListedOnce
  <1> QED BY <1>1, <1>2, <1>3 DEF StoreInv

\* A step of something else.
LEMMA StoreInvStays ==
    ASSUME StoreInv, UNCHANGED storeVars PROVE StoreInv'
  BY DEF storeVars, StoreInv, StoreTypes, FilesInStep, StampsAreOwn,
         ListInStep, ListedOnce, ListedAll, Sorted

\* The steps of a save that leave the files of the chats alone.
LEMMA TempStepStoreInv ==
    ASSUME StoreInv, NEW w \in Saves,
           CreateTemp(w) \/ Write(w) \/ SaveStepFails(w)
    PROVE  StoreInv'
  <1> USE StoreAssumption DEF TempOf, SaveGoto,
              listVars, Names
  <1>1. StoreTypes /\ FilesInStep /\ StampsAreOwn /\ ListInStep
    BY DEF StoreInv
  <1>2. \A c \in ChatIds : c # w /\ dir'[c] = dir[c]
    BY <1>1 DEF StoreTypes, CreateTemp, Write, SaveStepFails
  <1>a. ASSUME CreateTemp(w)
        PROVE  /\ StoreTypes'
               /\ \A v \in Saves :
                    \/ updatedAt'[v] = updatedAt[v]
                    \/ v = w /\ updatedAt[v] = 0 /\ updatedAt'[v] = clock + 1
               /\ \A v \in Saves :
                    /\ saving'[v] = "done" => saving[v] = "done"
                    /\ saving'[v] = "written" => dir'[v] = v
    <2>1. /\ clock' = clock + 1 /\ saving[w] = "idle"
          /\ updatedAt' = [updatedAt EXCEPT ![w] = clock + 1]
          /\ dir' = [dir EXCEPT ![w] = Part]
          /\ saving' = [saving EXCEPT ![w] = "created"]
          /\ UNCHANGED <<listVars, crashes, held>>
      BY <1>a DEF CreateTemp
    <2>2. /\ clock \in Nat /\ updatedAt \in [Saves -> 0..clock]
          /\ dir \in [Names -> Contents]
      BY <1>1 DEF StoreTypes
    <2>3. updatedAt' \in [Saves -> 0..(clock + 1)] /\ clock + 1 \in Nat
      <3>1. \A v \in Saves : updatedAt[v] \in 0..(clock + 1)
        BY <2>2
      <3>2. clock + 1 \in 0..(clock + 1)
        BY <2>2
      <3> QED BY <2>1, <2>2, <3>1, <3>2
    <2>4. dir' \in [Names -> Contents]
      BY <2>1, <2>2 DEF Contents
    <2>5. StoreTypes'
      BY <1>1, <2>1, <2>3, <2>4 DEF StoreTypes
    <2>6. \A v \in Saves : v # w => updatedAt'[v] = updatedAt[v]
      BY <2>1, <2>2
    <2>7. updatedAt[w] = 0 /\ updatedAt'[w] = clock + 1
      BY <1>1, <2>1, <2>2 DEF StampsAreOwn
    <2>8. \A v \in Saves : v # w => dir'[v] = dir[v] /\ saving'[v] = saving[v]
      BY <1>1, <2>1, <2>2 DEF StoreTypes
    <2>9. saving'[w] = "created"
      BY <1>1, <2>1 DEF StoreTypes
    <2>10. \A v \in Saves : saving'[v] \in {"written", "done"} =>
             v # w /\ saving[v] = saving'[v] /\ dir'[v] = dir[v]
      BY <2>8, <2>9
    <2> QED BY <1>1, <2>5, <2>6, <2>7, <2>10 DEF FilesInStep
  <1>b. ASSUME Write(w) \/ SaveStepFails(w)
        PROVE  /\ StoreTypes' /\ updatedAt' = updatedAt
               /\ \A v \in Saves :
                    /\ saving'[v] = "done" => saving[v] = "done"
                    /\ saving'[v] = "written" => dir'[v] = v
    <2>1. UNCHANGED <<clock, updatedAt, listVars, crashes, held>>
      BY <1>b DEF Write, SaveStepFails
    <2>2. StoreTypes'
      <3>1. CASE Write(w)
        BY <1>1, <2>1, <3>1 DEF StoreTypes, Contents, Write
      <3>2. CASE SaveStepFails(w)
        BY <1>1, <2>1, <3>2 DEF StoreTypes, Contents, SaveStepFails
      <3> QED BY <1>b, <3>1, <3>2
    <2>3. \A v \in Saves : v # w => dir'[v] = dir[v] /\ saving'[v] = saving[v]
      BY <1>1, <1>b DEF StoreTypes, Write, SaveStepFails
    <2>4. /\ saving'[w] # "done"
          /\ saving'[w] = "written" => dir'[w] = w
      BY <1>1, <1>b DEF StoreTypes, Write, SaveStepFails
    <2>5. \A v \in Saves : /\ saving'[v] = "done" => saving[v] = "done"
                           /\ saving'[v] = "written" => dir'[v] = v
      BY <1>1, <2>3, <2>4 DEF FilesInStep
    <2> QED BY <2>1, <2>2, <2>5
  <1>3. StoreTypes'
    BY <1>a, <1>b
  <1>4. \A v \in Saves :
           \/ updatedAt'[v] = updatedAt[v]
           \/ v = w /\ updatedAt[v] = 0 /\ updatedAt'[v] = clock + 1
    BY <1>a, <1>b
  <1>c. \A v \in Saves : /\ saving'[v] = "done" => saving[v] = "done"
                         /\ saving'[v] = "written" => dir'[v] = v
    BY <1>a, <1>b
  <1>5. \A v \in Saves : updatedAt[v] \in 0..clock /\ clock \in Nat
    BY <1>1 DEF StoreTypes
  <1>6. FilesInStep'
    <2>1. \A c \in ChatIds :
             dir'[c] \in {Absent} \cup {v \in Saves : SavedChat[v] = c}
      BY <1>1, <1>2 DEF FilesInStep
    <2>2. \A v \in Saves : saving'[v] = "done" => dir'[SavedChat[v]] # Absent
      BY <1>1, <1>2, <1>c DEF FilesInStep
    <2>3. \A v \in Saves : saving'[v] = "written" => dir'[v] = v
      BY <1>1, <1>c DEF FilesInStep
    <2> QED BY <2>1, <2>2, <2>3 DEF FilesInStep
  <1>7. StampsAreOwn'
    <2>1. \A v \in Saves : saving'[v] = "idle" => updatedAt'[v] = 0
      BY <1>1 DEF StampsAreOwn, StoreTypes, CreateTemp,
                  Write, SaveStepFails
    <2>2. \A u, v \in Saves : u # v /\ updatedAt'[u] = updatedAt'[v]
                                => updatedAt'[u] = 0
      BY <1>1, <1>4, <1>5 DEF StampsAreOwn
    <2>3. \A v \in Saves :
             saving'[v] \in {"created", "written"} => updatedAt'[v] # 0
      BY <1>1, <1>4, <1>5 DEF StampsAreOwn, StoreTypes, CreateTemp,
                              Write, SaveStepFails
    <2>4. \A c \in ChatIds : dir'[c] \in Saves => updatedAt'[dir'[c]] # 0
      BY <1>1, <1>2, <1>4, <1>5 DEF StampsAreOwn
    <2> QED BY <2>1, <2>2, <2>3, <2>4 DEF StampsAreOwn
  <1>8. ListInStep'
    <2>1. UNCHANGED <<listVars, held>>
      BY DEF CreateTemp, Write, SaveStepFails
    <2>2. \A i \in DOMAIN out : out[i] \in Saves
      BY <1>1 DEF StoreTypes
    <2>3. \A i \in DOMAIN out : updatedAt'[out[i]] = updatedAt[out[i]]
      BY <1>1, <1>4, <2>2 DEF ListInStep, ListedOnce
    <2>4. ListedOnce'
      BY <1>1, <2>1, <2>3 DEF ListInStep, ListedOnce
    <2>5. ListedAll(todo)' <=> ListedAll(todo)
      BY <2>1 DEF ListedAll
    <2>6. ListedAll({})' <=> ListedAll({})
      BY <2>1 DEF ListedAll
    <2>7. Sorted => Sorted'
      BY <2>1, <2>3 DEF Sorted
    <2> QED BY <1>1, <1>2, <2>1, <2>4, <2>5, <2>6, <2>7 DEF ListInStep
  <1> QED BY <1>3, <1>6, <1>7, <1>8 DEF StoreInv

\* A save becomes visible: the file of its chat and the list that is being
\* made know it from here on.
LEMMA RenameStoreInv ==
    ASSUME StoreInv, NEW w \in Saves, Rename(w)
    PROVE  StoreInv'
  <1> USE StoreAssumption DEF TempOf, SaveGoto,
              listVars, Names
  <1>1. StoreTypes /\ FilesInStep /\ StampsAreOwn /\ ListInStep
    BY DEF StoreInv
  <1> DEFINE k == SavedChat[w]
  <1>2. /\ k \in ChatIds /\ k # w /\ saving[w] = "written" /\ dir[w] = w
        /\ saving' = [saving EXCEPT ![w] = "done"]
        /\ UNCHANGED <<clock, updatedAt, listVars, crashes>>
    BY <1>1 DEF FilesInStep, Rename
  <1>3. /\ dir' = [dir EXCEPT ![k] = w, ![w] = Absent]
        /\ held' = [held EXCEPT ![k] = @ \cup {w}]
    BY <1>2 DEF Rename
  <1> HIDE DEF k
  <1>4. /\ dir'[k] = w
        /\ \A c \in ChatIds : c # k => dir'[c] = dir[c]
        /\ \A v \in Saves : v # w => dir'[v] = dir[v]
    BY <1>1, <1>2, <1>3 DEF StoreTypes
  <1>5. StoreTypes'
    BY <1>1, <1>2, <1>3 DEF StoreTypes, Contents
  <1>6. FilesInStep'
    <2>1. \A v \in Saves : saving'[v] = "written" => dir'[v] = v
      BY <1>1, <1>2, <1>4 DEF FilesInStep, StoreTypes
    <2>2. \A c \in ChatIds :
             dir'[c] \in {Absent} \cup {v \in Saves : SavedChat[v] = c}
      BY <1>1, <1>4 DEF FilesInStep, k
    <2>3. \A v \in Saves : saving'[v] = "done" => dir'[SavedChat[v]] # Absent
      <3> TAKE v \in Saves
      <3>1. SavedChat[v] \in ChatIds
        OBVIOUS
      <3>2. CASE SavedChat[v] = k
        BY <1>4, <3>2
      <3>3. CASE SavedChat[v] # k
        <4>1. v # w /\ saving'[v] = saving[v]
          BY <1>1, <1>2, <3>3 DEF StoreTypes, k
        <4> QED BY <1>1, <1>4, <3>1, <3>3, <4>1 DEF FilesInStep
      <3> QED BY <3>2, <3>3
    <2> QED BY <2>1, <2>2, <2>3 DEF FilesInStep
  <1>7. StampsAreOwn'
    <2>1. updatedAt[w] # 0 /\ updatedAt' = updatedAt
      BY <1>1, <1>2 DEF StampsAreOwn
    <2>2. \A c \in ChatIds : dir'[c] \in Saves => updatedAt[dir'[c]] # 0
      BY <1>1, <1>4, <2>1 DEF StampsAreOwn
    <2> QED BY <1>1, <1>2, <2>1, <2>2 DEF StampsAreOwn, StoreTypes
  <1>8. ListInStep'
    <2>1. UNCHANGED <<updatedAt, out, todo, listing, unread>>
      BY <1>2
    <2>2. \A c \in ChatIds : held[c] \subseteq held'[c]
      BY <1>1, <1>2, <1>3 DEF StoreTypes
    <2>3. \A i \in DOMAIN out : out[i] \in Saves /\ SavedChat[out[i]] \in ChatIds
      BY <1>1 DEF StoreTypes
    <2>4. ListedOnce'
      BY <1>1, <2>1, <2>2, <2>3 DEF ListInStep, ListedOnce
    <2>5. ListedAll({}) => ListedAll({})'
      BY <2>1, <2>2 DEF ListedAll
    <2>6. ListedAll(todo) => ListedAll(todo)'
      BY <2>1, <2>2 DEF ListedAll
    <2>7. Sorted => Sorted'
      BY <2>1 DEF Sorted
    <2>8. listing = "reading" => \A c \in ChatIds : dir'[c] \in held'[c]
      BY <1>1, <1>2, <1>3, <1>4, <2>2 DEF ListInStep, StoreTypes
    <2> QED BY <1>1, <2>1, <2>4, <2>5, <2>6, <2>7, <2>8 DEF ListInStep
  <1> QED BY <1>5, <1>6, <1>7, <1>8 DEF StoreInv

\* A list begins with every file there is still to read.
LEMMA ListStartStoreInv ==
    ASSUME StoreInv, ListStart PROVE StoreInv'
  <1> USE StoreAssumption DEF Names
  <1>1. StoreTypes /\ FilesInStep /\ StampsAreOwn /\ ListInStep
    BY DEF StoreInv
  <1>2. /\ out' = <<>> /\ listing' = "reading" /\ DOMAIN out' = {}
        /\ unread' = {}
        /\ todo' = {n \in Names : dir[n] # Absent} \cap ChatIds
        /\ held' = [c \in ChatIds |-> {dir[c]}]
        /\ UNCHANGED <<dir, saving, clock, updatedAt, crashes>>
    BY DEF ListStart
  <1>3. StoreTypes'
    BY <1>1, <1>2 DEF StoreTypes, Contents, ListStart
  <1>4. FilesInStep' /\ StampsAreOwn'
    BY <1>1, <1>2 DEF FilesInStep, StampsAreOwn
  <1>5. ListedOnce'
    BY <1>2 DEF ListedOnce
  <1>6. ListedAll(todo)'
    BY <1>2 DEF ListedAll
  <1>7. ListInStep'
    BY <1>2, <1>5, <1>6 DEF ListInStep
  <1> QED BY <1>3, <1>4, <1>7 DEF StoreInv

\* A chat is read: its file holds what it held at some moment since then.
LEMMA ListReadStoreInv ==
    ASSUME StoreInv, NEW c \in ChatIds, ListRead(c)
    PROVE  StoreInv'
  <1> USE StoreAssumption DEF Names
  <1>1. StoreTypes /\ FilesInStep /\ StampsAreOwn /\ ListInStep
    BY DEF StoreInv
  <1>2. /\ listing = "reading" /\ c \in todo /\ todo' = todo \ {c}
        /\ UNCHANGED <<dir, saving, clock, updatedAt, listing, lists, crashes,
                       held>>
    BY DEF ListRead
  <1>3. FilesInStep' /\ StampsAreOwn'
    BY <1>1, <1>2 DEF FilesInStep, StampsAreOwn
  <1>4. dir[c] \in {Absent} \cup {w \in Saves : SavedChat[w] = c}
    BY <1>1 DEF FilesInStep
  <1>5. /\ ListedOnce /\ ListedAll(todo) /\ dir[c] \in held[c]
        /\ \A i \in DOMAIN out : SavedChat[out[i]] \notin todo
    BY <1>1, <1>2 DEF ListInStep
  <1>6. CASE out' = out /\ (unread' = unread \cup {c}
                             \/ (dir[c] = Absent /\ unread' = unread))
    <2>1. out' = out
      BY <1>6
    <2>2. StoreTypes'
      BY <1>1, <1>2, <1>6, <2>1 DEF StoreTypes
    <2>3. ListedOnce'
      BY <1>2, <1>5, <2>1 DEF ListedOnce
    <2>4. ListedAll(todo)'
      BY <1>2, <1>5, <1>6, <2>1 DEF ListedAll
    <2>5. ListInStep'
      BY <1>1, <1>2, <1>5, <2>1, <2>3, <2>4 DEF ListInStep
    <2> QED BY <1>3, <2>2, <2>5 DEF StoreInv
  <1>7. CASE dir[c] # Absent /\ out' = Append(out, dir[c])
             /\ unread' = unread
    <2>1. PICK w \in Saves : dir[c] = w /\ SavedChat[w] = c
      BY <1>4, <1>7
    <2>2. out' = Append(out, w) /\ out \in Seq(Saves)
      BY <1>1, <1>7, <2>1 DEF StoreTypes
    <2>3. StoreTypes'
      BY <1>1, <1>2, <1>7, <2>2 DEF StoreTypes
    <2>4. PICK n \in Nat : n = Len(out)
      BY <2>2
    <2>5. /\ DOMAIN out = 1..n /\ DOMAIN out' = 1..(n + 1)
          /\ \A i \in 1..n : out'[i] = out[i]
          /\ out'[n + 1] = w
      BY <2>2, <2>4, AppendProperties
    <2>6. \A i \in DOMAIN out' : i \in 1..n \/ i = n + 1
      BY <2>4, <2>5
    <2>7. updatedAt[w] # 0
      BY <1>1, <2>1 DEF StampsAreOwn
    <2>8. ListedOnce'
      <3>1. \A i \in DOMAIN out' : /\ updatedAt[out'[i]] # 0
                                   /\ out'[i] \in held[SavedChat[out'[i]]]
        BY <1>5, <2>1, <2>5, <2>6, <2>7 DEF ListedOnce
      <3>2. \A i, j \in DOMAIN out' :
               SavedChat[out'[i]] = SavedChat[out'[j]] => i = j
        BY <1>2, <1>5, <2>1, <2>5, <2>6 DEF ListedOnce
      <3> QED BY <1>2, <3>1, <3>2 DEF ListedOnce
    <2>9. ListedAll(todo)'
      <3> SUFFICES ASSUME NEW d \in ChatIds \ unread, Absent \notin held'[d]
                   PROVE  d \in todo' \/ \E i \in DOMAIN out' :
                                           SavedChat[out'[i]] = d
        BY <1>7 DEF ListedAll
      <3>1. CASE d = c
        BY <2>1, <2>4, <2>5, <3>1
      <3>2. CASE d # c /\ d \notin todo
        <4>1. PICK i \in 1..n : SavedChat[out[i]] = d
          BY <1>2, <1>5, <2>5, <3>2 DEF ListedAll
        <4>2. i \in DOMAIN out' /\ SavedChat[out'[i]] = d
          BY <2>4, <2>5, <4>1
        <4> QED BY <4>2
      <3> QED BY <1>2, <3>1, <3>2
    <2>10. \A i \in DOMAIN out' : SavedChat[out'[i]] \notin todo'
      BY <1>2, <1>5, <2>1, <2>5, <2>6
    <2>11. ListInStep'
      BY <1>1, <1>2, <2>8, <2>9, <2>10 DEF ListInStep
    <2> QED BY <1>3, <2>3, <2>11 DEF StoreInv
  <1>8. \/ out' = out /\ (unread' = unread \cup {c}
                          \/ (dir[c] = Absent /\ unread' = unread))
        \/ dir[c] # Absent /\ out' = Append(out, dir[c]) /\ unread' = unread
    BY <1>4 DEF ListRead
  <1> QED BY <1>6, <1>7, <1>8

\* The stamps of the entries differ, so there is no choice about their order.
LEMMA ListSortStoreInv ==
    ASSUME StoreInv, ListSort PROVE StoreInv'
  <1>1. StoreTypes /\ FilesInStep /\ StampsAreOwn /\ ListInStep
    BY DEF StoreInv
  <1>2. /\ listing = "reading" /\ todo = {} /\ listing' = "done"
        /\ UNCHANGED <<dir, saving, clock, updatedAt, todo, lists, crashes,
                       held, unread>>
    BY DEF ListSort
  <1>3. PICK order \in Bijection(DOMAIN out, DOMAIN out) :
          /\ out' = [i \in DOMAIN out |-> out[order[i]]]
          /\ \A i, j \in DOMAIN out :
               i < j => ~NewestFirst(out[order[j]], out[order[i]])
    BY DEF ListSort
  <1>4. /\ order \in [DOMAIN out -> DOMAIN out]
        /\ \A i, j \in DOMAIN out : order[i] = order[j] => i = j
        /\ \A j \in DOMAIN out : \E i \in DOMAIN out : order[i] = j
    BY DEF Bijection, Injection, Surjection, IsInjective
  <1>5. /\ out \in Seq(Saves) /\ DOMAIN out = 1..Len(out)
        /\ \A i \in DOMAIN out : out[i] \in Saves
        /\ \A w \in Saves : updatedAt[w] \in Nat
    BY <1>1 DEF StoreTypes
  <1>6. /\ out' \in Seq(Saves) /\ DOMAIN out' = DOMAIN out
        /\ \A i \in DOMAIN out : out'[i] = out[order[i]]
    <2>1. Len(out) \in Nat /\ \A i \in 1..Len(out) : out[order[i]] \in Saves
      BY <1>4, <1>5
    <2>2. out' = [i \in 1..Len(out) |-> out[order[i]]]
      BY <1>3, <1>5
    <2> QED BY <1>5, <2>1, <2>2
  <1>7. StoreTypes'
    BY <1>1, <1>2, <1>6 DEF StoreTypes
  <1>8. FilesInStep' /\ StampsAreOwn'
    BY <1>1, <1>2 DEF FilesInStep, StampsAreOwn
  <1>9. ListedOnce /\ ListedAll(todo)
    BY <1>1, <1>2 DEF ListInStep
  <1>10. ListedOnce'
    <2>1. ASSUME NEW i \in DOMAIN out
          PROVE  /\ updatedAt'[out'[i]] # 0
                 /\ out'[i] \in held'[SavedChat[out'[i]]]
      <3>1. order[i] \in DOMAIN out /\ out'[i] = out[order[i]]
        BY <1>4, <1>6
      <3> QED BY <1>2, <1>9, <3>1 DEF ListedOnce
    <2>2. ASSUME NEW i \in DOMAIN out, NEW j \in DOMAIN out,
                 SavedChat[out'[i]] = SavedChat[out'[j]]
          PROVE  i = j
      <3>1. /\ out'[i] = out[order[i]] /\ order[i] \in DOMAIN out
            /\ out'[j] = out[order[j]] /\ order[j] \in DOMAIN out
        BY <1>4, <1>6
      <3>2. SavedChat[out[order[i]]] = SavedChat[out[order[j]]]
        BY <2>2, <3>1
      <3>3. order[i] = order[j]
        BY <1>9, <3>1, <3>2 DEF ListedOnce
      <3> QED BY <1>4, <3>3
    <2> QED BY <1>6, <2>1, <2>2 DEF ListedOnce
  <1>11. ListedAll({})'
    BY <1>2, <1>4, <1>6, <1>9 DEF ListedAll
  <1>12. Sorted'
    <2> SUFFICES ASSUME NEW i \in DOMAIN out, NEW j \in DOMAIN out, i < j
                 PROVE  updatedAt[out'[i]] > updatedAt[out'[j]]
      BY <1>2, <1>6 DEF Sorted
    <2>1. /\ order[i] # order[j]
          /\ order[i] \in DOMAIN out /\ order[j] \in DOMAIN out
      <3>1. i # j
        BY <1>5
      <3> QED BY <1>4, <3>1
    <2>2. out[order[i]] # out[order[j]]
      BY <1>9, <2>1 DEF ListedOnce
    <2>3. updatedAt[out[order[i]]] # updatedAt[out[order[j]]]
      BY <1>1, <1>5, <1>9, <2>1, <2>2 DEF StampsAreOwn, ListedOnce
    <2>4. ~(updatedAt[out[order[j]]] > updatedAt[out[order[i]]])
      BY <1>3 DEF NewestFirst
    <2>5. updatedAt[out[order[i]]] \in Nat /\ updatedAt[out[order[j]]] \in Nat
      BY <1>5, <2>1
    <2>6. updatedAt[out[order[i]]] > updatedAt[out[order[j]]]
      BY <2>3, <2>4, <2>5
    <2> QED BY <1>6, <2>6
  <1>13. ListInStep'
    BY <1>2, <1>10, <1>11, <1>12 DEF ListInStep
  <1> QED BY <1>7, <1>8, <1>13 DEF StoreInv

\* Temporary files stay behind, the files of the chats stay as they are.
LEMMA CrashStoreInv ==
    ASSUME StoreInv, StoreCrash PROVE StoreInv'
  <1> USE StoreAssumption DEF StoreInv, StoreCrash
  <1>1. StoreTypes'
    BY DEF StoreTypes
  <1>2. \A w \in Saves :
           saving'[w] = IF saving[w] \in {"created", "written"} THEN "died"
                        ELSE saving[w]
    OBVIOUS
  <1>3. FilesInStep' /\ StampsAreOwn'
    BY <1>2 DEF FilesInStep, StampsAreOwn
  <1>4. ListInStep'
    BY DEF ListInStep, ListedOnce
  <1> QED BY <1>1, <1>3, <1>4

\* The inductive invariant of the session files.
LEMMA StoreInvariant == StoreSpec => []StoreInv
  <1>1. StoreInit => StoreInv
    BY InitStoreInv
  <1>2. StoreInv /\ [StoreNext]_storeVars => StoreInv'
    <2> SUFFICES ASSUME StoreInv, [StoreNext]_storeVars
                 PROVE  StoreInv'
      OBVIOUS
    <2>1. ASSUME NEW w \in Saves, SaveStep(w) PROVE StoreInv'
      <3>1. CASE CreateTemp(w) \/ Write(w) \/ SaveStepFails(w)
        BY <3>1, TempStepStoreInv
      <3>2. CASE Rename(w)
        BY <3>2, RenameStoreInv
      <3> QED BY <2>1, <3>1, <3>2 DEF SaveStep
    <2>2. CASE List
      <3>1. CASE ListStart
        BY <3>1, ListStartStoreInv
      <3>2. ASSUME NEW c \in ChatIds, ListRead(c) PROVE StoreInv'
        BY <3>2, ListReadStoreInv
      <3>3. CASE ListSort
        BY <3>3, ListSortStoreInv
      <3> QED BY <2>2, <3>1, <3>2, <3>3 DEF List
    <2>3. CASE StoreCrash
      BY <2>3, CrashStoreInv
    <2>4. CASE UNCHANGED storeVars
      BY <2>4, StoreInvStays
    <2> QED BY <2>1, <2>2, <2>3, <2>4 DEF StoreNext
  <1> QED BY <1>1, <1>2, PTL DEF StoreSpec

\* For any number of chats, of saves of one chat at a time and of crashes, a
\* reader finds the file of a chat absent or holding one whole save of that
\* chat, and once a save of the chat has returned it is never absent again:
\* nothing but a complete temporary file is renamed over it (storage.go:162).
THEOREM SessionFilesAreWhole == StoreSpec => []FilesAreWhole
  <1>1. StoreInv => FilesAreWhole
    <2> SUFFICES ASSUME StoreInv, NEW c \in ChatIds
                 PROVE  /\ Get(c)
                             \in {Absent} \cup {w \in Saves : SavedChat[w] = c}
                        /\ (\E w \in Saves :
                              SavedChat[w] = c /\ saving[w] = "done")
                             => Get(c) # Absent
      BY DEF FilesAreWhole
    <2>1. dir[c] \in {Absent} \cup {w \in Saves : SavedChat[w] = c}
      BY DEF StoreInv, FilesInStep
    <2>2. Get(c) = dir[c]
      BY <2>1, StoreAssumption DEF Get
    <2> QED BY <2>1, <2>2 DEF StoreInv, FilesInStep
  <1> QED BY <1>1, StoreInvariant, PTL

\* List, however it alternates with saves, crashes and failing reads, has every
\* chat that was there when it began and whose file could be read, once, in a
\* state the chat has had since then, and most recent first (storage.go:122).
THEOREM ListingsAreWhole == StoreSpec => []ListingIsWhole
  <1>1. StoreInv => ListingIsWhole
    <2> SUFFICES ASSUME StoreInv, listing = "done"
                 PROVE  /\ \A c \in ChatIds \ unread : Absent \notin held[c] =>
                             \E i \in DOMAIN out : \A j \in DOMAIN out :
                               SavedChat[out[j]] = c <=> j = i
                        /\ \A i \in DOMAIN out :
                             out[i] \in held[SavedChat[out[i]]]
                        /\ \A i \in 1..Len(out) - 1 :
                             updatedAt[out[i]] > updatedAt[out[i + 1]]
      BY DEF ListingIsWhole
    <2>1. ListedOnce /\ ListedAll({}) /\ Sorted
      BY DEF StoreInv, ListInStep
    <2>2. out \in Seq(Saves) /\ DOMAIN out = 1..Len(out) /\ Len(out) \in Nat
      BY DEF StoreInv, StoreTypes
    <2>3. \A c \in ChatIds \ unread : Absent \notin held[c] =>
             \E i \in DOMAIN out : \A j \in DOMAIN out :
               SavedChat[out[j]] = c <=> j = i
      BY <2>1 DEF ListedOnce, ListedAll
    <2>4. \A i \in 1..Len(out) - 1 :
             i \in 1..Len(out) /\ i + 1 \in 1..Len(out) /\ i < i + 1
      BY <2>2
    <2>5. \A i \in 1..Len(out) - 1 : updatedAt[out[i]] > updatedAt[out[i + 1]]
      BY <2>1, <2>2, <2>4 DEF Sorted
    <2> QED BY <2>1, <2>3, <2>5 DEF ListedOnce
  <1> QED BY <1>1, StoreInvariant, PTL
=============================================================================
