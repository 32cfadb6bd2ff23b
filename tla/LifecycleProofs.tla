-------------------------- MODULE LifecycleProofs ---------------------------
(***************************************************************************)
(* Proofs about Lifecycle, for every number of updates and lives, every    *)
(* buffer size and with a signal at any time: how run uses the bus, and    *)
(* what becomes of the users' messages on their way through it.            *)
(***************************************************************************)
EXTENDS Lifecycle, SequenceTheorems, TLAPS

-----------------------------------------------------------------------------
(* Type correctness                                                        *)

\* The parts of TypeOK a step of the bus leaves alone, and those of the bus.
ProcessTypes ==
    /\ life \in 0..MaxLives
    /\ main \in {"off", "building", "running", "joining", "closing"}
    /\ signalled \in BOOLEAN
    /\ listener \in {"off", "set", "stopped"}
    /\ closing \in BOOLEAN
    /\ outLoop \in {"idle", "sending", "done"}
    /\ sent \in 0..MaxUpdates
    /\ confirmed \in 1..(MaxUpdates + 1)
    /\ base \in 1..confirmed
    /\ accepted \subseteq Updates

ChannelTypes ==
    /\ poller \in {"off", "poll", "batch", "publishing", "done"}
    /\ batch \in Seq(Updates)
    /\ offset \in 0..(MaxUpdates + 1)
    /\ poller \in {"batch", "publishing"} => batch # <<>>

LoopTypes ==
    /\ inLoop \in [at: LoopSteps, update: 0..MaxUpdates]
    /\ inLoop.at \in {"turn", "reply"} => inLoop.update \in Updates
    /\ taken \in Seq(Updates)

Typed == ProcessTypes /\ ChannelTypes /\ LoopTypes /\ Bus!TypeOK

\* The inbound loop between two messages, and after its end.
LEMMA IdleLoop ==
    /\ Nobody \in [at: LoopSteps, update: 0..MaxUpdates]
    /\ [Nobody EXCEPT !.at = "done"] \in [at: LoopSteps, update: 0..MaxUpdates]
  BY LifecycleAssumption DEF Nobody, LoopSteps

LEMMA TypedIsTypeOK == Typed => TypeOK
  BY DEF Typed, ProcessTypes, ChannelTypes, LoopTypes, TypeOK

\* The publish calls of an update are calls of the bus.
LEMMA CallsAreMessages ==
    ASSUME NEW u \in Updates
    PROVE  /\ \A m \in InCalls(u) : m \in Messages
           /\ Out(u) \in Messages
  BY DEF InCalls, Out, Messages

LEMMA MessageParts ==
    ASSUME NEW m \in Messages
    PROVE  m[1] \in Bus!Queues /\ m[2] \in Updates
  BY DEF Out, Messages, Bus!Queues

\* The bus of a new process (bus.go:27-34).
LEMMA NewBusTypes ==
    ASSUME pub = [m \in Messages |-> "idle"], cancelled = {},
           buffer = [q \in Bus!Queues |-> <<>>], shut = {}, done = FALSE,
           closed = FALSE, once = "nobody",
           closer = [x \in {"main"} |-> "idle"], received = {}, drained = {},
           panicked = FALSE
    PROVE  Bus!TypeOK
  <1>1. <<>> \in Seq(Messages) /\ Len(<<>>) = 0
    OBVIOUS
  <1>2. buffer \in [Bus!Queues -> Seq(Messages)]
        /\ \A q \in Bus!Queues : Len(buffer[q]) <= Cap
    BY <1>1, LifecycleAssumption
  <1> QED
    BY <1>2 DEF Bus!TypeOK, Bus!PubSteps, Bus!CloseSteps

\* The bus itself keeps its types (bus.go:36-114).
LEMMA BusStepTypes ==
    ASSUME Bus!TypeOK,
           \/ \E m \in Messages : Bus!CheckFlag(m) \/ Publishing(m)
           \/ Bus!Cancel(Messages)
           \/ \E q \in Bus!Queues : Bus!Receive(q)
           \/ Bus!CloseNext("main")
    PROVE  Bus!TypeOK'
  <1> USE DEF Bus!TypeOK, Bus!PubSteps, Bus!Results, Bus!CloseSteps,
              Bus!PubGoto, Bus!CloseGoto, Bus!At, Bus!ClosingAt, Bus!busState
  <1>1. CASE \E m \in Messages : Bus!Send(m)
    <2> PICK m \in Messages : Bus!Send(m)
      BY <1>1
    <2> DEFINE q == m[1]
    <2>1. q \in Bus!Queues
      BY MessageParts
    <2>2. /\ Len(buffer[q]) < Cap
          /\ buffer' = [buffer EXCEPT ![q] = Append(@, m)]
          /\ pub' = [pub EXCEPT ![m] = "accepted"]
          /\ UNCHANGED <<cancelled, shut, done, closed, once, closer, received,
                         drained, panicked>>
      BY DEF Bus!Send, Bus!HasRoom
    <2> HIDE DEF q
    <2>3. Append(buffer[q], m) \in Seq(Messages)
          /\ Len(Append(buffer[q], m)) = Len(buffer[q]) + 1
      BY <2>1, AppendProperties
    <2>4. buffer' \in [Bus!Queues -> Seq(Messages)]
          /\ \A r \in Bus!Queues : Len(buffer'[r]) <= Cap
      BY <2>1, <2>2, <2>3, LifecycleAssumption
    <2> QED BY <2>2, <2>4
  <1>2. CASE \E q \in Bus!Queues : Bus!Receive(q) \/ Bus!Drain("main", q)
    <2> PICK q \in Bus!Queues : Bus!Receive(q) \/ Bus!Drain("main", q)
      BY <1>2
    <2>1. /\ buffer[q] # <<>>
          /\ buffer' = [buffer EXCEPT ![q] = Tail(@)]
          /\ received' \in {received, received \cup {Head(buffer[q])}}
          /\ drained' \in {drained, drained \cup {Head(buffer[q])}}
          /\ UNCHANGED <<pub, cancelled, shut, done, closed, once, closer,
                         panicked>>
      BY DEF Bus!Receive, Bus!Drain
    <2>2. /\ Head(buffer[q]) \in Messages
          /\ Tail(buffer[q]) \in Seq(Messages)
          /\ Len(Tail(buffer[q])) = Len(buffer[q]) - 1
      BY <2>1, HeadTailProperties
    <2>3. buffer' \in [Bus!Queues -> Seq(Messages)]
          /\ \A r \in Bus!Queues : Len(buffer'[r]) <= Cap
      BY <2>1, <2>2, LifecycleAssumption
    <2> QED BY <2>1, <2>2, <2>3
  <1>3. CASE \E m \in Messages : \/ Bus!CheckFlag(m) \/ Bus!CheckDone(m)
                                 \/ Bus!Register(m) \/ Bus!SendOnClosed(m)
                                 \/ Bus!GiveUp(m)
    BY <1>3 DEF Bus!CheckFlag, Bus!CheckDone, Bus!Register, Bus!SendOnClosed,
                Bus!GiveUp
  <1>4. CASE Bus!Cancel(Messages)
    BY <1>4 DEF Bus!Cancel
  <1>5. CASE \/ Bus!CloseDone("main") \/ Bus!SetFlag("main")
             \/ Bus!JoinPublishers("main") \/ Bus!ShutQueue("main")
             \/ Bus!EndDrain("main") \/ Bus!CloseAgain("main")
    BY <1>5 DEF Bus!CloseDone, Bus!SetFlag, Bus!JoinPublishers, Bus!ShutQueue,
                Bus!EndDrain, Bus!CloseAgain, Bus!Queues
  <1> QED
    BY <1>1, <1>2, <1>3, <1>4, <1>5 DEF Publishing, Bus!CloseNext


\* Start, end and shutdown of the process keep the types (main.go:69-167).
LEMMA MainTypes ==
    ASSUME Typed, Boot \/ Crash \/ Signal \/ StartGoroutines \/ MainStep
                  \/ SetServer \/ StopServing
    PROVE  Typed'
  <1> USE LifecycleAssumption DEF Typed, ProcessTypes, ChannelTypes, LoopTypes,
          LoopSteps
  <1>1. CASE Boot
    <2>1. Bus!TypeOK'
      BY <1>1 DEF Boot, bus, Bus!TypeOK
    <2> QED BY <1>1, <2>1 DEF Boot, server, channel, loops, telegram
  <1>2. CASE Die /\ life \in 0..MaxLives
    <2>1. Bus!TypeOK'
      <3>1. <<>> \in Seq(Messages) /\ Len(<<>>) = 0
        OBVIOUS
      <3>2. buffer' \in [Bus!Queues -> Seq(Messages)]
            /\ \A q \in Bus!Queues : Len(buffer'[q]) <= Cap
        BY <1>2, <3>1 DEF Die
      <3> QED
        BY <1>2, <3>2 DEF Die, Bus!TypeOK, Bus!PubSteps, Bus!CloseSteps
    <2>2. batch' \in Seq(Updates) /\ taken' \in Seq(Updates)
      BY <1>2 DEF Die
    <2>3. ProcessTypes'
      BY <1>2 DEF Die, telegram
    <2>4. ChannelTypes'
      BY <1>2, <2>2 DEF Die
    <2>5. LoopTypes'
      BY <1>2, <2>2, IdleLoop DEF Die, Nobody
    <2> QED BY <2>1, <2>3, <2>4, <2>5
  <1>3. CASE Signal
    <2>1. Bus!TypeOK'
      BY <1>3, BusStepTypes DEF Signal
    <2> QED BY <1>3, <2>1 DEF Signal, server, channel, loops, telegram, history
  <1>4. CASE CloseBus
    <2>1. Bus!TypeOK'
      BY <1>4, BusStepTypes DEF CloseBus
    <2> QED BY <1>4, <2>1 DEF CloseBus, server, channel, loops, telegram, history
  <1>5. CASE StartGoroutines \/ Shutdown \/ Join \/ SetServer \/ StopServing
    <2>1. Bus!TypeOK'
      BY <1>5 DEF StartGoroutines, Shutdown, Join, SetServer, StopServing, bus,
                  Bus!TypeOK
    <2>2. closing' \in BOOLEAN
      <3>1. CASE Shutdown
        <4>1. closing' = ShutdownTakesEffect
          BY <3>1 DEF Shutdown
        <4>2. ShutdownTakesEffect \in BOOLEAN
          BY DEF ShutdownTakesEffect
        <4> QED BY <4>1, <4>2
      <3>2. CASE ~Shutdown
        BY <1>5, <3>2 DEF StartGoroutines, Join, SetServer, StopServing, server
      <3> QED BY <3>1, <3>2
    <2>3. /\ UNCHANGED <<batch, offset, loops, telegram, history, life>>
          /\ poller' \in {poller, "poll"}
      BY <1>5 DEF StartGoroutines, Shutdown, Join, SetServer, StopServing,
                  channel
    <2> QED
      BY <1>5, <2>1, <2>2, <2>3
      DEF StartGoroutines, Shutdown, Join, SetServer, StopServing, server,
          channel, loops, telegram, history
  <1>6. Boot \/ Die \/ Signal \/ CloseBus
        \/ StartGoroutines \/ Shutdown \/ Join \/ SetServer \/ StopServing
    BY DEF Crash, MainStep, Exit
  <1> QED BY <1>1, <1>2, <1>3, <1>4, <1>5, <1>6

\* What a poll returns: the updates from the first unconfirmed one on.
LEMMA UpdatesFrom ==
    ASSUME NEW first \in 1..(MaxUpdates + 1), NEW last \in 0..MaxUpdates
    PROVE  [i \in 1..(last + 1 - first) |-> first + i - 1] \in Seq(Updates)
  <1>0. MaxUpdates \in Nat
    BY LifecycleAssumption
  <1> DEFINE n == last + 1 - first
             s == [i \in 1..n |-> first + i - 1]
  <1>1. n \in Int
    BY <1>0
  <1>2. \A i \in 1..n : first + i - 1 \in Updates
    BY <1>0 DEF Updates
  <1>3. s \in [1..n -> Updates]
    BY <1>2
  <1>4. CASE n \in Nat
    BY <1>3, <1>4
  <1>5. CASE n \notin Nat
    <2>1. 1..n = 1..0
      BY <1>1, <1>5
    <2> QED BY <1>3, <2>1
  <1> QED BY <1>4, <1>5

\* Polling, dispatching and publishing keep the types (telegram.go:86-124).
LEMMA ChannelStepTypes ==
    ASSUME Typed, ChannelStep
    PROVE  Typed'
  <1> USE LifecycleAssumption DEF Typed, ProcessTypes, ChannelTypes, LoopTypes
  <1>1. CASE Poll
    <2>1. confirmed' \in 1..(MaxUpdates + 1) /\ base \in 1..confirmed'
      BY <1>1 DEF Poll, ConfirmedBy, history
    <2>2. sent' \in 0..MaxUpdates
      BY <1>1 DEF Poll
    <2>3. batch' \in Seq(Updates)
      BY <1>1, <2>1, <2>2, UpdatesFrom DEF Poll
    <2>4. Bus!TypeOK'
      BY <1>1 DEF Poll, bus, Bus!TypeOK
    <2> QED
      BY <1>1, <2>1, <2>2, <2>3, <2>4 DEF Poll, server, loops, history
  <1>2. CASE PollFails \/ StopPolling
    <2>1. Bus!TypeOK'
      BY <1>2 DEF PollFails, StopPolling, bus, Bus!TypeOK
    <2>2. confirmed' \in 1..(MaxUpdates + 1) /\ base \in 1..confirmed'
      BY <1>2 DEF PollFails, StopPolling, ConfirmedBy, telegram
    <2> QED
      BY <1>2, <2>1, <2>2 DEF PollFails, StopPolling, server, channel, loops,
                              telegram, history
  <1>3. CASE Dispatch
    <2>1. Head(batch) \in Updates /\ Tail(batch) \in Seq(Updates)
      BY <1>3, HeadTailProperties DEF Dispatch
    <2>2. offset' \in 0..(MaxUpdates + 1)
      BY <1>3, <2>1 DEF Dispatch, OffsetAfter, Updates
    <2>3. \A m \in InCalls(Head(batch)) : m \in Messages
      BY <2>1, CallsAreMessages
    <2>4. Bus!TypeOK'
      <3>1. CASE UNCHANGED bus
        BY <3>1 DEF bus, Bus!TypeOK
      <3>2. CASE \E m \in InCalls(Head(batch)) : Bus!CheckFlag(m)
        BY <2>3, <3>2, BusStepTypes
      <3> QED BY <1>3, <3>1, <3>2 DEF Dispatch
    <2> QED
      BY <1>3, <2>1, <2>2, <2>4 DEF Dispatch, NextUpdate, server, loops,
                                    telegram, history
  <1>4. CASE PublishUpdate
    <2>1. \A m \in InCalls(Head(batch)) : m \in Messages
      BY <1>4, HeadTailProperties, CallsAreMessages DEF PublishUpdate
    <2>2. Bus!TypeOK'
      BY <1>4, <2>1, BusStepTypes DEF PublishUpdate
    <2> QED
      BY <1>4, <2>2 DEF PublishUpdate, server, channel, loops, telegram, history
  <1>5. CASE Published
    <2>1. Head(batch) \in Updates /\ Tail(batch) \in Seq(Updates)
      BY <1>5, HeadTailProperties DEF Published
    <2>2. Bus!TypeOK'
      BY <1>5 DEF Published, bus, Bus!TypeOK
    <2> QED
      BY <1>5, <2>1, <2>2 DEF Published, NextUpdate, server, loops, telegram
  <1> QED BY <1>1, <1>2, <1>3, <1>4, <1>5 DEF ChannelStep

\* The two loops keep the types (main.go:173-185, 246-265).
LEMMA LoopStepTypes ==
    ASSUME Typed, InLoopStep \/ OutLoopStep
    PROVE  Typed'
  <1> USE LifecycleAssumption DEF Typed, ProcessTypes, ChannelTypes, LoopTypes,
          LoopSteps
  <1>1. CASE TakeInbound
    <2>1. CASE Bus!Receive("inbound")
      <3>1. Bus!TypeOK'
        BY <2>1, BusStepTypes DEF Bus!Queues
      <3>2. Head(buffer["inbound"]) \in Messages
        BY <2>1, HeadTailProperties DEF Bus!Receive, Bus!TypeOK, Bus!Queues
      <3> DEFINE u == Head(buffer["inbound"])[2]
      <3>3. u \in Updates /\ Append(taken, u) \in Seq(Updates)
        BY <3>2, MessageParts, AppendProperties
      <3>4. \/ /\ inLoop' = [at |-> "turn", update |-> u]
               /\ taken' = Append(taken, u)
            \/ inLoop' = [Nobody EXCEPT !.at = "done"] /\ UNCHANGED taken
        BY <1>1 DEF TakeInbound
      <3>5. u \in 0..MaxUpdates
        BY <3>3 DEF Updates
      <3> HIDE DEF u
      <3>6. LoopTypes'
        <4>1. CASE /\ inLoop' = [at |-> "turn", update |-> u]
                   /\ taken' = Append(taken, u)
          BY <3>3, <3>5, <4>1
        <4>2. CASE inLoop' = [Nobody EXCEPT !.at = "done"] /\ UNCHANGED taken
          <5>1. inLoop'.at = "done"
            BY <4>2 DEF Nobody
          <5> QED BY <4>2, <5>1, IdleLoop
        <4> QED BY <3>4, <4>1, <4>2
      <3> QED
        BY <1>1, <3>1, <3>6 DEF TakeInbound, server, channel, telegram
    <2>2. CASE UNCHANGED bus /\ inLoop' = [Nobody EXCEPT !.at = "done"]
                /\ UNCHANGED taken
      <3>1. Bus!TypeOK'
        BY <2>2 DEF bus, Bus!TypeOK
      <3> QED
        BY <1>1, <2>2, <3>1 DEF TakeInbound, Nobody, server, channel, telegram
    <2> QED BY <1>1, <2>1, <2>2 DEF TakeInbound
  <1>2. CASE EndTurn \/ PublishReply
    <2>1. Out(inLoop.update) \in Messages
      BY <1>2 DEF EndTurn, PublishReply, Out, Messages
    <2>2. Bus!TypeOK'
      <3>1. CASE UNCHANGED bus
        BY <3>1 DEF bus, Bus!TypeOK
      <3>2. CASE Bus!CheckFlag(Out(inLoop.update))
                 \/ Publishing(Out(inLoop.update))
        BY <2>1, <3>2, BusStepTypes
      <3> QED BY <1>2, <3>1, <3>2 DEF EndTurn, PublishReply
    <2> QED
      BY <1>2, <2>2 DEF EndTurn, PublishReply, Nobody, server, channel,
                        telegram, history
  <1>3. CASE TakeOutbound
    <2>1. Bus!TypeOK'
      <3>1. CASE UNCHANGED bus
        BY <3>1 DEF bus, Bus!TypeOK
      <3>2. CASE Bus!Receive("outbound")
        BY <3>2, BusStepTypes DEF Bus!Queues
      <3> QED BY <1>3, <3>1, <3>2 DEF TakeOutbound
    <2> QED
      BY <1>3, <2>1 DEF TakeOutbound, server, channel, telegram, history
  <1>4. CASE SendReturns
    <2>1. Bus!TypeOK'
      BY <1>4 DEF SendReturns, bus, Bus!TypeOK
    <2> QED
      BY <1>4, <2>1 DEF SendReturns, server, channel, telegram, history
  <1> QED BY <1>1, <1>2, <1>3, <1>4 DEF InLoopStep, OutLoopStep

LEMMA InitTyped == Init => Typed
  <1> SUFFICES ASSUME Init PROVE Typed
    OBVIOUS
  <1>1. Bus!TypeOK
    BY NewBusTypes DEF Init, Bus!Init
  <1>2. batch \in Seq(Updates) /\ taken \in Seq(Updates)
    BY DEF Init
  <1>3. ProcessTypes
    <2>1. /\ life = 0 /\ main = "off" /\ listener = "off" /\ outLoop = "idle"
          /\ signalled = FALSE /\ closing = FALSE
          /\ sent = 0 /\ confirmed = 1 /\ base = 1 /\ accepted = {}
      BY DEF Init
    <2>2. MaxLives \in Nat /\ MaxUpdates \in Nat
      BY LifecycleAssumption
    <2>3. life \in 0..MaxLives /\ sent \in 0..MaxUpdates
      BY <2>1, <2>2
    <2>4. confirmed \in 1..(MaxUpdates + 1) /\ base \in 1..confirmed
      BY <2>1, <2>2
    <2> QED BY <2>1, <2>3, <2>4 DEF ProcessTypes
  <1>4. ChannelTypes
    BY <1>2, LifecycleAssumption DEF Init, ChannelTypes
  <1>5. LoopTypes
    BY <1>2, IdleLoop DEF Init, Nobody, LoopTypes
  <1> QED
    BY <1>1, <1>3, <1>4, <1>5 DEF Typed

LEMMA StepTyped == Typed /\ [Next]_vars => Typed'
  <1> SUFFICES ASSUME Typed, [Next]_vars PROVE Typed'
    OBVIOUS
  <1>1. CASE UNCHANGED vars
    BY <1>1 DEF vars, server, channel, loops, telegram, history, bus, Typed,
                ProcessTypes, ChannelTypes, LoopTypes, Bus!TypeOK
  <1> QED
    BY <1>1, MainTypes, ChannelStepTypes, LoopStepTypes DEF Next, Quiet

\* Every variable of Lifecycle and of its bus stays within its type.
THEOREM LifecycleTypes == Spec => []TypeOK
  BY InitTyped, StepTyped, TypedIsTypeOK, PTL DEF Spec

-----------------------------------------------------------------------------
(* The bus is closed last                                                  *)

\* Close begins only after run has joined the goroutines, and a call under way
\* belongs to one of the two goroutines that publish.
CloseIsLast ==
    /\ closer["main"] # "idle" \/ shut # {} => main = "closing"
    /\ main = "closing" => poller = "done" /\ inLoop.at = "done"
    /\ main \in {"off", "building"} => poller = "off"

CallsHaveOwners ==
    \A m \in Messages : UnderWay(m) =>
        \/ poller = "publishing" /\ m \in InCalls(Head(batch))
        \/ inLoop.at = "reply" /\ m = Out(inLoop.update)

Joined == ~panicked /\ CloseIsLast /\ CallsHaveOwners

\* What a step of the bus may do to publish calls, Close and the channels.
LEMMA PublishSteps ==
    ASSUME Bus!TypeOK, NEW m \in Messages,
           Bus!CheckFlag(m) \/ Publishing(m),
           shut = {}
    PROVE  /\ \A n \in Messages \ {m} : pub'[n] = pub[n]
           /\ UNCHANGED <<shut, closer, panicked>>
  <1> USE DEF Bus!TypeOK, Bus!PubGoto, Bus!busState, Bus!At
  <1>1. CASE Bus!CheckFlag(m) \/ Bus!CheckDone(m) \/ Bus!Register(m)
             \/ Bus!GiveUp(m)
    BY <1>1 DEF Bus!CheckFlag, Bus!CheckDone, Bus!Register, Bus!GiveUp
  <1>2. CASE Bus!Send(m)
    BY <1>2 DEF Bus!Send
  <1>3. ~Bus!SendOnClosed(m)
    BY DEF Bus!SendOnClosed
  <1> QED BY <1>1, <1>2, <1>3 DEF Publishing

LEMMA CloseSteps ==
    ASSUME Bus!CloseNext("main")
    PROVE  UNCHANGED <<pub, panicked>>
  BY DEF Bus!CloseNext, Bus!CloseDone, Bus!SetFlag, Bus!JoinPublishers,
         Bus!ShutQueue, Bus!Drain, Bus!EndDrain, Bus!CloseAgain

LEMMA InitJoined == Init => Joined
  BY DEF Init, Bus!Init, Joined, CloseIsLast, CallsHaveOwners, UnderWay

\* No step of run closes the bus while somebody may publish (main.go:113-166).
LEMMA StepJoined ==
    ASSUME Typed, Joined, [Next]_vars
    PROVE  Joined'
  <1> USE DEF Joined, CloseIsLast, CallsHaveOwners, UnderWay
  <1>t. Bus!TypeOK
    BY DEF Typed
  <1>1. CASE UNCHANGED vars
    BY <1>1 DEF vars, bus, channel, loops
  <1>2. CASE Boot \/ StartGoroutines \/ Shutdown \/ Join
    <2>1. UNCHANGED <<bus, batch, inLoop>>
      BY <1>2 DEF Boot, StartGoroutines, Shutdown, Join, channel, loops
    <2>2. CASE Join
      BY <1>2, <2>1, <2>2 DEF Join, AllJoined, bus, channel
    <2>3. CASE ~Join
      BY <1>2, <2>1, <2>3 DEF Boot, StartGoroutines, Shutdown, bus, channel
    <2> QED BY <2>2, <2>3
  <1>3. CASE Die
    BY <1>3 DEF Die, Nobody
  <1>4. CASE \/ SetServer \/ StopServing
             \/ Poll \/ PollFails \/ StopPolling \/ SendReturns
    <2>1. /\ UNCHANGED <<bus, main, inLoop>>
          /\ (poller # "publishing" /\ poller # "off") \/ UNCHANGED channel
          /\ poller = "done" => poller' = "done"
      BY <1>4 DEF SetServer, StopServing, Poll, PollFails, StopPolling,
                  SendReturns, loops, channel
    <2> QED BY <2>1 DEF bus, channel
  <1>5. CASE Signal
    BY <1>5 DEF Signal, Bus!Cancel, Bus!busState, channel, loops
  <1>6. CASE CloseBus
    <2>1. /\ UNCHANGED <<main, channel, loops>> /\ main = "closing"
          /\ UNCHANGED <<pub, panicked>>
      BY <1>6, CloseSteps DEF CloseBus
    <2> QED BY <2>1 DEF channel, loops
  <1>7. CASE Dispatch
    <2> DEFINE u == Head(batch)
    <2>1. /\ poller = "batch"
          /\ UNCHANGED <<main, inLoop>>
          /\ u \in Updates
      BY <1>7, HeadTailProperties DEF Dispatch, loops, Typed, ChannelTypes
    <2>2. CASE UNCHANGED bus /\ NextUpdate
      BY <2>1, <2>2 DEF bus, NextUpdate
    <2>3. CASE /\ \E m \in InCalls(u) : Bus!CheckFlag(m)
               /\ poller' = "publishing" /\ UNCHANGED batch
      <3>1. PICK m \in InCalls(u) : Bus!CheckFlag(m)
        BY <2>3
      <3>2. /\ \A n \in Messages \ {m} : pub'[n] = pub[n]
            /\ UNCHANGED <<shut, closer, panicked>>
        BY <1>t, <2>1, <3>1, CallsAreMessages, PublishSteps
      <3> QED BY <2>1, <2>3, <3>1, <3>2
    <2> QED BY <1>7, <2>2, <2>3 DEF Dispatch
  <1>8. CASE PublishUpdate
    <2>0. PICK m \in InCalls(Head(batch)) : Publishing(m)
      BY <1>8 DEF PublishUpdate
    <2>1. /\ poller = "publishing"
          /\ UNCHANGED <<main, poller, batch, inLoop>>
          /\ m \in Messages
      BY <1>8, HeadTailProperties, CallsAreMessages
      DEF PublishUpdate, channel, loops, Typed, ChannelTypes
    <2>2. /\ \A n \in Messages \ {m} : pub'[n] = pub[n]
          /\ UNCHANGED <<shut, closer, panicked>>
      BY <1>t, <2>0, <2>1, PublishSteps
    <2> QED BY <2>0, <2>1, <2>2
  <1>9. CASE Published
    <2>1. /\ \A m \in InCalls(Head(batch)) : ~UnderWay(m)
          /\ poller = "publishing" /\ poller' # "off"
          /\ UNCHANGED <<bus, main, inLoop>>
      BY <1>9 DEF Published, loops, NextUpdate
    <2> QED BY <2>1 DEF bus
  <1>10. CASE TakeInbound
    <2>1. /\ inLoop.at = "idle"
          /\ UNCHANGED <<main, channel, pub, shut, closer, panicked>>
      BY <1>10 DEF TakeInbound, Bus!Receive, bus
    <2> QED BY <2>1 DEF channel
  <1>11. CASE EndTurn
    <2> DEFINE m == Out(inLoop.update)
    <2>1. /\ inLoop.at = "turn" /\ UNCHANGED <<main, poller, batch>>
          /\ m \in Messages
      BY <1>11 DEF EndTurn, channel, Typed, LoopTypes, Out, Messages
    <2>2. CASE UNCHANGED bus /\ inLoop' = Nobody
      BY <2>1, <2>2 DEF bus, Nobody
    <2>3. CASE Bus!CheckFlag(m) /\ inLoop' = [inLoop EXCEPT !.at = "reply"]
      <3>1. /\ \A n \in Messages \ {m} : pub'[n] = pub[n]
            /\ UNCHANGED <<shut, closer, panicked>>
        BY <1>t, <2>1, <2>3, PublishSteps
      <3>2. inLoop'.at = "reply" /\ inLoop'.update = inLoop.update
        BY <2>3 DEF Typed, LoopTypes
      <3> QED BY <2>1, <3>1, <3>2
    <2> QED BY <1>11, <2>2, <2>3 DEF EndTurn
  <1>12. CASE PublishReply
    <2> DEFINE m == Out(inLoop.update)
    <2>1. /\ inLoop.at = "reply" /\ UNCHANGED <<main, poller, batch>>
          /\ m \in Messages
      BY <1>12 DEF PublishReply, channel, Typed, LoopTypes, Out, Messages
    <2>2. CASE Returned(m) /\ inLoop' = Nobody /\ UNCHANGED bus
      BY <2>1, <2>2 DEF bus, Nobody, Returned, Bus!Results
    <2>3. CASE Publishing(m) /\ UNCHANGED inLoop
      <3>1. /\ \A n \in Messages \ {m} : pub'[n] = pub[n]
            /\ UNCHANGED <<shut, closer, panicked>>
        BY <1>t, <2>1, <2>3, PublishSteps
      <3> QED BY <2>1, <2>3, <3>1
    <2> QED BY <1>12, <2>2, <2>3 DEF PublishReply
  <1>13. CASE TakeOutbound
    BY <1>13 DEF TakeOutbound, Bus!Receive, bus, channel
  <1> QED
    BY <1>1, <1>2, <1>3, <1>4, <1>5, <1>6, <1>7, <1>8, <1>9, <1>10, <1>11,
       <1>12, <1>13
    DEF Next, Crash, MainStep, Exit, ChannelStep, InLoopStep, OutLoopStep, Quiet

\* No publish call of run ever sends on a closed channel, whenever the signal
\* comes and whoever is blocked on a full buffer.
THEOREM RunNeverPanics == Spec => []NoSendOnClosedChannel
  <1>1. Init => Typed /\ Joined
    BY InitTyped, InitJoined
  <1>2. (Typed /\ Joined) /\ [Next]_vars => (Typed /\ Joined)'
    BY StepTyped, StepJoined
  <1>3. Joined => NoSendOnClosedChannel
    BY DEF Joined, NoSendOnClosedChannel, Bus!NoSendOnClosedChannel
  <1> QED BY <1>1, <1>2, <1>3, PTL DEF Spec

-----------------------------------------------------------------------------
(* Every step of run is one of a bus that is joined first                  *)

LEMMA InitIsJoinedBus == Init => JoinedBus!Init
  BY DEF Init, Bus!Init, JoinedBus!Init, Bus!Queues, JoinedBus!Queues

\* A publish call begins only before Close (bus.go:36-60).
LEMMA PublishIsJoinedBus ==
    ASSUME Typed, Joined, main # "closing", NEW m \in Messages,
           Bus!CheckFlag(m) \/ Publishing(m)
    PROVE  JoinedBus!Next
  <1>1. closer["main"] = "idle"
    BY DEF Joined, CloseIsLast
  <1>2. CASE Bus!CheckFlag(m)
    <2>1. JoinedBus!MayPublish
      BY <1>1 DEF JoinedBus!MayPublish
    <2> QED
      BY <1>2, <2>1
      DEF Bus!CheckFlag, Bus!At, Bus!PubGoto, Bus!busState,
          JoinedBus!CheckFlag, JoinedBus!At, JoinedBus!PubGoto,
          JoinedBus!busState, JoinedBus!PublishNext, JoinedBus!Next
  <1>3. CASE Publishing(m)
    <2>1. \/ JoinedBus!CheckDone(m) \/ JoinedBus!Register(m)
          \/ JoinedBus!Send(m) \/ JoinedBus!SendOnClosed(m)
          \/ JoinedBus!GiveUp(m)
      BY <1>3
      DEF Publishing, Bus!CheckDone, Bus!Register, Bus!Send, Bus!SendOnClosed,
          Bus!GiveUp, Bus!At, Bus!PubGoto, Bus!busState, Bus!HasRoom,
          JoinedBus!CheckDone, JoinedBus!Register, JoinedBus!Send,
          JoinedBus!SendOnClosed, JoinedBus!GiveUp, JoinedBus!At,
          JoinedBus!PubGoto, JoinedBus!busState, JoinedBus!HasRoom
    <2> QED BY <2>1 DEF JoinedBus!PublishNext, JoinedBus!Next
  <1> QED BY <1>2, <1>3

\* Close begins when no publish call is under way (main.go:113, 165).
LEMMA CloseIsJoinedBus ==
    ASSUME Typed, Joined, main = "closing", Bus!CloseNext("main")
    PROVE  JoinedBus!Next
  <1>1. JoinedBus!NoPublishUnderWay
    BY DEF Joined, CloseIsLast, CallsHaveOwners, UnderWay, Typed, Bus!TypeOK,
           Bus!PubSteps, Bus!Results, JoinedBus!NoPublishUnderWay,
           JoinedBus!Results
  <1>2. CASE Bus!CloseDone("main")
    BY <1>1, <1>2 DEF Bus!CloseDone, Bus!ClosingAt, Bus!CloseGoto,
                      JoinedBus!CloseDone, JoinedBus!ClosingAt,
                      JoinedBus!CloseGoto, JoinedBus!CloseNext, JoinedBus!Next
  <1>3. CASE \/ Bus!SetFlag("main") \/ Bus!JoinPublishers("main")
             \/ Bus!ShutQueue("main") \/ Bus!EndDrain("main")
             \/ Bus!CloseAgain("main")
    BY <1>3
    DEF Bus!SetFlag, Bus!JoinPublishers, Bus!ShutQueue, Bus!EndDrain,
        Bus!CloseAgain, Bus!ClosingAt, Bus!CloseGoto, Bus!WaitGroupIsZero,
        Bus!OnceFinished, JoinedBus!SetFlag, JoinedBus!JoinPublishers,
        JoinedBus!ShutQueue, JoinedBus!EndDrain, JoinedBus!CloseAgain,
        JoinedBus!ClosingAt, JoinedBus!CloseGoto, JoinedBus!WaitGroupIsZero,
        JoinedBus!OnceFinished, JoinedBus!CloseNext, JoinedBus!Next
  <1>4. CASE \E q \in Bus!Queues : Bus!Drain("main", q)
    BY <1>4 DEF Bus!Drain, Bus!ClosingAt, Bus!CloseGoto, Bus!Queues,
                JoinedBus!Drain, JoinedBus!ClosingAt, JoinedBus!CloseGoto,
                JoinedBus!Queues, JoinedBus!CloseNext, JoinedBus!Next
  <1> QED BY <1>2, <1>3, <1>4 DEF Bus!CloseNext

LEMMA StepIsJoinedBus ==
    ASSUME Typed, Joined, [Next]_vars
    PROVE  [JoinedBus!Next \/ Crash \/ Exit]_(JoinedBus!vars)
  <1>1. CASE UNCHANGED bus
    BY <1>1 DEF bus, JoinedBus!vars
  <1>2. CASE Signal
    BY <1>2 DEF Signal, Bus!Cancel, Bus!busState, JoinedBus!Cancel,
                JoinedBus!busState, JoinedBus!Next
  <1>3. CASE CloseBus
    BY <1>3, CloseIsJoinedBus DEF CloseBus
  <1>4. CASE \E m \in Messages : main # "closing"
                /\ (Bus!CheckFlag(m) \/ Publishing(m))
    BY <1>4, PublishIsJoinedBus
  <1>5. CASE \E q \in Bus!Queues : Bus!Receive(q)
    BY <1>5 DEF Bus!Receive, Bus!Queues, JoinedBus!Receive, JoinedBus!Queues,
                JoinedBus!Next
  <1>6. CASE Dispatch \/ PublishUpdate
    <2>1. /\ \A m \in InCalls(Head(batch)) : m \in Messages
          /\ main # "closing"
      BY <1>6, HeadTailProperties, CallsAreMessages
      DEF Dispatch, PublishUpdate, Typed, ChannelTypes, Joined, CloseIsLast
    <2> QED BY <1>1, <1>4, <1>6, <2>1 DEF Dispatch, PublishUpdate
  <1>7. CASE EndTurn \/ PublishReply
    <2>1. Out(inLoop.update) \in Messages /\ main # "closing"
      BY <1>7 DEF EndTurn, PublishReply, Typed, LoopTypes, Out, Messages,
                  Joined, CloseIsLast
    <2> QED BY <1>1, <1>4, <1>7, <2>1 DEF EndTurn, PublishReply
  <1>8. CASE TakeInbound \/ TakeOutbound
    BY <1>1, <1>5, <1>8 DEF TakeInbound, TakeOutbound, Bus!Queues
  <1>9. CASE \/ UNCHANGED vars \/ Quiet
             \/ Boot \/ StartGoroutines \/ Shutdown \/ Join
             \/ SetServer \/ StopServing
             \/ Poll \/ PollFails \/ StopPolling \/ Published \/ SendReturns
    <2>1. UNCHANGED bus
      BY <1>9 DEF vars, Quiet, Boot, StartGoroutines, Shutdown, Join,
                  SetServer, StopServing, Poll, PollFails, StopPolling,
                  Published, SendReturns
    <2> QED BY <1>1, <2>1
  <1>10. CASE Crash \/ Exit
    BY <1>10
  <1> QED
    BY <1>2, <1>3, <1>6, <1>7, <1>8, <1>9, <1>10
    DEF Next, MainStep, ChannelStep, InLoopStep, OutLoopStep

\* run uses the bus as MessageBus with JoinFirst = TRUE describes: nobody
\* publishes once Close has begun (main.go:113-166).
THEOREM RunClosesBusLast == Spec => BusIsClosedLast
  <1>1. Init => Typed /\ Joined
    BY InitTyped, InitJoined
  <1>2. (Typed /\ Joined) /\ [Next]_vars => (Typed /\ Joined)'
    BY StepTyped, StepJoined
  <1>3. (Typed /\ Joined) /\ [Next]_vars
            => [JoinedBus!Next \/ Crash \/ Exit]_(JoinedBus!vars)
    BY StepIsJoinedBus
  <1> QED
    BY <1>1, <1>2, <1>3, InitIsJoinedBus, PTL DEF Spec, BusIsClosedLast

-----------------------------------------------------------------------------
(* No message is forgotten before it was put on the bus                    *)

\* All updates before this one are on the bus, or not for it.
SettledBefore(n) == \A u \in Updates : u < n => u \in accepted \cup Ignored

Consecutive(s) == \A i \in 1..Len(s) : s[i] = s[1] + i - 1

\* The offset of the next poll confirms nothing but what PublishInbound has
\* accepted; while a batch is dispatched the offset may be one ahead.
Kept ==
    /\ SettledBefore(confirmed)
    /\ poller \in {"off", "poll"} => SettledBefore(offset)
    /\ poller \in {"batch", "publishing"} =>
          Consecutive(batch) /\ SettledBefore(Head(batch))
    /\ poller = "publishing" => offset = Head(batch) + 1

LEMMA RestOfBatch ==
    ASSUME NEW s \in Seq(Updates), s # <<>>, Consecutive(s), Tail(s) # <<>>
    PROVE  Consecutive(Tail(s)) /\ Head(Tail(s)) = Head(s) + 1
  <1>0. Head(s) = s[1] /\ s[1] \in Int
    <2>1. Len(s) \in Nat /\ Len(s) # 0
      BY EmptySeq
    <2>2. s[1] \in Updates
      BY <2>1
    <2> QED BY <2>2 DEF Updates
  <1>1. /\ Tail(s) \in Seq(Updates) /\ Len(Tail(s)) = Len(s) - 1
        /\ \A i \in 1..Len(Tail(s)) : Tail(s)[i] = s[i+1]
    BY HeadTailProperties
  <1>2. Len(Tail(s)) \in Nat /\ Len(Tail(s)) # 0 /\ Head(Tail(s)) = Tail(s)[1]
    BY <1>1, EmptySeq
  <1>3. \A i \in 1..Len(Tail(s)) : Tail(s)[i] = s[1] + i
    BY <1>0, <1>1, <1>2 DEF Consecutive
  <1>4. Tail(s)[1] = s[1] + 1
    BY <1>2, <1>3
  <1> QED BY <1>0, <1>1, <1>2, <1>3, <1>4 DEF Consecutive

\* Going on behind an update that is settled.
LEMMA NextIsKept ==
    ASSUME Typed, Typed', Kept, NextUpdate,
           poller \in {"batch", "publishing"},
           offset' = Head(batch) + 1, UNCHANGED confirmed,
           accepted \subseteq accepted',
           Head(batch) \in accepted' \cup Ignored
    PROVE  Kept'
  <1>1. Head(batch) \in Updates /\ batch \in Seq(Updates) /\ batch # <<>>
    BY HeadTailProperties DEF Typed, ChannelTypes
  <1>2. /\ SettledBefore(confirmed)'
        /\ \A u \in Updates : u < Head(batch) + 1 => u \in accepted' \cup Ignored
    BY <1>1 DEF Kept, SettledBefore, Updates
  <1>3. batch' # <<>> =>
            Consecutive(batch)' /\ Head(batch)' = Head(batch) + 1
    BY <1>1, RestOfBatch DEF NextUpdate, Kept, Consecutive
  <1>4. poller' = IF batch' = <<>> THEN "poll" ELSE "batch"
    BY DEF NextUpdate
  <1>5. CASE batch' = <<>>
    BY <1>2, <1>4, <1>5 DEF Kept, SettledBefore
  <1>6. CASE batch' # <<>>
    BY <1>2, <1>3, <1>4, <1>6 DEF Kept, SettledBefore
  <1> QED BY <1>5, <1>6

LEMMA InitKept == Init => Kept
  BY DEF Init, Kept, SettledBefore, Updates

\* telegram.go:93-123: the offset moves on before PublishInbound is called,
\* and the next poll is sent only after it has returned nil.
LEMMA StepKept ==
    ASSUME Typed, Typed', Joined, Kept, [Next]_vars
    PROVE  Kept'
  <1>t. /\ confirmed \in Int /\ offset \in Int
        /\ main \in {"off", "building"} => poller = "off"
    BY LifecycleAssumption
    DEF Typed, ProcessTypes, ChannelTypes, Joined, CloseIsLast
  <1>1. CASE UNCHANGED <<channel, confirmed, accepted>>
    BY <1>1 DEF channel, Kept, SettledBefore, Consecutive
  <1>2. CASE Die
    BY <1>2 DEF Die, telegram, Kept, SettledBefore, Updates
  <1>3. CASE StartGoroutines
    BY <1>3, <1>t DEF StartGoroutines, telegram, history, Kept, SettledBefore
  <1>4. CASE Poll \/ PollFails \/ StopPolling
    <2>1. /\ poller = "poll" /\ UNCHANGED <<offset, accepted>>
          /\ confirmed' \in {confirmed, offset}
          /\ poller' \in {"poll", "batch", "done"}
      BY <1>4 DEF Poll, PollFails, StopPolling, ConfirmedBy, channel, telegram,
                  history
    <2>2. SettledBefore(confirmed)' /\ SettledBefore(offset)'
      BY <2>1 DEF Kept, SettledBefore
    <2>3. poller' = "batch" => Consecutive(batch)' /\ batch'[1] = confirmed'
      <3>1. SUFFICES ASSUME poller' = "batch"
                     PROVE  Consecutive(batch)' /\ batch'[1] = confirmed'
        OBVIOUS
      <3>2. Poll
        BY <1>4, <2>1, <3>1 DEF PollFails, StopPolling, channel
      <3> DEFINE n == sent' + 1 - confirmed'
      <3>3. batch' = [i \in 1..n |-> confirmed' + i - 1] /\ batch' # <<>>
        BY <3>2, <3>1 DEF Poll
      <3>4. n \in Int /\ confirmed' \in Int
        BY LifecycleAssumption DEF Typed, ProcessTypes
      <3>5. batch' \in Seq(Updates) /\ Len(batch') \in Nat
        BY DEF Typed, ChannelTypes
      <3>6. DOMAIN batch' = 1..n /\ DOMAIN batch' = 1..Len(batch')
        BY <3>3, <3>5, LenProperties
      <3>7. Len(batch') # 0
        BY <3>3, <3>5, EmptySeq
      <3>8. 1 \in 1..n /\ batch'[1] = confirmed'
        <4>1. 1 \in 1..Len(batch')
          BY <3>5, <3>7
        <4>2. 1 \in 1..n
          BY <3>6, <4>1
        <4>3. batch'[1] = confirmed' + 1 - 1
          BY ONLY <3>3, <4>2
        <4>4. \A c \in Int : c + 1 - 1 = c
          OBVIOUS
        <4>5. confirmed' \in Int
          BY <3>4
        <4> QED BY ONLY <4>2, <4>3, <4>4, <4>5
      <3>9. \A i \in 1..Len(batch') : batch'[i] = confirmed' + i - 1
        BY <3>3, <3>6
      <3> QED BY <3>8, <3>9 DEF Consecutive
    <2>4. Head(batch)' = batch'[1]
      OBVIOUS
    <2> QED BY <2>1, <2>2, <2>3, <2>4 DEF Kept, SettledBefore
  <1>5. CASE Dispatch
    <2>1. /\ poller = "batch" /\ offset' = Head(batch) + 1
          /\ UNCHANGED <<confirmed, accepted>>
      BY <1>5 DEF Dispatch, OffsetAfter, telegram, history
    <2>2. CASE Head(batch) \in Ignored /\ NextUpdate
      BY <2>1, <2>2, NextIsKept
    <2>3. CASE poller' = "publishing" /\ UNCHANGED batch
      BY <2>1, <2>3 DEF Kept, SettledBefore, Consecutive
    <2> QED BY <1>5, <2>2, <2>3 DEF Dispatch
  <1>6. CASE Published
    <2> DEFINE u == Head(batch)
    <2>1. /\ poller = "publishing" /\ UNCHANGED <<confirmed, offset>>
          /\ offset = u + 1
      BY <1>6 DEF Published, telegram, Kept
    <2>2. CASE accepted' = accepted \cup {u} /\ NextUpdate
      BY <2>1, <2>2, NextIsKept
    <2>3. CASE poller' = "done" /\ UNCHANGED <<accepted, batch>>
      BY <2>1, <2>3 DEF Kept, SettledBefore
    <2> QED BY <1>6, <2>2, <2>3 DEF Published
  <1>7. CASE \/ UNCHANGED vars \/ Quiet
             \/ Boot \/ Signal \/ Shutdown \/ Join \/ CloseBus
             \/ SetServer \/ StopServing \/ PublishUpdate
             \/ InLoopStep \/ OutLoopStep
    <2>1. UNCHANGED <<channel, confirmed, accepted>>
      BY <1>7 DEF vars, Quiet, Boot, Signal, Shutdown, Join, CloseBus,
                  SetServer, StopServing, PublishUpdate, InLoopStep, TakeInbound,
                  EndTurn, PublishReply, OutLoopStep, TakeOutbound, SendReturns,
                  telegram, history
    <2> QED BY <1>1, <2>1
  <1> QED
    BY <1>2, <1>3, <1>4, <1>5, <1>6, <1>7
    DEF Next, Crash, MainStep, Exit, ChannelStep

\* Telegram forgets a message only after PublishInbound has accepted it, for
\* every number of messages, polls, failures and restarts.
THEOREM MessagesAreKept == Spec => []ForgottenWasAccepted
  <1>1. Init => Typed /\ Joined /\ Kept
    BY InitTyped, InitJoined, InitKept
  <1>2. (Typed /\ Joined /\ Kept) /\ [Next]_vars => (Typed /\ Joined /\ Kept)'
    BY StepTyped, StepJoined, StepKept
  <1>3. Kept => ForgottenWasAccepted
    BY DEF Kept, SettledBefore, ForgottenWasAccepted
  <1> QED BY <1>1, <1>2, <1>3, PTL DEF Spec

-----------------------------------------------------------------------------
(* The inbound loop takes the messages in order                            *)

LEMMA NothingEnumerated ==
    ASSUME NEW first \in Int
    PROVE  Enumerates(<<>>, first, first)
  BY DEF Enumerates, ToSet

\* A message goes behind those before it; an ignored update is passed over.
LEMMA EnumerateOne ==
    ASSUME NEW s \in Seq(Updates), NEW first \in Nat, NEW next \in Updates,
           first <= next, Enumerates(s, first, next)
    PROVE  /\ next \notin Ignored => Enumerates(Append(s, next), first, next + 1)
           /\ next \in Ignored => Enumerates(s, first, next + 1)
  <1> DEFINE r == Append(s, next)
  <1>1. /\ Len(s) \in Nat /\ DOMAIN s = 1..Len(s)
        /\ DOMAIN r = 1..(Len(s) + 1) /\ r[Len(s) + 1] = next
        /\ \A i \in 1..Len(s) : r[i] = s[i]
    OBVIOUS
  <1> HIDE DEF r
  <1>2. /\ ToSet(s) = {u \in first..(next - 1) : u \notin Ignored}
        /\ \A i, j \in DOMAIN s : i < j => s[i] < s[j]
    BY DEF Enumerates
  <1>3. next \in Nat
    BY DEF Updates
  <1>4. PICK n \in Nat : n = Len(s)
    BY <1>1
  <1>5. \A i \in DOMAIN r : i \in 1..n \/ i = n + 1
    BY <1>1, <1>4
  <1>6. \A i \in 1..n : s[i] \in first..(next - 1)
    <2>1. \A i \in 1..n : s[i] \in ToSet(s)
      BY <1>1, <1>4 DEF ToSet
    <2> QED BY <1>2, <2>1
  <1>7. ASSUME next \notin Ignored PROVE Enumerates(r, first, next + 1)
    <2>1. ToSet(r) = ToSet(s) \cup {next}
      BY <1>1, <1>4, <1>5 DEF ToSet
    <2>2. {u \in first..next : u \notin Ignored}
            = {u \in first..(next - 1) : u \notin Ignored} \cup {next}
      BY <1>3, <1>7
    <2>3. (next + 1) - 1 = next
      BY <1>3
    <2>4. ASSUME NEW i \in DOMAIN r, NEW j \in DOMAIN r, i < j
          PROVE  r[i] < r[j]
      <3>1. i \in 1..n
        BY <1>1, <1>4, <1>5, <2>4
      <3>2. r[i] = s[i] /\ s[i] < next
        BY <1>1, <1>3, <1>4, <1>6, <3>1
      <3>3. CASE j = n + 1
        BY <1>1, <1>4, <3>2, <3>3
      <3>4. CASE j \in 1..n
        BY <1>1, <1>2, <1>4, <2>4, <3>1, <3>2, <3>4
      <3> QED BY <1>5, <3>3, <3>4
    <2> QED BY <1>2, <2>1, <2>2, <2>3, <2>4 DEF Enumerates
  <1>8. ASSUME next \in Ignored PROVE Enumerates(s, first, next + 1)
    <2>1. {u \in first..next : u \notin Ignored}
            = {u \in first..(next - 1) : u \notin Ignored}
      BY <1>3, <1>8
    <2>2. (next + 1) - 1 = next
      BY <1>3
    <2> QED BY <1>2, <2>1, <2>2 DEF Enumerates
  <1> QED BY <1>7, <1>8 DEF r

\* What stands before a message holds all that were sent before it.
LEMMA EnumeratedPrefix ==
    ASSUME NEW s \in Seq(Updates), NEW r \in Seq(Updates),
           NEW first \in Nat, NEW next \in Nat, first <= next,
           Enumerates(s \o r, first, next)
    PROVE  \E n \in first..next : Enumerates(s, first, n)
  <1> DEFINE c == s \o r
  <1>1. CASE r = <<>>
    <2>1. c = s
      BY <1>1
    <2> QED BY <2>1
  <1>2. CASE r # <<>>
    <2>1. /\ Len(s) \in Nat /\ Len(r) \in Nat /\ Len(r) # 0
          /\ DOMAIN s = 1..Len(s) /\ DOMAIN c = 1..(Len(s) + Len(r))
          /\ \A i \in 1..Len(s) : c[i] = s[i]
          /\ \A i \in 1..Len(r) : c[Len(s) + i] = r[i]
      BY <1>2
    <2>2. /\ ToSet(c) = {u \in first..(next - 1) : u \notin Ignored}
          /\ \A i, j \in DOMAIN c : i < j => c[i] < c[j]
      BY DEF Enumerates
    <2> HIDE DEF c
    <2>3. PICK l \in Nat : l = Len(s)
      BY <2>1
    <2>4. PICK k \in Nat : k = Len(r) /\ k # 0
      BY <2>1
    <2>5. /\ DOMAIN s = 1..l /\ DOMAIN c = 1..(l + k)
          /\ \A i \in 1..l : c[i] = s[i]
          /\ l + 1 \in 1..(l + k)
      BY <2>1, <2>3, <2>4
    <2> DEFINE n == c[l + 1]
    <2>6. \A i \in 1..(l + k) : c[i] \in first..(next - 1) /\ c[i] \notin Ignored
      <3>1. \A i \in 1..(l + k) : c[i] \in ToSet(c)
        BY <2>5 DEF ToSet
      <3> QED BY <2>2, <3>1
    <2>7. n \in first..(next - 1)
      BY <2>5, <2>6
    <2> HIDE DEF n
    <2>8. \A i \in 1..l : c[i] < n
      <3>1. \A i \in 1..l : i \in 1..(l + k) /\ i < l + 1
        BY <2>4
      <3> QED BY <2>2, <2>5, <3>1 DEF n
    <2>9. ToSet(s) = {u \in first..(n - 1) : u \notin Ignored}
      <3>1. ASSUME NEW i \in 1..l
            PROVE  s[i] \in first..(n - 1) /\ s[i] \notin Ignored
        <4>1. i \in 1..(l + k)
          BY <2>4
        <4>2. c[i] \in first..(next - 1) /\ c[i] < n /\ c[i] \notin Ignored
          BY <2>6, <2>8, <4>1
        <4> QED BY <2>5, <2>7, <4>2
      <3>2. ASSUME NEW u \in first..(n - 1), u \notin Ignored
            PROVE  \E i \in 1..l : s[i] = u
        <4>1. u \in ToSet(c) /\ u < n
          BY <2>2, <2>7, <3>2
        <4>2. PICK i \in 1..(l + k) : c[i] = u
          BY <2>5, <4>1 DEF ToSet
        <4>3. ~(l + 1 < i)
          <5>1. l + 1 < i => n < c[i]
            BY <2>2, <2>5 DEF n
          <5> QED BY <2>7, <4>1, <4>2, <5>1
        <4>4. i # l + 1
          BY <2>7, <4>1, <4>2 DEF n
        <4>5. i \in 1..l
          BY <4>3, <4>4
        <4> QED BY <2>5, <4>2, <4>5
      <3> QED BY <2>5, <3>1, <3>2 DEF ToSet
    <2>10. \A i, j \in DOMAIN s : i < j => s[i] < s[j]
      <3>1. \A i \in 1..l : i \in 1..(l + k)
        BY <2>4
      <3> QED BY <2>2, <2>5, <3>1
    <2>11. Enumerates(s, first, n)
      BY <2>9, <2>10 DEF Enumerates
    <2>12. n \in first..next
      BY <2>7
    <2> QED BY <2>11, <2>12
  <1> QED BY <1>1, <1>2

\* The call that puts an update on the bus, and the updates in a buffer.
Line(u) == <<"inbound", u, 1>>

Names(b) == [i \in DOMAIN b |-> b[i][2]]

\* What the inbound loop has taken and will take from the buffer.
Flow == taken \o Names(buffer["inbound"])

LEMMA LinesAreMessages ==
    ASSUME NEW u \in Updates
    PROVE  /\ Line(u) \in Messages
           /\ <<"inbound", u, 2>> \in Messages
  BY DEF Line, Messages

LEMMA NamesTypes ==
    ASSUME NEW b \in Seq(Messages)
    PROVE  Names(b) \in Seq(Updates)
  <1>1. \A i \in 1..Len(b) : b[i][2] \in Updates
    BY MessageParts
  <1> QED BY <1>1 DEF Names

LEMMA NamesAppend ==
    ASSUME NEW b \in Seq(Messages), NEW m \in Messages
    PROVE  Names(Append(b, m)) = Append(Names(b), m[2])
  <1> DEFINE c == Append(b, m)
             d == Append(Names(b), m[2])
  <1>1. /\ c \in Seq(Messages) /\ Len(c) = Len(b) + 1 /\ c[Len(b) + 1] = m
        /\ \A i \in 1..Len(b) : c[i] = b[i]
        /\ Len(b) \in Nat
    OBVIOUS
  <1>2. m[2] \in Updates
    BY MessageParts
  <1>3. Names(b) \in Seq(Updates) /\ Len(Names(b)) = Len(b)
        /\ \A i \in 1..Len(b) : Names(b)[i] = b[i][2]
    BY NamesTypes DEF Names
  <1>4. /\ d \in Seq(Updates) /\ Len(d) = Len(b) + 1 /\ d[Len(b) + 1] = m[2]
        /\ \A i \in 1..Len(b) : d[i] = Names(b)[i]
    BY <1>2, <1>3
  <1> HIDE DEF c, d
  <1>5. Names(c) \in Seq(Updates) /\ Len(Names(c)) = Len(c)
        /\ \A i \in 1..Len(c) : Names(c)[i] = c[i][2]
    <2>1. c \in Seq(Messages)
      BY <1>1
    <2> QED BY ONLY <2>1, NamesTypes DEF Names
  <1>6. \A i \in 1..Len(c) : Names(c)[i] = d[i]
    BY <1>1, <1>3, <1>4, <1>5
  <1>7. Names(c) = d
    BY <1>1, <1>4, <1>5, <1>6
  <1> QED BY <1>7 DEF c, d

LEMMA NamesHead ==
    ASSUME NEW b \in Seq(Messages), b # <<>>
    PROVE  Names(b) = <<Head(b)[2]>> \o Names(Tail(b))
  <1> DEFINE c == Tail(b)
             d == <<Head(b)[2]>> \o Names(c)
  <1>1. /\ c \in Seq(Messages) /\ Len(c) = Len(b) - 1 /\ Len(b) \in Nat
        /\ Len(b) # 0 /\ Head(b) = b[1] /\ b[1] \in Messages
        /\ \A i \in 1..Len(c) : c[i] = b[i + 1]
    BY HeadTailProperties, EmptySeq
  <1>2. /\ Head(b)[2] \in Updates
        /\ <<Head(b)[2]>> \in Seq(Updates) /\ Len(<<Head(b)[2]>>) = 1
    BY <1>1, MessageParts
  <1> HIDE DEF c
  <1>3. Names(c) \in Seq(Updates) /\ Len(Names(c)) = Len(c)
        /\ \A i \in 1..Len(c) : Names(c)[i] = c[i][2]
    BY <1>1, NamesTypes DEF Names
  <1>4. Names(b) \in Seq(Updates) /\ Len(Names(b)) = Len(b)
        /\ \A i \in 1..Len(b) : Names(b)[i] = b[i][2]
    BY NamesTypes DEF Names
  <1>5. /\ d \in Seq(Updates) /\ Len(d) = 1 + Len(c) /\ d[1] = Head(b)[2]
        /\ \A i \in 1..Len(c) : d[1 + i] = Names(c)[i]
    BY <1>2, <1>3
  <1> HIDE DEF d
  <1>6. ASSUME NEW i \in 1..Len(b) PROVE Names(b)[i] = d[i]
    <2>1. CASE i = 1
      BY <1>1, <1>4, <1>5, <2>1
    <2>2. CASE i # 1
      <3>1. PICK j \in 1..Len(c) : i = 1 + j
        <4>1. i - 1 \in 1..Len(c) /\ i = 1 + (i - 1)
          BY <1>1, <2>2
        <4> QED BY <4>1
      <3>2. c[j] = b[i]
        BY <1>1, <3>1
      <3> QED BY <1>3, <1>4, <1>5, <3>1, <3>2
    <2> QED BY <2>1, <2>2
  <1>7. Len(Names(b)) = Len(d)
    BY <1>1, <1>4, <1>5
  <1>8. Names(b) = d
    BY <1>4, <1>5, <1>6, <1>7
  <1> QED BY <1>8 DEF c, d

LEMMA FlowAppend ==
    ASSUME NEW s \in Seq(Updates), NEW r \in Seq(Updates), NEW u \in Updates
    PROVE  s \o Append(r, u) = Append(s \o r, u)
  OBVIOUS

LEMMA FlowMoves ==
    ASSUME NEW s \in Seq(Updates), NEW r \in Seq(Updates), NEW u \in Updates
    PROVE  Append(s, u) \o r = s \o (<<u>> \o r)
  OBVIOUS


\* The first update whose publish call has not begun, and the first one that
\* is not on the bus; neither means anything once the channel is done.
Undispatched ==
    IF poller = "off" THEN base
    ELSE IF poller = "poll" THEN ConfirmedBy(offset)
    ELSE IF poller = "batch" THEN Head(batch)
    ELSE Head(batch) + 1

Unpublished ==
    IF poller = "publishing" /\ pub[Line(Head(batch))] # "accepted"
      THEN Head(batch)
      ELSE Undispatched

\* Each update has at most one publish call, and they begin in order.
OneCallEach ==
    /\ \A u \in Updates : pub[<<"inbound", u, 2>>] = "idle"
    /\ poller # "done" =>
          \A u \in Updates : u >= Undispatched => pub[Line(u)] = "idle"
    /\ poller = "publishing" =>
          /\ Head(batch) \notin Ignored
          /\ pub[Line(Head(batch))] # "idle"

\* A batch holds what users have sent and not confirmed.
WithinSent ==
    /\ confirmed <= sent + 1 /\ offset <= sent + 1
    /\ poller \in {"batch", "publishing"} =>
          /\ confirmed <= Head(batch)
          /\ \A i \in 1..Len(batch) : batch[i] <= sent

\* A process begins with nothing and what Telegram has kept.
NewLife ==
    /\ main \in {"off", "building"} =>
          taken = <<>> /\ buffer["inbound"] = <<>> /\ offset = 0
    /\ main = "building" => base = confirmed

\* Until Close drains the bus, what was taken and what waits in the buffer are
\* all messages of this life up to the next one to publish, in order.
FlowUpTo(n) ==
    /\ n \in base..(sent + 1)
    /\ Enumerates(Flow, base, n)
    /\ poller # "done" => n = Unpublished

FlowInOrder ==
    IF main = "closing" THEN TakenInOrder ELSE \E n \in Int : FlowUpTo(n)

InOrder == OneCallEach /\ WithinSent /\ NewLife /\ FlowInOrder

\* The inbound queue and what was taken from it are left alone.
InboundStays ==
    /\ UNCHANGED <<channel, telegram, base, taken>>
    /\ main' = main \/ (main = "running" /\ main' = "joining")
    /\ buffer'["inbound"] = buffer["inbound"]
    /\ \A u \in Updates : /\ pub'[Line(u)] = pub[Line(u)]
                          /\ pub'[<<"inbound", u, 2>>] = pub[<<"inbound", u, 2>>]

LEMMA TypedChannel ==
    ASSUME Typed
    PROVE  /\ MaxUpdates \in Nat
           /\ sent \in Nat /\ confirmed \in Nat /\ base \in Nat /\ offset \in Nat
           /\ base >= 1 /\ base <= confirmed
           /\ batch \in Seq(Updates) /\ taken \in Seq(Updates)
           /\ buffer["inbound"] \in Seq(Messages)
           /\ poller \in {"batch", "publishing"} =>
                 /\ batch # <<>> /\ Head(batch) \in Updates
                 /\ Head(batch) \in Nat
  BY HeadTailProperties, LifecycleAssumption
  DEF Typed, ProcessTypes, ChannelTypes, LoopTypes, Bus!TypeOK, Bus!Queues,
      Updates

LEMMA FlowTypes ==
    ASSUME Typed
    PROVE  Names(buffer["inbound"]) \in Seq(Updates) /\ Flow \in Seq(Updates)
  <1>1. Names(buffer["inbound"]) \in Seq(Updates)
    BY TypedChannel, NamesTypes
  <1> QED BY <1>1, TypedChannel DEF Flow

\* What keeps the inbound side keeps its order.
LEMMA StaysInOrder ==
    ASSUME Typed, InOrder, InboundStays
    PROVE  InOrder'
  <1>1. Flow' = Flow
    BY DEF Flow, Names, InboundStays
  <1>2. poller # "done" => Undispatched' = Undispatched
    BY DEF Undispatched, ConfirmedBy, InboundStays, channel, telegram
  <1>3. poller # "done" => Unpublished' = Unpublished
    BY <1>2, TypedChannel DEF Unpublished, InboundStays, channel
  <1>4. OneCallEach'
    <2>1. /\ \A u \in Updates : pub'[<<"inbound", u, 2>>] = "idle"
          /\ UNCHANGED <<poller, batch>>
      BY DEF InOrder, OneCallEach, InboundStays, channel
    <2>2. poller # "done" =>
            \A u \in Updates : u >= Undispatched' => pub'[Line(u)] = "idle"
      BY <1>2 DEF InOrder, OneCallEach, InboundStays
    <2>3. poller = "publishing" =>
            Head(batch) \notin Ignored /\ pub'[Line(Head(batch))] # "idle"
      BY TypedChannel DEF InOrder, OneCallEach, InboundStays
    <2>4. \A u : Line(u)' = Line(u)
      BY DEF Line
    <2> QED BY <2>1, <2>2, <2>3, <2>4 DEF OneCallEach
  <1>5. WithinSent'
    BY DEF InOrder, WithinSent, InboundStays, channel, telegram
  <1>6. NewLife'
    BY DEF InOrder, NewLife, InboundStays, channel, telegram
  <1>7. FlowInOrder'
    <2>1. CASE main = "closing"
      <3>1. TakenInOrder /\ UNCHANGED <<main, taken, base, sent>>
        BY <2>1 DEF InOrder, FlowInOrder, InboundStays, telegram
      <3> QED BY <2>1, <3>1 DEF FlowInOrder, TakenInOrder, Enumerates
    <2>2. CASE main # "closing"
      <3>1. PICK n \in Int : FlowUpTo(n)
        BY <2>2 DEF InOrder, FlowInOrder
      <3>2. UNCHANGED <<base, sent, poller>> /\ main' # "closing"
        BY <2>2 DEF InboundStays, channel, telegram
      <3>3. FlowUpTo(n)'
        BY <1>1, <1>3, <3>1, <3>2 DEF FlowUpTo, Enumerates
      <3> QED BY <2>2, <3>2, <3>3 DEF FlowInOrder
    <2> QED BY <2>1, <2>2
  <1> QED BY <1>4, <1>5, <1>6, <1>7 DEF InOrder

\* In order, a prefix of the flow is.
LEMMA FlowImpliesTaken ==
    ASSUME Typed, InOrder
    PROVE  TakenInOrder
  <1>1. CASE main = "closing"
    BY <1>1 DEF InOrder, FlowInOrder
  <1>2. CASE main # "closing"
    <2>1. PICK n \in Int : FlowUpTo(n)
      BY <1>2 DEF InOrder, FlowInOrder
    <2>2. /\ n \in base..(sent + 1) /\ n \in Nat /\ base <= n
          /\ Enumerates(taken \o Names(buffer["inbound"]), base, n)
      BY <2>1, TypedChannel DEF FlowUpTo, Flow
    <2>3. \E k \in base..n : Enumerates(taken, base, k)
      <3> DEFINE r == Names(buffer["inbound"])
      <3>1. r \in Seq(Updates) /\ taken \in Seq(Updates) /\ base \in Nat
            /\ Enumerates(taken \o r, base, n)
        BY <2>2, FlowTypes, TypedChannel
      <3> HIDE DEF r
      <3> QED BY <2>2, <3>1, EnumeratedPrefix
    <2>4. \A k \in base..n : k \in base..(sent + 1)
      BY <2>2, TypedChannel
    <2> QED BY <2>3, <2>4 DEF TakenInOrder
  <1> QED BY <1>1, <1>2


-----------------------------------------------------------------------------
(* ... step by step                                                        *)

\* A process that has just begun or ended.
NewProcess ==
    /\ Typed
    /\ main = "off" /\ poller = "off" /\ offset = 0
    /\ taken = <<>> /\ buffer["inbound"] = <<>>
    /\ \A m \in Messages : pub[m] = "idle"
    /\ confirmed <= sent + 1

LEMMA NewProcessInOrder == NewProcess => InOrder
  <1> SUFFICES ASSUME NewProcess PROVE InOrder
    OBVIOUS
  <1>1. OneCallEach
    BY LinesAreMessages DEF NewProcess, OneCallEach
  <1>2. WithinSent
    BY TypedChannel DEF NewProcess, WithinSent
  <1>3. NewLife
    BY DEF NewProcess, NewLife
  <1>4. FlowUpTo(base)
    <2>1. Flow = <<>>
      <3>1. Names(<<>>) = <<>>
        BY DEF Names
      <3> QED BY <3>1 DEF NewProcess, Flow
    <2>2. base \in base..(sent + 1) /\ base \in Int
      BY TypedChannel DEF NewProcess
    <2>3. Unpublished = base
      BY DEF NewProcess, Unpublished, Undispatched
    <2> QED BY <2>1, <2>2, <2>3, NothingEnumerated DEF FlowUpTo
  <1>5. FlowInOrder
    BY <1>4, TypedChannel DEF FlowInOrder, NewProcess
  <1> QED BY <1>1, <1>2, <1>3, <1>5 DEF InOrder

LEMMA InitInOrder == Init => InOrder
  <1> SUFFICES ASSUME Init PROVE InOrder
    OBVIOUS
  <1>1. Typed
    BY InitTyped
  <1>2. NewProcess
    BY <1>1 DEF Init, Bus!Init, NewProcess, Bus!Queues
  <1> QED BY <1>2, NewProcessInOrder

LEMMA EndInOrder ==
    ASSUME Typed', InOrder, Die
    PROVE  InOrder'
  <1>1. NewProcess'
    BY DEF NewProcess, Die, Bus!Queues, telegram, InOrder, WithinSent
  <1>2. NewProcess' => InOrder'
    BY NewProcessInOrder, PTL
  <1> QED BY <1>1, <1>2

\* A life begins with what Telegram has not been told to forget.
LEMMA BeginInOrder ==
    ASSUME Typed, Typed', Joined, InOrder, Boot \/ StartGoroutines
    PROVE  InOrder'
  <1>1. /\ main \in {"off", "building"} /\ poller = "off"
        /\ taken = <<>> /\ buffer["inbound"] = <<>> /\ offset = 0
        /\ confirmed <= sent + 1 /\ base <= confirmed
        /\ \A u \in Updates : u >= base => pub[Line(u)] = "idle"
        /\ \A u \in Updates : pub[<<"inbound", u, 2>>] = "idle"
    BY TypedChannel DEF Boot, StartGoroutines, Joined, CloseIsLast, InOrder,
                        NewLife, WithinSent, OneCallEach, Undispatched
  <1>2. /\ UNCHANGED <<taken, buffer, offset, confirmed, sent, pub>>
        /\ base' = confirmed
        /\ \/ main' = "building" /\ poller' = "off"
           \/ main' = "running" /\ poller' = "poll"
    BY <1>1 DEF Boot, StartGoroutines, bus, channel, telegram, history, InOrder,
                NewLife
  <1>3. Undispatched' = base' /\ Unpublished' = base'
    BY <1>1, <1>2, TypedChannel DEF Undispatched, Unpublished, ConfirmedBy
  <1>4. \A u \in Updates : u >= base' => u >= base
    BY <1>1, <1>2, TypedChannel DEF Updates
  <1>5. OneCallEach'
    <2>1. \A u : Line(u)' = Line(u)
      BY DEF Line
    <2> QED BY <1>1, <1>2, <1>3, <1>4, <2>1 DEF OneCallEach
  <1>6. WithinSent'
    BY <1>1, <1>2, TypedChannel DEF WithinSent
  <1>7. NewLife'
    BY <1>1, <1>2 DEF NewLife
  <1>8. PICK b : b = base'
    OBVIOUS
  <1>9. FlowUpTo(b)' /\ b \in Int
    <2>1. Flow' = <<>>
      <3>1. Names(<<>>) = <<>>
        BY DEF Names
      <3>2. taken' = <<>> /\ Names(buffer["inbound"])' = Names(<<>>)
        BY <1>1, <1>2 DEF Names
      <3> QED BY <3>1, <3>2 DEF Flow
    <2>2. b \in base'..(sent' + 1) /\ b \in Int
      BY <1>1, <1>2, <1>8, TypedChannel
    <2>3. Enumerates(<<>>, b, b)
      BY <2>2, NothingEnumerated
    <2>4. Enumerates(Flow', base', b)
      BY <1>8, <2>1, <2>3
    <2> QED BY <1>3, <1>8, <2>2, <2>4 DEF FlowUpTo, Enumerates
  <1>10. FlowInOrder'
    BY <1>2, <1>9 DEF FlowInOrder
  <1> QED BY <1>5, <1>6, <1>7, <1>10 DEF InOrder


\* What a poll returns begins with the first unconfirmed update.
LEMMA BatchOfPoll ==
    ASSUME NEW first \in 1..(MaxUpdates + 1), NEW last \in 0..MaxUpdates,
           NEW s \in Seq(Updates), s # <<>>,
           s = [i \in 1..(last + 1 - first) |-> first + i - 1]
    PROVE  Head(s) = first /\ \A i \in 1..Len(s) : s[i] <= last
  <1>0. MaxUpdates \in Nat /\ first \in Int /\ last \in Int
    BY LifecycleAssumption
  <1>1. PICK n \in Int : n = last + 1 - first
    BY <1>0
  <1>2. s = [i \in 1..n |-> first + i - 1]
    BY <1>1
  <1>3. PICK l \in Nat : l = Len(s)
    OBVIOUS
  <1>4. l # 0
    BY <1>3, EmptySeq
  <1>5. 1..n = 1..l
    BY <1>2, <1>3, LenProperties
  <1>6. \A i \in 1..l : s[i] = first + i - 1
    BY <1>2, <1>5
  <1>7. \A i \in 1..l : i <= n
    BY <1>0, <1>1, <1>5
  <1>8. \A i \in 1..l : first + i - 1 <= last
    BY <1>0, <1>1, <1>7
  <1>9. 1 \in 1..l /\ first + 1 - 1 = first
    BY <1>0, <1>4
  <1>10. Head(s) = s[1]
    OBVIOUS
  <1> QED BY <1>3, <1>6, <1>8, <1>9, <1>10

\* Polling, failing and giving up leave no update out and fetch none twice.
LEMMA PollInOrder ==
    ASSUME Typed, Typed', Joined, InOrder, Poll \/ PollFails \/ StopPolling
    PROVE  InOrder'
  <1>1. /\ poller = "poll" /\ UNCHANGED <<main, offset, base, taken, pub, buffer>>
        /\ confirmed' \in {confirmed, ConfirmedBy(offset)} /\ sent <= sent'
        /\ \/ poller' \in {"poll", "done"}
           \/ poller' = "batch" /\ Poll /\ batch' # <<>>
    <2>1. CASE Poll
      <3>1. sent' \in sent..MaxUpdates
        BY <2>1 DEF Poll
      <3>2. sent <= sent'
        BY <3>1, TypedChannel
      <3>3. /\ poller = "poll"
            /\ UNCHANGED <<main, offset, base, taken, pub, buffer>>
            /\ confirmed' = ConfirmedBy(offset)
            /\ poller' = "poll" \/ (poller' = "batch" /\ batch' # <<>>)
        BY <2>1 DEF Poll, history, bus
      <3> QED BY <2>1, <3>2, <3>3
    <2>2. CASE PollFails \/ StopPolling
      <3>1. sent' = sent /\ sent <= sent'
        BY <2>2, TypedChannel DEF PollFails, StopPolling, telegram
      <3> QED
        BY <2>2, <3>1 DEF PollFails, StopPolling, channel, telegram, history, bus
    <2> QED BY <2>1, <2>2
  <1>2. confirmed <= sent + 1 /\ offset <= sent + 1 /\ main # "closing"
    BY <1>1 DEF InOrder, WithinSent, Joined, CloseIsLast
  <1>3. /\ sent \in Nat /\ sent' \in Nat /\ confirmed \in Nat /\ offset \in Nat
        /\ confirmed' \in Nat
    BY <1>1, TypedChannel DEF Poll, ConfirmedBy, Typed, ProcessTypes
  <1>4. PICK c \in Nat : c = ConfirmedBy(offset)
    BY <1>3 DEF ConfirmedBy
  <1>5. poller' = "batch" =>
          /\ Head(batch') = c /\ confirmed' = c
          /\ \A i \in 1..Len(batch') : batch'[i] <= sent'
    <2> SUFFICES ASSUME poller' = "batch"
                 PROVE  /\ Head(batch') = c /\ confirmed' = c
                        /\ \A i \in 1..Len(batch') : batch'[i] <= sent'
      OBVIOUS
    <2>1. /\ batch' = [i \in 1..(sent' + 1 - confirmed') |-> confirmed' + i - 1]
          /\ batch' # <<>> /\ confirmed' = c
      BY <1>1, <1>4 DEF Poll
    <2>2. /\ confirmed' \in 1..(MaxUpdates + 1) /\ sent' \in 0..MaxUpdates
          /\ batch' \in Seq(Updates)
      BY DEF Typed, ProcessTypes, ChannelTypes
    <2> QED BY <2>1, <2>2, BatchOfPoll
  <1>6. poller' # "done" => Undispatched' = c /\ Unpublished' = c
    <2>1. CASE poller' = "poll"
      <3>1. ConfirmedBy(offset)' = c
        BY <1>1, <1>3, <1>4 DEF ConfirmedBy
      <3> QED BY <2>1, <3>1 DEF Undispatched, Unpublished
    <2>2. CASE poller' = "batch"
      BY <1>5, <2>2 DEF Undispatched, Unpublished
    <2> QED BY <1>1, <2>1, <2>2
  <1>7. Undispatched = c /\ Unpublished = c
    BY <1>1, <1>4 DEF Undispatched, Unpublished
  <1>8. OneCallEach'
    <2>1. \A u : Line(u)' = Line(u)
      BY DEF Line
    <2>2. poller' # "publishing"
      BY <1>1
    <2> QED BY <1>1, <1>6, <1>7, <2>1, <2>2 DEF InOrder, OneCallEach
  <1>9. WithinSent'
    <2>1. c <= sent + 1
      BY <1>2, <1>4 DEF ConfirmedBy
    <2>0. \A a, b, d \in Nat : a <= b /\ d <= a + 1 => d <= b + 1
      OBVIOUS
    <2>2. confirmed' <= sent' + 1
      <3>1. confirmed' \in {confirmed, c} /\ confirmed' <= sent + 1
        BY <1>1, <1>2, <1>4, <2>1
      <3>2. sent <= sent'
        BY <1>1
      <3> QED BY <1>3, <2>0, <3>1, <3>2
    <2>3. offset' <= sent' + 1
      <3>1. sent <= sent' /\ offset' = offset /\ offset <= sent + 1
        BY <1>1, <1>2
      <3>2. offset' \in Nat
        BY <1>3, <3>1
      <3> QED BY <1>3, <2>0, <3>1, <3>2
    <2>4. poller' # "publishing" /\ (poller' = "batch" => confirmed' <= c)
      BY <1>1, <1>3, <1>5
    <2> QED BY <1>5, <2>2, <2>3, <2>4 DEF WithinSent
  <1>10. NewLife'
    <2>1. main \notin {"off", "building"}
      BY <1>1 DEF Joined, CloseIsLast
    <2> QED BY <1>1, <2>1 DEF NewLife
  <1>11. FlowUpTo(c)'
    <2>1. FlowUpTo(c)
      BY <1>1, <1>2, <1>7 DEF InOrder, FlowInOrder, FlowUpTo
    <2>2. Flow' = Flow
      BY <1>1 DEF Flow, Names
    <2>3. c \in base..(sent' + 1)
      BY <1>1, <1>3, <2>1, TypedChannel DEF FlowUpTo
    <2> QED BY <1>1, <1>6, <2>1, <2>2, <2>3 DEF FlowUpTo, Enumerates
  <1>12. FlowInOrder'
    BY <1>1, <1>2, <1>11 DEF FlowInOrder
  <1> QED BY <1>8, <1>9, <1>10, <1>12 DEF InOrder

\* When the goroutines are joined the loop is over, and what it has taken
\* stays as it is while Close drains the rest.
LEMMA CloseInOrder ==
    ASSUME Typed, Joined, InOrder, Join \/ CloseBus
    PROVE  InOrder'
  <1>1. /\ poller = "done" /\ main' = "closing"
        /\ UNCHANGED <<channel, telegram, base, taken, pub>>
    BY CloseSteps DEF Join, AllJoined, CloseBus, Joined, CloseIsLast, bus,
                      history
  <1>2. TakenInOrder'
    BY <1>1, FlowImpliesTaken DEF TakenInOrder, Enumerates, telegram
  <1> QED
    BY <1>1, <1>2 DEF InOrder, OneCallEach, WithinSent, NewLife, FlowInOrder,
                      channel, telegram


\* What a step of a publish call does to the call and to the buffers.
LEMMA CallSteps ==
    ASSUME Bus!TypeOK, NEW m \in Messages,
           Bus!CheckFlag(m) \/ Publishing(m),
           shut = {}
    PROVE  /\ pub[m] # "accepted" /\ pub'[m] # "idle"
           /\ \/ buffer' = buffer /\ pub'[m] # "accepted"
              \/ /\ buffer' = [buffer EXCEPT ![m[1]] = Append(@, m)]
                 /\ pub'[m] = "accepted"
  <1> USE DEF Bus!TypeOK, Bus!PubGoto, Bus!busState, Bus!At
  <1>1. CASE Bus!CheckFlag(m) \/ Bus!CheckDone(m) \/ Bus!Register(m)
             \/ Bus!GiveUp(m)
    BY <1>1 DEF Bus!CheckFlag, Bus!CheckDone, Bus!Register, Bus!GiveUp
  <1>2. CASE Bus!Send(m)
    BY <1>2 DEF Bus!Send
  <1>3. ~Bus!SendOnClosed(m)
    BY DEF Bus!SendOnClosed
  <1> QED BY <1>1, <1>2, <1>3 DEF Publishing

\* The calls that are on the outbound queue leave the inbound one alone.
LEMMA RepliesStayInOrder ==
    ASSUME Typed, Joined, InOrder, main # "closing", NEW u \in Updates,
           Bus!CheckFlag(Out(u)) \/ Publishing(Out(u)),
           UNCHANGED <<main, channel, telegram, base, taken>>
    PROVE  InOrder'
  <1>1. Bus!TypeOK /\ shut = {} /\ Out(u) \in Messages
    BY CallsAreMessages DEF Typed, Joined, CloseIsLast
  <1>2. /\ \A n \in Messages \ {Out(u)} : pub'[n] = pub[n]
        /\ \/ buffer' = buffer
           \/ buffer' = [buffer EXCEPT ![Out(u)[1]] = Append(@, Out(u))]
    BY <1>1, PublishSteps, CallSteps
  <1>3. buffer'["inbound"] = buffer["inbound"]
    BY <1>1, <1>2 DEF Out, Bus!TypeOK, Bus!Queues
  <1>4. \A v \in Updates : Line(v) # Out(u) /\ <<"inbound", v, 2>> # Out(u)
    BY DEF Line, Out
  <1>5. InboundStays
    BY <1>2, <1>3, <1>4, LinesAreMessages DEF InboundStays
  <1> QED BY <1>5, StaysInOrder

\* What the step of the poller finds: its update, and where the flow ends.
LEMMA AtUpdate ==
    ASSUME Typed, Joined, InOrder, poller \in {"batch", "publishing"}
    PROVE  /\ main \notin {"off", "building", "closing"}
           /\ shut = {}
           /\ base <= Head(batch) /\ Head(batch) <= sent
           /\ \A u \in Updates :
                u >= Head(batch) + 1 => pub[Line(u)] = "idle"
           /\ poller = "batch" \/ pub[Line(Head(batch))] # "accepted"
                => FlowUpTo(Head(batch))
           /\ poller = "publishing" /\ pub[Line(Head(batch))] = "accepted"
                => FlowUpTo(Head(batch) + 1)
  <1>1. /\ batch \in Seq(Updates) /\ batch # <<>> /\ Head(batch) \in Updates
        /\ Head(batch) \in Nat /\ confirmed \in Nat /\ base \in Nat
        /\ base <= confirmed /\ sent \in Nat
    BY TypedChannel
  <1>2. main \notin {"off", "building", "closing"} /\ shut = {}
    BY DEF Joined, CloseIsLast
  <1>3. confirmed <= Head(batch) /\ \A i \in 1..Len(batch) : batch[i] <= sent
    BY DEF InOrder, WithinSent
  <1>4. Head(batch) <= sent
    <2>1. Len(batch) \in Nat /\ Len(batch) # 0 /\ Head(batch) = batch[1]
      BY <1>1, EmptySeq
    <2> QED BY <1>3, <2>1
  <1>5. base <= Head(batch)
    BY <1>1, <1>3
  <1>6. \A u \in Updates : u >= Head(batch) + 1 => pub[Line(u)] = "idle"
    <2>1. \A u \in Updates : u >= Undispatched => pub[Line(u)] = "idle"
      BY DEF InOrder, OneCallEach
    <2>2. \A u \in Updates : u >= Head(batch) + 1 => u >= Undispatched
      BY <1>1 DEF Undispatched, Updates
    <2> QED BY <2>1, <2>2
  <1>7. FlowUpTo(Unpublished)
    BY <1>2 DEF InOrder, FlowInOrder, FlowUpTo
  <1> QED
    BY <1>2, <1>4, <1>5, <1>6, <1>7 DEF Unpublished, Undispatched


\* Going on behind an update that is on the bus, or not for it.
LEMMA NextInOrder ==
    ASSUME Typed, Typed', Joined, Kept, InOrder, NextUpdate,
           poller \in {"batch", "publishing"}, offset' = Head(batch) + 1,
           UNCHANGED <<main, taken, base, telegram, bus>>,
           Enumerates(Flow, base, Head(batch) + 1)
    PROVE  InOrder'
  <1>1. /\ batch \in Seq(Updates) /\ batch # <<>> /\ Head(batch) \in Nat
        /\ confirmed \in Nat /\ base \in Nat /\ sent \in Nat
    BY TypedChannel
  <1>2. PICK u \in Nat : u = Head(batch)
    BY <1>1
  <1>3. /\ main \notin {"off", "building", "closing"}
        /\ base <= u /\ u <= sent
        /\ \A v \in Updates : v >= u + 1 => pub[Line(v)] = "idle"
    BY <1>2, AtUpdate
  <1>4. /\ confirmed <= u /\ confirmed <= sent + 1
        /\ \A i \in 1..Len(batch) : batch[i] <= sent
    BY <1>2 DEF InOrder, WithinSent
  <1>5. UNCHANGED <<sent, confirmed, pub, buffer>>
    BY DEF telegram, bus
  <1>6. poller' = IF batch' = <<>> THEN "poll" ELSE "batch"
    BY DEF NextUpdate
  <1>7. batch' # <<>> =>
          /\ Head(batch') = u + 1
          /\ \A i \in 1..Len(batch') : batch'[i] <= sent
    <2> SUFFICES ASSUME batch' # <<>>
                 PROVE  /\ Head(batch') = u + 1
                        /\ \A i \in 1..Len(batch') : batch'[i] <= sent
      OBVIOUS
    <2>1. batch' = Tail(batch)
      BY DEF NextUpdate
    <2>2. Head(batch') = u + 1
      BY <1>1, <1>2, <2>1, RestOfBatch DEF Kept
    <2>3. /\ Len(batch') = Len(batch) - 1 /\ Len(batch) \in Nat
          /\ \A i \in 1..Len(batch') : batch'[i] = batch[i + 1]
      BY <1>1, <2>1, HeadTailProperties
    <2>4. \A i \in 1..Len(batch') : i + 1 \in 1..Len(batch)
      BY <2>3
    <2> QED BY <1>4, <2>2, <2>3, <2>4
  <1>8. Undispatched' = u + 1 /\ Unpublished' = u + 1
    <2>1. CASE batch' = <<>>
      <3>1. ConfirmedBy(offset)' = u + 1
        BY <1>1, <1>2, <1>4, <1>5 DEF ConfirmedBy
      <3> QED BY <1>6, <2>1, <3>1 DEF Undispatched, Unpublished
    <2>2. CASE batch' # <<>>
      BY <1>6, <1>7, <2>2 DEF Undispatched, Unpublished
    <2> QED BY <2>1, <2>2
  <1>9. OneCallEach'
    <2>1. \A v : Line(v)' = Line(v)
      BY DEF Line
    <2>2. \A v \in Updates : pub[<<"inbound", v, 2>>] = "idle"
      BY DEF InOrder, OneCallEach
    <2> QED BY <1>3, <1>5, <1>6, <1>8, <2>1, <2>2 DEF OneCallEach
  <1>10. WithinSent'
    <2>1. offset' <= sent' + 1
      BY <1>1, <1>2, <1>3, <1>5
    <2>2. confirmed <= u + 1
      BY <1>1, <1>4
    <2> QED BY <1>4, <1>5, <1>6, <1>7, <2>1, <2>2 DEF WithinSent
  <1>11. NewLife'
    BY <1>3 DEF NewLife
  <1>12. FlowUpTo(u + 1)'
    <2>1. Flow' = Flow
      BY <1>5 DEF Flow, Names
    <2>2. u + 1 \in base..(sent + 1)
      BY <1>1, <1>3
    <2> QED BY <1>2, <1>5, <1>8, <2>1, <2>2 DEF FlowUpTo, Enumerates
  <1>13. FlowInOrder'
    <2>1. u + 1 \in Int
      OBVIOUS
    <2> QED BY <1>3, <1>12, <2>1 DEF FlowInOrder
  <1> QED BY <1>9, <1>10, <1>11, <1>13 DEF InOrder

\* An update goes to the bus by its one call, or is passed over.
LEMMA DispatchInOrder ==
    ASSUME Typed, Typed', Joined, Kept, InOrder, Dispatch
    PROVE  InOrder'
  <1>1. /\ poller = "batch" /\ offset' = Head(batch) + 1
        /\ UNCHANGED <<main, taken, base, telegram>>
    BY DEF Dispatch, OffsetAfter, history
  <1>2. /\ batch \in Seq(Updates) /\ batch # <<>> /\ Head(batch) \in Updates
        /\ Head(batch) \in Nat
        /\ confirmed \in Nat /\ base \in Nat /\ sent \in Nat
    BY <1>1, TypedChannel
  <1>3. PICK u \in Updates : u = Head(batch)
    BY <1>2
  <1>4. /\ main \notin {"off", "building", "closing"}
        /\ base <= u /\ u <= sent /\ shut = {} /\ FlowUpTo(u)
        /\ \A v \in Updates : v >= u + 1 => pub[Line(v)] = "idle"
    BY <1>1, <1>3, AtUpdate
  <1>5. CASE u \in Ignored /\ NextUpdate /\ UNCHANGED bus
    <2>1. Enumerates(Flow, base, u)
      BY <1>4 DEF FlowUpTo
    <2>2. Enumerates(Flow, base, u + 1)
      BY <1>2, <1>4, <1>5, <2>1, FlowTypes, EnumerateOne
    <2> QED BY <1>1, <1>3, <1>5, <2>2, NextInOrder
  <1>6. CASE /\ u \notin Ignored
             /\ \E m \in InCalls(u) :
                  /\ \A k \in 1..(m[3] - 1) : Returned([m EXCEPT ![3] = k])
                  /\ Bus!CheckFlag(m)
             /\ poller' = "publishing" /\ UNCHANGED batch
    <2>1. PICK m \in InCalls(u) :
                  /\ \A k \in 1..(m[3] - 1) : Returned([m EXCEPT ![3] = k])
                  /\ Bus!CheckFlag(m)
      BY <1>6
    <2>2. pub[Line(u)] = "idle"
      <3>1. Undispatched = u
        BY <1>1, <1>3 DEF Undispatched
      <3>2. u >= u
        BY <1>2, <1>3
      <3> QED BY <1>1, <3>1, <3>2 DEF InOrder, OneCallEach
    <2>3. m = Line(u)
      <3>1. m = <<"inbound", u, 1>> \/ m = <<"inbound", u, 2>>
        BY DEF InCalls
      <3>2. m # <<"inbound", u, 2>>
        <4> SUFFICES ASSUME m = <<"inbound", u, 2>> PROVE FALSE
          OBVIOUS
        <4>1. m[3] = 2 /\ [m EXCEPT ![3] = 1] = Line(u)
          BY DEF Line
        <4>2. Returned(Line(u))
          BY <2>1, <4>1
        <4> QED BY <2>2, <4>2 DEF Returned, Bus!Results
      <3> QED BY <3>1, <3>2 DEF Line
    <2>4. /\ \A n \in Messages \ {m} : pub'[n] = pub[n]
          /\ pub'[m] # "idle" /\ m \in Messages
      BY <1>4, <2>1, CallsAreMessages, PublishSteps, CallSteps DEF Typed
    <2>5. buffer' = buffer /\ pub'[m] # "accepted"
      BY <2>1, <2>4 DEF Bus!CheckFlag, Bus!busState, Bus!PubGoto, Typed,
                        Bus!TypeOK
    <2>6. Undispatched' = u + 1 /\ Unpublished' = u
      BY <1>3, <1>6, <2>3, <2>5 DEF Undispatched, Unpublished, Line
    <2>7. OneCallEach'
      <3>1. \A v : Line(v)' = Line(v)
        BY DEF Line
      <3>2. \A v \in Updates : v >= u + 1 => pub'[Line(v)] = "idle"
        <4>1. \A v \in Updates : v >= u + 1 => Line(v) # Line(u)
          BY <1>2, <1>3 DEF Line
        <4> QED BY <1>4, <2>3, <2>4, <4>1, LinesAreMessages
      <3>3. \A v \in Updates : pub'[<<"inbound", v, 2>>] = "idle"
        <4>1. \A v \in Updates : <<"inbound", v, 2>> # Line(u)
          BY DEF Line
        <4> QED BY <2>3, <2>4, <4>1, LinesAreMessages DEF InOrder, OneCallEach
      <3> QED BY <1>3, <1>6, <2>3, <2>4, <2>6, <3>1, <3>2, <3>3 DEF OneCallEach
    <2>8. WithinSent'
      <3>1. offset' <= sent' + 1
        BY <1>1, <1>2, <1>3, <1>4 DEF telegram
      <3> QED BY <1>1, <1>6, <3>1 DEF InOrder, WithinSent, telegram
    <2>9. NewLife'
      BY <1>1, <1>4 DEF NewLife
    <2>10. FlowUpTo(u)'
      <3>1. Flow' = Flow
        BY <1>1, <2>5 DEF Flow, Names
      <3> QED BY <1>1, <1>4, <1>6, <2>6, <3>1 DEF FlowUpTo, Enumerates, telegram
    <2>11. FlowInOrder'
      BY <1>1, <1>2, <1>3, <1>4, <2>10 DEF FlowInOrder
    <2> QED BY <2>7, <2>8, <2>9, <2>11 DEF InOrder
  <1> QED BY <1>3, <1>5, <1>6 DEF Dispatch


\* The call goes on, or puts its update behind all those before it.
LEMMA PublishInOrder ==
    ASSUME Typed, Typed', Joined, InOrder, PublishUpdate
    PROVE  InOrder'
  <1>1. /\ poller = "publishing"
        /\ UNCHANGED <<main, channel, telegram, base, taken>>
    BY DEF PublishUpdate, history
  <1>2. /\ Head(batch) \in Updates /\ Head(batch) \in Nat
        /\ base \in Nat /\ sent \in Nat
        /\ buffer["inbound"] \in Seq(Messages)
        /\ taken \in Seq(Updates)
    BY <1>1, TypedChannel
  <1>3. PICK u \in Updates : u = Head(batch)
    BY <1>2
  <1>4. /\ main \notin {"off", "building", "closing"} /\ shut = {}
        /\ base <= u /\ u <= sent
        /\ pub[Line(u)] # "accepted" => FlowUpTo(u)
    BY <1>1, <1>3, AtUpdate
  <1>5. u \notin Ignored /\ pub[<<"inbound", u, 2>>] = "idle"
    BY <1>1, <1>3 DEF InOrder, OneCallEach
  <1>6. PICK m \in InCalls(u) : Publishing(m)
    BY <1>3 DEF PublishUpdate
  <1>7. m = Line(u)
    <2>1. m = <<"inbound", u, 1>> \/ m = <<"inbound", u, 2>>
      BY DEF InCalls
    <2>2. pub[m] # "idle"
      BY <1>6 DEF Publishing, Bus!CheckDone, Bus!Register, Bus!Send,
                  Bus!SendOnClosed, Bus!GiveUp, Bus!At
    <2> QED BY <1>5, <2>1, <2>2 DEF Line
  <1>8. /\ \A n \in Messages \ {m} : pub'[n] = pub[n]
        /\ pub[m] # "accepted" /\ pub'[m] # "idle" /\ m \in Messages
        /\ \/ buffer' = buffer /\ pub'[m] # "accepted"
           \/ /\ buffer' = [buffer EXCEPT ![m[1]] = Append(@, m)]
              /\ pub'[m] = "accepted"
    BY <1>4, <1>6, CallsAreMessages, PublishSteps, CallSteps DEF Typed
  <1>9. Undispatched' = Undispatched /\ Undispatched = u + 1
    BY <1>1, <1>3 DEF Undispatched, channel
  <1>10. OneCallEach'
    <2>1. \A v : Line(v)' = Line(v)
      BY DEF Line
    <2>2. \A v \in Updates : v >= u + 1 => pub'[Line(v)] = "idle"
      <3>1. \A v \in Updates : v >= u + 1 => Line(v) # Line(u)
        BY <1>2, <1>3 DEF Line
      <3> QED
        BY <1>1, <1>7, <1>8, <1>9, <3>1, LinesAreMessages
        DEF InOrder, OneCallEach
    <2>3. \A v \in Updates : pub'[<<"inbound", v, 2>>] = "idle"
      <3>1. \A v \in Updates : <<"inbound", v, 2>> # Line(u)
        BY DEF Line
      <3> QED BY <1>7, <1>8, <3>1, LinesAreMessages DEF InOrder, OneCallEach
    <2> QED
      BY <1>1, <1>3, <1>5, <1>7, <1>8, <1>9, <2>1, <2>2, <2>3
      DEF OneCallEach, channel
  <1>11. WithinSent' /\ NewLife'
    BY <1>1, <1>4 DEF InOrder, WithinSent, NewLife, channel, telegram
  <1>12. FlowUpTo(u)
    BY <1>4, <1>7, <1>8
  <1>13. FlowInOrder'
    <2>1. CASE buffer' = buffer /\ pub'[m] # "accepted"
      <3>1. Unpublished' = u
        BY <1>1, <1>3, <1>7, <2>1 DEF Unpublished, Line, channel
      <3>2. Flow' = Flow
        BY <1>1, <2>1 DEF Flow, Names
      <3>3. FlowUpTo(u)'
        BY <1>1, <1>12, <3>1, <3>2 DEF FlowUpTo, Enumerates, channel, telegram
      <3> QED BY <1>1, <1>2, <1>3, <1>4, <3>3 DEF FlowInOrder
    <2>2. CASE /\ buffer' = [buffer EXCEPT ![m[1]] = Append(@, m)]
               /\ pub'[m] = "accepted"
      <3>1. Unpublished' = u + 1
        BY <1>1, <1>3, <1>7, <1>9, <2>2 DEF Unpublished, Line, channel
      <3>2. Flow' = Append(Flow, u)
        <4>1. m[1] = "inbound" /\ m[2] = u
          BY <1>7 DEF Line
        <4>2. buffer'["inbound"] = Append(buffer["inbound"], m)
          BY <2>2, <4>1 DEF Typed, Bus!TypeOK, Bus!Queues
        <4>3. Names(buffer["inbound"])' = Names(Append(buffer["inbound"], m))
          BY <4>2 DEF Names
        <4>4. Names(buffer["inbound"])' = Append(Names(buffer["inbound"]), u)
          BY <1>2, <1>8, <4>1, <4>3, NamesAppend
        <4>5. Names(buffer["inbound"]) \in Seq(Updates)
          BY FlowTypes
        <4> QED BY <1>1, <1>2, <4>4, <4>5, FlowAppend DEF Flow
      <3>3. Enumerates(Append(Flow, u), base, u + 1)
        <4>1. Enumerates(Flow, base, u)
          BY <1>12 DEF FlowUpTo
        <4> QED BY <1>2, <1>4, <1>5, <4>1, FlowTypes, EnumerateOne
      <3>4. u + 1 \in base..(sent + 1) /\ u + 1 \in Int
        BY <1>2, <1>3, <1>4
      <3>5. FlowUpTo(u + 1)'
        BY <1>1, <3>1, <3>2, <3>3, <3>4 DEF FlowUpTo, Enumerates, telegram
      <3> QED BY <1>1, <1>4, <3>4, <3>5 DEF FlowInOrder
    <2> QED BY <1>8, <2>1, <2>2
  <1> QED BY <1>10, <1>11, <1>13 DEF InOrder

\* The next update is dispatched only when this one is on the bus.
LEMMA PublishedInOrder ==
    ASSUME Typed, Typed', Joined, Kept, InOrder, Published
    PROVE  InOrder'
  <1>1. /\ poller = "publishing"
        /\ UNCHANGED <<main, offset, base, taken, telegram, bus>>
    BY DEF Published
  <1>2. Head(batch) \in Updates
    BY <1>1, TypedChannel
  <1>3. CASE /\ \A m \in InCalls(Head(batch)) : pub[m] \in {"idle", "accepted"}
             /\ NextUpdate
    <2>1. pub[Line(Head(batch))] = "accepted"
      <3>1. Line(Head(batch)) \in InCalls(Head(batch))
        BY DEF Line, InCalls
      <3> QED BY <1>1, <1>3, <3>1 DEF InOrder, OneCallEach
    <2>2. Enumerates(Flow, base, Head(batch) + 1)
      BY <1>1, <2>1, AtUpdate DEF FlowUpTo
    <2>3. offset' = Head(batch) + 1
      BY <1>1 DEF Kept
    <2> QED BY <1>1, <1>3, <2>2, <2>3, NextInOrder
  <1>4. CASE poller' = "done" /\ UNCHANGED batch
    <2>1. /\ main \notin {"off", "building", "closing"}
          /\ UNCHANGED <<sent, confirmed, pub, buffer>>
      BY <1>1, AtUpdate DEF telegram, bus
    <2>2. OneCallEach' /\ WithinSent' /\ NewLife'
      BY <1>1, <1>4, <2>1 DEF InOrder, OneCallEach, WithinSent, NewLife
    <2>3. PICK n \in Int : FlowUpTo(n)
      BY <2>1 DEF InOrder, FlowInOrder
    <2>4. Flow' = Flow
      BY <1>1, <2>1 DEF Flow, Names
    <2>5. FlowUpTo(n)'
      BY <1>1, <1>4, <2>1, <2>3, <2>4 DEF FlowUpTo, Enumerates
    <2>6. FlowInOrder'
      BY <1>1, <2>1, <2>5 DEF FlowInOrder
    <2> QED BY <2>2, <2>6 DEF InOrder
  <1> QED BY <1>3, <1>4 DEF Published

\* Taking a message moves the first of those that wait behind those taken.
LEMMA TakeInOrder ==
    ASSUME Typed, Typed', Joined, InOrder, TakeInbound
    PROVE  InOrder'
  <1>1. /\ main \notin {"building", "closing", "off"} /\ inLoop.at = "idle"
        /\ UNCHANGED <<main, channel, telegram, base>>
    BY DEF TakeInbound, Joined, CloseIsLast, Alive
  <1>2. CASE UNCHANGED <<taken, bus>>
    <2>1. InboundStays
      BY <1>1, <1>2 DEF InboundStays, bus
    <2> QED BY <2>1, StaysInOrder
  <1>3. CASE /\ Bus!Receive("inbound")
             /\ taken' = Append(taken, Head(buffer["inbound"])[2])
    <2>1. /\ buffer["inbound"] # <<>> /\ buffer["inbound"] \in Seq(Messages)
          /\ buffer'["inbound"] = Tail(buffer["inbound"])
          /\ pub' = pub /\ taken \in Seq(Updates)
      BY <1>3, TypedChannel DEF Bus!Receive, Typed, Bus!TypeOK, Bus!Queues
    <2>2. Head(buffer["inbound"]) \in Messages
          /\ Tail(buffer["inbound"]) \in Seq(Messages)
      BY <2>1, HeadTailProperties
    <2>3. PICK u \in Updates : u = Head(buffer["inbound"])[2]
      BY <2>2, MessageParts
    <2>4. Names(buffer["inbound"])
            = <<u>> \o Names(Tail(buffer["inbound"]))
      BY <2>1, <2>3, NamesHead
    <2>5. PICK r \in Seq(Updates) : r = Names(Tail(buffer["inbound"]))
      BY <2>2, NamesTypes
    <2>6. Names(buffer["inbound"])' = r
      BY <2>1, <2>5 DEF Names
    <2>7. Flow' = Append(taken, u) \o r
      BY <1>3, <2>3, <2>6 DEF Flow
    <2>8. Flow = taken \o (<<u>> \o r)
      BY <2>4, <2>5 DEF Flow
    <2>9. Flow' = Flow
      BY <2>1, <2>7, <2>8, FlowMoves
    <2>10. OneCallEach' /\ WithinSent' /\ NewLife'
      <3>1. \A v : Line(v)' = Line(v)
        BY DEF Line
      <3>2. Undispatched' = Undispatched
        BY <1>1 DEF Undispatched, ConfirmedBy, channel, telegram
      <3> QED
        BY <1>1, <2>1, <3>1, <3>2
        DEF InOrder, OneCallEach, WithinSent, NewLife, channel, telegram
    <2>11. Unpublished' = Unpublished
      BY <1>1, <2>1 DEF Unpublished, Undispatched, ConfirmedBy, Line, channel,
                        telegram
    <2>12. PICK n \in Int : FlowUpTo(n)
      BY <1>1 DEF InOrder, FlowInOrder
    <2>13. FlowUpTo(n)'
      BY <1>1, <2>9, <2>11, <2>12 DEF FlowUpTo, Enumerates, channel, telegram
    <2>14. FlowInOrder'
      BY <1>1, <2>13 DEF FlowInOrder
    <2> QED BY <2>10, <2>14 DEF InOrder
  <1> QED BY <1>2, <1>3 DEF TakeInbound


LEMMA StepInOrder ==
    ASSUME Typed, Typed', Joined, Kept, InOrder, [Next]_vars
    PROVE  InOrder'
  <1>1. CASE Die
    BY <1>1, EndInOrder
  <1>2. CASE Boot \/ StartGoroutines
    BY <1>2, BeginInOrder
  <1>3. CASE Join \/ CloseBus
    BY <1>3, CloseInOrder
  <1>4. CASE ChannelStep
    BY <1>4, PollInOrder, DispatchInOrder, PublishInOrder, PublishedInOrder
    DEF ChannelStep
  <1>5. CASE TakeInbound
    BY <1>5, TakeInOrder
  <1>6. CASE EndTurn \/ PublishReply
    <2>1. /\ main # "closing"
          /\ UNCHANGED <<main, channel, telegram, base, taken>>
          /\ inLoop.update \in Updates
      BY <1>6 DEF EndTurn, PublishReply, history, Joined, CloseIsLast, Typed,
                  LoopTypes
    <2>2. CASE UNCHANGED bus
      <3>1. InboundStays
        BY <2>1, <2>2 DEF InboundStays, bus
      <3> QED BY <3>1, StaysInOrder
    <2>3. CASE \/ Bus!CheckFlag(Out(inLoop.update))
               \/ Publishing(Out(inLoop.update))
      BY <2>1, <2>3, RepliesStayInOrder
    <2> QED BY <1>6, <2>2, <2>3 DEF EndTurn, PublishReply
  <1>7. CASE \/ UNCHANGED vars \/ Quiet \/ Signal \/ Shutdown \/ SetServer
             \/ StopServing \/ OutLoopStep
    <2>1. UNCHANGED <<channel, telegram, base, taken, pub>>
      BY <1>7 DEF vars, Quiet, Signal, Shutdown, SetServer, StopServing,
                  OutLoopStep, TakeOutbound, SendReturns, Bus!Cancel,
                  Bus!Receive, history, bus
    <2>2. main' = main \/ (main = "running" /\ main' = "joining")
      BY <1>7 DEF vars, Quiet, Signal, Shutdown, SetServer, StopServing,
                  OutLoopStep, TakeOutbound, SendReturns
    <2>3. buffer'["inbound"] = buffer["inbound"]
      BY <1>7 DEF vars, Quiet, Signal, Shutdown, SetServer, StopServing,
                  OutLoopStep, TakeOutbound, SendReturns, Bus!Cancel,
                  Bus!busState, Bus!Receive, bus, Typed, Bus!TypeOK, Bus!Queues
    <2>4. InboundStays
      BY <2>1, <2>2, <2>3 DEF InboundStays
    <2> QED BY <2>4, StaysInOrder
  <1> QED
    BY <1>1, <1>2, <1>3, <1>4, <1>5, <1>6, <1>7
    DEF Next, Crash, MainStep, Exit, InLoopStep

\* Within a life the inbound loop takes the users' messages in the order they
\* were sent, each once and with none left out, whatever polls fail, whenever
\* the buffer is full and whenever the process is told to stop.
THEOREM InboundTakesInOrder == Spec => []TakenInOrder
  <1>1. Init => Typed /\ Joined /\ Kept /\ InOrder
    BY InitTyped, InitJoined, InitKept, InitInOrder
  <1>2. (Typed /\ Joined /\ Kept /\ InOrder) /\ [Next]_vars
            => (Typed /\ Joined /\ Kept /\ InOrder)'
    BY StepTyped, StepJoined, StepKept, StepInOrder
  <1>3. Typed /\ InOrder => TakenInOrder
    BY FlowImpliesTaken
  <1> QED BY <1>1, <1>2, <1>3, PTL DEF Spec


=============================================================================
