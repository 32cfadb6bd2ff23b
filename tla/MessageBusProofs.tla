-------------------------- MODULE MessageBusProofs -------------------------
(***************************************************************************)
(* Proofs about MessageBus, for any number of publish and Close calls and  *)
(* any buffer size.                                                        *)
(***************************************************************************)
EXTENDS MessageBus, SequenceTheorems, TLAPS

-----------------------------------------------------------------------------
(* Sequences without repetition                                            *)

\* Appending a new element.
LEMMA AppendNew ==
    ASSUME NEW S, NEW s \in Seq(S), IsInjective(s), NEW e \in S,
           e \notin ToSet(s)
    PROVE  /\ Append(s, e) \in Seq(S)
           /\ Len(Append(s, e)) = Len(s) + 1
           /\ ToSet(Append(s, e)) = ToSet(s) \cup {e}
           /\ IsInjective(Append(s, e))
  <1> DEFINE t == Append(s, e)
  <1>1. /\ t \in Seq(S)
        /\ Len(t) = Len(s) + 1
        /\ \A i \in 1..Len(s) : t[i] = s[i]
        /\ t[Len(s) + 1] = e
    BY AppendProperties
  <1>2. DOMAIN s = 1..Len(s) /\ DOMAIN t = 1..(Len(s) + 1)
    BY <1>1
  <1>3. Len(s) \in Nat
    OBVIOUS
  <1> HIDE DEF t
  <1>4. ToSet(t) = ToSet(s) \cup {e}
    BY <1>1, <1>2, <1>3 DEF ToSet
  <1>5. IsInjective(t)
    BY <1>1, <1>2, <1>3 DEF IsInjective, ToSet
  <1> QED BY <1>1, <1>4, <1>5 DEF t

\* Removing the head.
LEMMA TailOfInjective ==
    ASSUME NEW S, NEW s \in Seq(S), IsInjective(s), s # <<>>
    PROVE  /\ Tail(s) \in Seq(S)
           /\ Len(Tail(s)) = Len(s) - 1
           /\ Head(s) \in ToSet(s)
           /\ ToSet(Tail(s)) = ToSet(s) \ {Head(s)}
           /\ IsInjective(Tail(s))
  <1> DEFINE t == Tail(s)
  <1>1. Len(s) \in Nat /\ Len(s) > 0 /\ DOMAIN s = 1..Len(s)
    OBVIOUS
  <1>2. /\ t \in Seq(S)
        /\ Len(t) = Len(s) - 1
        /\ \A i \in 1..(Len(s) - 1) : t[i] = s[i + 1]
        /\ Head(s) = s[1]
    BY <1>1, HeadTailProperties
  <1>3. DOMAIN t = 1..(Len(s) - 1)
    BY <1>2
  <1> HIDE DEF t
  <1>4. ToSet(t) \subseteq ToSet(s) \ {Head(s)}
    BY <1>1, <1>2, <1>3 DEF ToSet, IsInjective
  <1>5. ASSUME NEW x \in ToSet(s), x # Head(s)
        PROVE  x \in ToSet(t)
    <2>1. PICK i \in 1..Len(s) : s[i] = x
      BY <1>1 DEF ToSet
    <2>2. i - 1 \in 1..(Len(s) - 1) /\ t[i - 1] = x
      BY <1>1, <1>2, <1>5, <2>1
    <2> QED BY <1>3, <2>2 DEF ToSet
  <1>6. Head(s) \in ToSet(s)
    BY <1>1, <1>2 DEF ToSet
  <1>7. IsInjective(t)
    BY <1>1, <1>2, <1>3 DEF IsInjective
  <1> QED BY <1>2, <1>4, <1>5, <1>6, <1>7 DEF t

-----------------------------------------------------------------------------
(* Every accepted message is in one place                                  *)

\* A message is buffered only in the channel its call sends on.
OnItsQueue == \A q \in Queues : \A p \in ToSet(buffer[q]) : QueueOf[p] = q

BusInv == TypeOK /\ AcceptedOnce /\ OnItsQueue

\* The messages in the Go channels.
Buffered == UNION {ToSet(buffer[q]) : q \in Queues}

\* What it means for a message to be buffered, now and after a step.
LEMMA BufferedMembers ==
    /\ \A x : x \in Buffered <=> \E r \in Queues : x \in ToSet(buffer[r])
    /\ \A x : x \in Buffered' <=> \E r \in Queues : x \in ToSet(buffer'[r])
  BY DEF Buffered

\* A step that moves no message and accepts none keeps the accounts.
LEMMA NothingMoves ==
    ASSUME BusInv, UNCHANGED <<buffer, received, drained>>,
           \A p \in Publishers : pub'[p] = "accepted" <=> pub[p] = "accepted"
    PROVE  AcceptedOnce' /\ OnItsQueue'
  BY DEF BusInv, AcceptedOnce, OnItsQueue

\* Publishing keeps the accounts: only a successful send accepts a message
\* (bus.go:36-92).
LEMMA PublishKeepsAccounts ==
    ASSUME BusInv, NEW p \in Publishers, PublishNext(p)
    PROVE  BusInv'
  <1> USE BusAssumption DEF TypeOK, PubSteps, Results, PubGoto, At, busState
  <1> TypeOK
    BY DEF BusInv
  <1>1. CASE Send(p)
    <2> DEFINE q == QueueOf[p]
    <2>1. q \in Queues
      OBVIOUS
    <2>2. /\ ~panicked /\ pub[p] = "sending" /\ Len(buffer[q]) < Cap
          /\ buffer' = [buffer EXCEPT ![q] = Append(@, p)]
          /\ pub' = [pub EXCEPT ![p] = "accepted"]
          /\ UNCHANGED <<cancelled, shut, done, closed, once, closer, received,
                         drained, panicked>>
      BY <1>1 DEF Send, HasRoom
    <2> HIDE DEF q
    <2>3. IsInjective(buffer[q]) /\ p \notin ToSet(buffer[q])
          /\ p \notin received /\ p \notin drained
      BY <2>1, <2>2 DEF BusInv, AcceptedOnce
    <2>4. /\ buffer'[q] \in Seq(Publishers)
          /\ Len(buffer'[q]) = Len(buffer[q]) + 1
          /\ ToSet(buffer'[q]) = ToSet(buffer[q]) \cup {p}
          /\ IsInjective(buffer'[q])
      BY <2>1, <2>2, <2>3, AppendNew
    <2>5. \A r \in Queues : r # q => buffer'[r] = buffer[r]
      BY <2>2
    <2>6. TypeOK'
      <3>1. buffer' \in [Queues -> Seq(Publishers)]
        BY <2>1, <2>2, <2>4
      <3>2. \A r \in Queues : Len(buffer'[r]) <= Cap
        BY <2>1, <2>2, <2>4, <2>5
      <3> QED BY <2>2, <3>1, <3>2
    <2>7. \A x : x \in Buffered' <=> x \in Buffered \/ x = p
      BY <2>1, <2>4, <2>5, BufferedMembers
    <2>8. {r \in Publishers : pub'[r] = "accepted"}
            = {r \in Publishers : pub[r] = "accepted"} \cup {p}
      BY <2>2
    <2>9. AcceptedOnce'
      <3>1. \A r \in Queues : IsInjective(buffer'[r])
        BY <2>4, <2>5 DEF BusInv, AcceptedOnce
      <3>2. p \notin Buffered
        BY <2>2 DEF BusInv, AcceptedOnce, Buffered
      <3>3. /\ {r \in Publishers : pub'[r] = "accepted"}
                  = Buffered' \cup received' \cup drained'
            /\ Buffered' \cap received' = {}
            /\ Buffered' \cap drained' = {}
            /\ received' \cap drained' = {}
        <4>1. /\ {r \in Publishers : pub[r] = "accepted"}
                    = Buffered \cup received \cup drained
              /\ Buffered \cap received = {}
              /\ Buffered \cap drained = {}
              /\ received \cap drained = {}
          BY DEF BusInv, AcceptedOnce, Buffered
        <4> QED BY <2>2, <2>3, <2>7, <2>8, <3>2, <4>1
      <3> QED BY <3>1, <3>3 DEF AcceptedOnce, Buffered
    <2>10. OnItsQueue'
      BY <2>1, <2>4, <2>5 DEF BusInv, OnItsQueue, q
    <2> QED BY <2>6, <2>9, <2>10 DEF BusInv
  <1>2. CASE ~Send(p)
    <2>1. /\ UNCHANGED <<buffer, received, drained>>
          /\ \A r \in Publishers : pub'[r] = "accepted" <=> pub[r] = "accepted"
      BY <1>2 DEF PublishNext, CheckFlag, CheckDone, Register, SendOnClosed,
                  GiveUp
    <2>2. TypeOK'
      BY <1>2 DEF PublishNext, CheckFlag, CheckDone, Register, SendOnClosed,
                  GiveUp
    <2> QED BY <2>1, <2>2, NothingMoves DEF BusInv
  <1> QED BY <1>1, <1>2

\* Taking the head of a buffer into either pile keeps the accounts
\* (bus.go:109-112, main.go:173-185, 246-265).
LEMMA TakeKeepsAccounts ==
    ASSUME BusInv, NEW q \in Queues, buffer[q] # <<>>,
           buffer' = [buffer EXCEPT ![q] = Tail(@)],
           \/ received' = received \cup {Head(buffer[q])} /\ UNCHANGED drained
           \/ drained' = drained \cup {Head(buffer[q])} /\ UNCHANGED received,
           UNCHANGED <<pub, cancelled, shut, done, closed, once, closer,
                       panicked>>
    PROVE  BusInv'
  <1> DEFINE p == Head(buffer[q])
  <1> USE BusAssumption DEF TypeOK
  <1> TypeOK
    BY DEF BusInv
  <1>1. /\ Tail(buffer[q]) \in Seq(Publishers)
        /\ Len(Tail(buffer[q])) = Len(buffer[q]) - 1
        /\ p \in ToSet(buffer[q])
        /\ ToSet(Tail(buffer[q])) = ToSet(buffer[q]) \ {p}
        /\ IsInjective(Tail(buffer[q]))
    BY TailOfInjective DEF BusInv, AcceptedOnce
  <1>2. p \in Publishers
    BY HeadTailProperties
  <1>3. buffer'[q] = Tail(buffer[q])
    OBVIOUS
  <1>4. \A r \in Queues : r # q => buffer'[r] = buffer[r]
    OBVIOUS
  <1> HIDE DEF p
  <1>5. TypeOK'
    <2>1. buffer' \in [Queues -> Seq(Publishers)]
      BY <1>1
    <2>2. \A r \in Queues : Len(buffer'[r]) <= Cap
      BY <1>1, <1>3, <1>4
    <2>3. received' \subseteq Publishers /\ drained' \subseteq Publishers
      BY <1>2 DEF p
    <2> QED BY <2>1, <2>2, <2>3
  <1>6. \A x : x \in Buffered' <=> x \in Buffered /\ x # p
    <2>1. \A r \in Queues : r # q => p \notin ToSet(buffer[r])
      BY <1>1 DEF BusInv, OnItsQueue
    <2> QED BY <1>1, <1>3, <1>4, <2>1, BufferedMembers
  <1>7. p \in Buffered
    BY <1>1, BufferedMembers
  <1>8. AcceptedOnce'
    <2>1. \A r \in Queues : IsInjective(buffer'[r])
      BY <1>1, <1>3, <1>4 DEF BusInv, AcceptedOnce
    <2>2. \/ received' = received \cup {p} /\ UNCHANGED drained
          \/ drained' = drained \cup {p} /\ UNCHANGED received
      BY DEF p
    <2>3. /\ {r \in Publishers : pub'[r] = "accepted"}
                = Buffered' \cup received' \cup drained'
          /\ Buffered' \cap received' = {}
          /\ Buffered' \cap drained' = {}
          /\ received' \cap drained' = {}
      <3>1. /\ {r \in Publishers : pub[r] = "accepted"}
                  = Buffered \cup received \cup drained
            /\ Buffered \cap received = {}
            /\ Buffered \cap drained = {}
            /\ received \cap drained = {}
        BY DEF BusInv, AcceptedOnce, Buffered
      <3>2. pub' = pub
        OBVIOUS
      <3> QED BY <1>6, <1>7, <2>2, <3>1, <3>2
    <2> QED BY <2>1, <2>3 DEF AcceptedOnce, Buffered
  <1>9. OnItsQueue'
    BY <1>1, <1>3, <1>4 DEF BusInv, OnItsQueue
  <1> QED BY <1>5, <1>8, <1>9 DEF BusInv

\* Close keeps the accounts (bus.go:102-114).
LEMMA CloseKeepsAccounts ==
    ASSUME BusInv, NEW x \in Closers, CloseNext(x)
    PROVE  BusInv'
  <1>1. CASE \E q \in Queues : Drain(x, q)
    BY <1>1, TakeKeepsAccounts DEF Drain
  <1>2. CASE ~(\E q \in Queues : Drain(x, q))
    <2> USE DEF TypeOK, CloseSteps, CloseGoto, ClosingAt
    <2>1. UNCHANGED <<pub, buffer, received, drained>>
      BY <1>2 DEF CloseNext, CloseDone, SetFlag, JoinPublishers, ShutQueue,
                  EndDrain, CloseAgain
    <2>2. TypeOK'
      BY <1>2 DEF BusInv, CloseNext, CloseDone, SetFlag, JoinPublishers,
                  ShutQueue, EndDrain, CloseAgain, Queues
    <2> QED BY <2>1, <2>2, NothingMoves DEF BusInv
  <1> QED BY <1>1, <1>2

\* The invariant behind BusTypes and AcceptedMessagesAreInOnePlace.
LEMMA BusInvariant == Spec => []BusInv
  <1>1. Init => BusInv
    <2> SUFFICES ASSUME Init PROVE BusInv
      OBVIOUS
    <2>1. \A q \in Queues : /\ buffer[q] \in Seq(Publishers)
                            /\ Len(buffer[q]) = 0
                            /\ ToSet(buffer[q]) = {}
                            /\ IsInjective(buffer[q])
      BY DEF Init, ToSet, IsInjective
    <2>2. TypeOK
      <3>1. buffer \in [Queues -> Seq(Publishers)]
        BY <2>1 DEF Init
      <3>2. \A q \in Queues : Len(buffer[q]) <= Cap
        BY <2>1, BusAssumption
      <3> QED
        BY <3>1, <3>2 DEF Init, TypeOK, PubSteps, CloseSteps
    <2>3. AcceptedOnce
      BY <2>1 DEF Init, AcceptedOnce
    <2>4. OnItsQueue
      BY <2>1 DEF OnItsQueue
    <2> QED BY <2>2, <2>3, <2>4 DEF BusInv
  <1>2. BusInv /\ [Next]_vars => BusInv'
    <2> SUFFICES ASSUME BusInv, [Next]_vars PROVE BusInv'
      OBVIOUS
    <2>1. CASE \E q \in Queues : Receive(q)
      BY <2>1, TakeKeepsAccounts DEF Receive
    <2>2. CASE UNCHANGED vars
      BY <2>2 DEF vars, BusInv, TypeOK, AcceptedOnce, OnItsQueue
    <2>3. CASE Cancel(Publishers) \/ \E p \in Publishers : Cancel({p})
      <3>1. TypeOK' /\ UNCHANGED <<buffer, received, drained, pub>>
        BY <2>3 DEF BusInv, TypeOK, Cancel, busState
      <3> QED BY <3>1, NothingMoves DEF BusInv
    <2> QED
      BY <2>1, <2>2, <2>3, PublishKeepsAccounts, CloseKeepsAccounts DEF Next, Quiet
  <1> QED BY <1>1, <1>2, PTL DEF Spec

\* Every variable stays within its type and no buffer exceeds its capacity.
THEOREM BusTypes == Spec => []TypeOK
  BY BusInvariant, PTL DEF BusInv

\* However publishers, consumers and Close calls interleave, a message whose
\* publish call returned nil is in exactly one place, and one whose call
\* returned an error is in none (bus.go:53-60, 109-112).
THEOREM AcceptedMessagesAreInOnePlace == Spec => []AcceptedOnce
  BY BusInvariant, PTL DEF BusInv

-----------------------------------------------------------------------------
(* No send on a closed channel, as main.run uses the bus                   *)

\* Once a Close call has begun no publish call is under way, and a channel is
\* shut only by a Close call that has begun.
ClosedAfterPublishers ==
    JoinFirst =>
        /\ ~panicked
        /\ (\E x \in Closers : closer[x] # "idle") => NoPublishUnderWay
        /\ shut # {} => \E x \in Closers : closer[x] # "idle"

\* When Close is called after the publishers have returned and none follows
\* (main.go:113, 165), nobody ever sends on a closed channel.
THEOREM MainNeverPanics == Spec => [](JoinFirst => NoSendOnClosedChannel)
  <1>1. Init => ClosedAfterPublishers
    BY DEF Init, ClosedAfterPublishers
  <1>2. TypeOK /\ ClosedAfterPublishers /\ [Next]_vars => ClosedAfterPublishers'
    <2> SUFFICES ASSUME TypeOK, ClosedAfterPublishers, [Next]_vars, JoinFirst
                 PROVE  ClosedAfterPublishers'
      BY DEF ClosedAfterPublishers
    <2> USE DEF TypeOK, ClosedAfterPublishers
    <2>1. CASE \E p \in Publishers : PublishNext(p)
      <3> PICK p \in Publishers : PublishNext(p)
        BY <2>1
      <3>1. CASE CheckFlag(p)
        BY <3>1 DEF CheckFlag, MayPublish, At, busState
      <3>2. CASE ~CheckFlag(p)
        <4>1. pub[p] \notin {"idle"} \cup Results
          BY <3>2 DEF PublishNext, CheckDone, Register, Send, SendOnClosed,
                      GiveUp, At, Results
        <4>2. (\A x \in Closers : closer[x] = "idle") /\ shut = {}
          BY <4>1 DEF NoPublishUnderWay
        <4>3. ~SendOnClosed(p)
          BY <4>2 DEF SendOnClosed
        <4> QED
          BY <3>2, <4>2, <4>3 DEF PublishNext, CheckDone, Register, Send,
                                  GiveUp, busState
      <3> QED BY <3>1, <3>2
    <2>2. CASE \E x \in Closers : CloseNext(x)
      <3> PICK x \in Closers : CloseNext(x)
        BY <2>2
      <3>1. UNCHANGED <<pub, panicked>>
        BY DEF CloseNext, CloseDone, SetFlag, JoinPublishers, ShutQueue,
               EndDrain, CloseAgain, Drain
      <3>2. CASE CloseDone(x)
        BY <3>1, <3>2 DEF CloseDone, CloseGoto, NoPublishUnderWay
      <3>3. CASE CloseAgain(x)
        BY <3>1, <3>3 DEF CloseAgain, OnceFinished, CloseGoto,
                          NoPublishUnderWay
      <3>4. CASE SetFlag(x) \/ JoinPublishers(x) \/ ShutQueue(x) \/ EndDrain(x)
                   \/ \E q \in Queues : Drain(x, q)
        <4>1. closer[x] # "idle" /\ closer'[x] # "idle"
          BY <3>4 DEF SetFlag, JoinPublishers, ShutQueue, EndDrain, Drain,
                      ClosingAt, CloseGoto
        <4> QED BY <3>1, <4>1 DEF NoPublishUnderWay
      <3> QED BY <3>2, <3>3, <3>4 DEF CloseNext
    <2>3. CASE \E q \in Queues : Receive(q)
      BY <2>3 DEF Receive, NoPublishUnderWay
    <2>4. CASE UNCHANGED vars
      BY <2>4 DEF vars, NoPublishUnderWay
    <2>5. CASE Cancel(Publishers) \/ \E p \in Publishers : Cancel({p})
      BY <2>5 DEF Cancel, busState, NoPublishUnderWay
    <2> QED BY <2>1, <2>2, <2>3, <2>4, <2>5 DEF Next, Quiet
  <1>3. ClosedAfterPublishers => (JoinFirst => NoSendOnClosedChannel)
    BY DEF ClosedAfterPublishers, NoSendOnClosedChannel
  <1> QED BY <1>1, <1>2, <1>3, BusTypes, PTL DEF Spec

-----------------------------------------------------------------------------
(* What a Close call that has returned leaves behind                       *)

\* The steps of the one Close call that runs the body of closeOnce, and what
\* it has done by then; the others wait for it. A channel that is shut and
\* empty stays empty.
ClosingInOrder ==
    /\ \A x \in Closers :
         /\ closer[x] \notin {"idle", "returned"} => once = x
         /\ closer[x] = "returned" => OnceFinished
         /\ closer[x] # "idle" => done
         /\ closer[x] \notin {"idle", "doneClosed"} => closed
         /\ closer[x] = "inboundShut" => "inbound" \in shut
         /\ closer[x] \in {"outboundShut", "inboundDrained", "returned"} =>
              shut = Queues
         /\ closer[x] \in {"inboundDrained", "returned"} =>
              buffer["inbound"] = <<>>
         /\ closer[x] = "returned" => buffer["outbound"] = <<>>
    /\ drained # {} => done /\ closed

\* Only Close throws messages away, and once any Close call has returned the
\* bus is empty and accepts nothing (bus.go:99-114).
THEOREM ClosedBusIsEmpty == Spec => []ClosedMeansEmpty
  <1>1. Init => ClosingInOrder
    BY DEF Init, ClosingInOrder
  <1>2. TypeOK /\ ClosingInOrder /\ [Next]_vars => ClosingInOrder'
    <2> SUFFICES ASSUME TypeOK, ClosingInOrder, [Next]_vars
                 PROVE  ClosingInOrder'
      OBVIOUS
    <2> USE BusAssumption
        DEF BusAssumption, TypeOK, ClosingInOrder, OnceFinished, Queues
    <2>1. ASSUME NEW p \in Publishers, PublishNext(p) PROVE ClosingInOrder'
      <3>1. CASE Send(p)
        <4>1. UNCHANGED <<shut, done, closed, once, closer, drained>>
          BY <3>1 DEF Send
        <4>2. \A q \in shut : buffer'[q] = buffer[q]
          BY <3>1 DEF Send
        <4> QED BY <4>1, <4>2
      <3>2. CASE ~Send(p)
        BY <2>1, <3>2 DEF PublishNext, CheckFlag, CheckDone, Register,
                          SendOnClosed, GiveUp, busState
      <3> QED BY <3>1, <3>2
    <2>2. ASSUME NEW q \in Queues, Receive(q) PROVE ClosingInOrder'
      <3>1. UNCHANGED <<shut, done, closed, once, closer, drained>>
        BY <2>2 DEF Receive
      <3>2. \A r \in Queues : buffer[r] = <<>> => buffer'[r] = <<>>
        BY <2>2 DEF Receive
      <3> QED BY <3>1, <3>2
    <2>3. ASSUME NEW x \in Closers, CloseNext(x) PROVE ClosingInOrder'
      <3>1. CASE CloseDone(x)
        BY <3>1 DEF CloseDone, ClosingAt, CloseGoto, CloseSteps
      <3>2. CASE SetFlag(x)
        BY <3>2 DEF SetFlag, ClosingAt, CloseGoto, CloseSteps
      <3>3. CASE JoinPublishers(x)
        BY <3>3 DEF JoinPublishers, ClosingAt, CloseGoto, CloseSteps
      <3>4. CASE ShutQueue(x)
        <4>1. CASE closer[x] = "joined"
          BY <3>4, <4>1 DEF ShutQueue, ClosingAt, CloseGoto, CloseSteps
        <4>2. CASE closer[x] = "inboundShut"
          <5>1. closer' = [closer EXCEPT ![x] = "outboundShut"]
            BY <3>4, <4>2 DEF ShutQueue, ClosingAt, CloseGoto
          <5>2. shut' = Queues
            BY <3>4, <4>2 DEF ShutQueue, ClosingAt, CloseGoto
          <5>3. UNCHANGED <<done, closed, once, buffer, drained>>
            BY <3>4 DEF ShutQueue
          <5>4. ~OnceFinished
            BY <4>2
          <5> QED BY <4>2, <5>1, <5>2, <5>3, <5>4
        <4> QED BY <3>4, <4>1, <4>2 DEF ShutQueue, ClosingAt
      <3>5. CASE EndDrain(x)
        BY <3>5 DEF EndDrain, ClosingAt, CloseGoto, CloseSteps
      <3>6. CASE CloseAgain(x)
        BY <3>6 DEF CloseAgain, ClosingAt, CloseGoto, CloseSteps
      <3>7. ASSUME NEW q \in Queues, Drain(x, q) PROVE ClosingInOrder'
        <4>1. UNCHANGED <<shut, done, closed, once, closer>>
          BY <3>7 DEF Drain
        <4>2. \A r \in Queues : buffer[r] = <<>> => buffer'[r] = <<>>
          BY <3>7 DEF Drain
        <4>3. done /\ closed
          BY <3>7 DEF Drain, ClosingAt
        <4> QED BY <4>1, <4>2, <4>3
      <3> QED
        BY <2>3, <3>1, <3>2, <3>3, <3>4, <3>5, <3>6, <3>7 DEF CloseNext
    <2>4. CASE Cancel(Publishers) \/ \E p \in Publishers : Cancel({p})
      BY <2>4 DEF Cancel, busState
    <2>5. CASE UNCHANGED vars
      BY <2>5 DEF vars
    <2> QED BY <2>1, <2>2, <2>3, <2>4, <2>5 DEF Next, Quiet
  <1>3. ClosingInOrder => ClosedMeansEmpty
    BY DEF ClosingInOrder, ClosedMeansEmpty, Queues
  <1> QED BY <1>1, <1>2, <1>3, BusTypes, PTL DEF Spec

=============================================================================
