-------------------------- MODULE ChatTurnsProofs --------------------------
(***************************************************************************)
(* Proofs about ChatTurns, for every set of chats and turns, whether or    *)
(* not clients overlap their requests and however often the process dies.  *)
(***************************************************************************)
EXTENDS ChatTurns, SequenceTheorems, TLAPS

-----------------------------------------------------------------------------
(* Type correctness                                                        *)

\* Extending a session by a turn gives a session (http.go:315-330).
LEMMA SessionTypes ==
    ASSUME NEW cs \in ChatState, NEW t \in Turns
    PROVE  /\ WithQuestion(cs, t) \in ChatState
           /\ \A h \in HistoriesAfter(cs, t) : WithAnswer(cs, t, h) \in ChatState
  <1>1. /\ cs.messages \in Seq(Exchange)
        /\ cs.history \in Seq(Turns \cup {Summary})
        /\ cs = [messages |-> cs.messages, history |-> cs.history]
    BY DEF ChatState
  <1>2. \A answered \in BOOLEAN :
          Append(cs.messages, [turn |-> t, answered |-> answered]) \in Seq(Exchange)
    <2>1. \A answered \in BOOLEAN : [turn |-> t, answered |-> answered] \in Exchange
      BY DEF Exchange
    <2> QED BY <1>1, <2>1, AppendProperties
  <1>3. HistoriesAfter(cs, t) \subseteq Seq(Turns \cup {Summary})
    <2>1. Append(cs.history, t) \in Seq(Turns \cup {Summary})
      BY <1>1, AppendProperties
    <2>2. <<Summary, t>> \in Seq(Turns \cup {Summary})
      OBVIOUS
    <2> QED BY <2>1, <2>2 DEF HistoriesAfter
  <1> QED BY <1>1, <1>2, <1>3 DEF WithQuestion, WithAnswer, ChatState

\* Publishing an event keeps the event streams well typed (sse.go:86-117).
LEMMA PublishTypes ==
    ASSUME events \in [Chats -> Seq(Event)],
           NEW t \in HttpTurns, NEW kind \in Kinds, Publish(t, kind)
    PROVE  events' \in [Chats -> Seq(Event)]
  <1>1. ChatOf[t] \in Chats
    BY TurnsAssumption DEF Turns
  <1>2. Append(events[ChatOf[t]], [kind |-> kind, turn |-> t]) \in Seq(Event)
    <2>1. [kind |-> kind, turn |-> t] \in Event
      BY DEF Event
    <2> QED BY <1>1, <2>1, AppendProperties
  <1> QED BY <1>1, <1>2 DEF Publish

\* Saving keeps the files, the results and the history variables well typed
\* (storage.go:94-118).
LEMMA SaveTypes ==
    ASSUME TypeOK, NEW t \in Turns, Save(t)
    PROVE  /\ stored' \in [Chats -> ChatState]
           /\ outcome' \in [Turns -> Outcomes]
           /\ overtaken' \in [Turns -> SUBSET Turns]
           /\ erased' \subseteq Turns
  <1> USE TurnsAssumption DEF TypeOK, Outcomes
  <1>1. stored' \in [Chats -> ChatState] /\ outcome' \in [Turns -> Outcomes]
    BY DEF Save
  <1>2. CASE Overtakes(t)
    <2>1. \A u \in Turns : overtaken'[u] \subseteq Turns
      BY <1>2 DEF Overtakes
    <2>2. overtaken' \in [Turns -> SUBSET Turns]
      BY <1>2, <2>1 DEF Overtakes
    <2> QED BY <1>1, <1>2, <2>2 DEF Overtakes
  <1>3. CASE ~Overtakes(t)
    BY <1>1, <1>3 DEF Save
  <1> QED BY <1>2, <1>3

\* The steps of the HTTP handler keep the types (http.go:262-344).
LEMMA HttpTypes ==
    ASSUME TypeOK, NEW t \in HttpTurns, HttpNext(t)
    PROVE  TypeOK'
  <1> USE TurnsAssumption DEF TypeOK, Turns, Steps, Outcomes, Goto, Becomes
  <1>1. NewChat \in ChatState
    BY DEF NewChat, ChatState
  <1>2. CASE HttpLoad(t)
    <2>1. local' \in [Turns -> ChatState]
      <3>1. stored[ChatOf[t]] \in ChatState
        OBVIOUS
      <3> QED BY <1>2, <3>1 DEF HttpLoad
    <2>2. outcome' \in [Turns -> Outcomes]
      BY <1>2 DEF HttpLoad
    <2>3. /\ pc' \in [Turns -> Steps]
          /\ \A u \in ChannelTurns : pc'[u] \notin {"begun", "running", "replied"}
      BY <1>2 DEF HttpLoad
    <2>4. /\ UNCHANGED <<stored, active, stopped, cancels, asked, events, crashes>>
          /\ overtaken' \in [Turns -> SUBSET Turns] /\ erased' = erased
      BY <1>2 DEF HttpLoad
    <2> HIDE DEF Turns, Steps, Outcomes
    <2> QED BY <2>1, <2>2, <2>3, <2>4
  <1>3. CASE HttpBegin(t)
    BY <1>3 DEF HttpBegin
  <1>4. CASE HttpRefuse(t)
    BY <1>1, <1>4 DEF HttpRefuse
  <1>5. CASE HttpAnnounce(t)
    <2>1. events' \in [Chats -> Seq(Event)]
      BY <1>5, PublishTypes DEF HttpAnnounce, Kinds
    <2> QED BY <1>5, <2>1 DEF HttpAnnounce
  <1>6. CASE HttpEmit(t)
    <2>1. events' \in [Chats -> Seq(Event)]
      BY <1>6, PublishTypes DEF HttpEmit, Kinds
    <2> QED BY <1>6, <2>1 DEF HttpEmit
  <1>7. CASE HttpExecute(t)
    <2>a. local[t] \in ChatState
      OBVIOUS
    <2>b. \E cs \in ChatState : local' = [local EXCEPT ![t] = cs]
      BY <1>7, <2>a, SessionTypes DEF HttpExecute
    <2>1. local' \in [Turns -> ChatState]
      BY <2>b
    <2>2. outcome' \in [Turns -> Outcomes]
      BY <1>7 DEF HttpExecute
    <2>3. /\ pc' \in [Turns -> Steps]
          /\ \A u \in ChannelTurns : pc'[u] \notin {"begun", "running", "replied"}
      BY <1>7 DEF HttpExecute
    <2>4. /\ UNCHANGED <<stored, active, stopped, cancels, asked, events, crashes>>
          /\ overtaken' \in [Turns -> SUBSET Turns] /\ erased' = erased
      BY <1>7 DEF HttpExecute
    <2> HIDE DEF Turns, Steps, Outcomes
    <2> QED BY <2>1, <2>2, <2>3, <2>4
  <1>8. CASE HttpSave(t)
    BY <1>1, <1>8, SaveTypes DEF HttpSave
  <1>9. CASE HttpReply(t)
    <2>1. events' \in [Chats -> Seq(Event)]
      BY <1>9, PublishTypes DEF HttpReply, TerminalKind, Kinds
    <2> QED BY <1>9, <2>1 DEF HttpReply
  <1>10. CASE HttpRelease(t)
    BY <1>1, <1>10 DEF HttpRelease, SlotsWithout
  <1>11. CASE Disconnect(t)
    BY <1>11 DEF Disconnect
  <1>12. CASE CancelFire(t)
    BY <1>12 DEF CancelFire, StoppedBy
  <1> QED
    BY <1>2, <1>3, <1>4, <1>5, <1>6, <1>7, <1>8, <1>9, <1>10, <1>11, <1>12
    DEF HttpNext

\* So do the steps of handleInbound (main.go:187-244).
LEMMA ChannelTypes ==
    ASSUME TypeOK, NEW t \in ChannelTurns, ChannelNext(t)
    PROVE  TypeOK'
  <1> USE TurnsAssumption DEF TypeOK, Turns, Steps, Outcomes, Goto, Becomes
  <1>1. NewChat \in ChatState
    BY DEF NewChat, ChatState
  <1>2. CASE ChannelTake(t)
    <2>1. local' \in [Turns -> ChatState]
      <3>1. stored[ChatOf[t]] \in ChatState
        OBVIOUS
      <3> QED BY <1>2, <3>1 DEF ChannelTake
    <2>2. outcome' \in [Turns -> Outcomes]
      BY <1>2 DEF ChannelTake
    <2>3. /\ pc' \in [Turns -> Steps]
          /\ \A u \in ChannelTurns : pc'[u] \notin {"begun", "running", "replied"}
      BY <1>2 DEF ChannelTake
    <2>4. /\ UNCHANGED <<stored, active, stopped, cancels, asked, events, crashes>>
          /\ overtaken' \in [Turns -> SUBSET Turns] /\ erased' = erased
      BY <1>2 DEF ChannelTake
    <2> HIDE DEF Turns, Steps, Outcomes
    <2> QED BY <2>1, <2>2, <2>3, <2>4
  <1>3. CASE ChannelExecute(t)
    <2>a. local[t] \in ChatState
      OBVIOUS
    <2>b. \E cs \in ChatState : local' = [local EXCEPT ![t] = cs]
      BY <1>1, <1>3, <2>a, SessionTypes DEF ChannelExecute
    <2>1. local' \in [Turns -> ChatState]
      BY <2>b
    <2>2. outcome' \in [Turns -> Outcomes]
      BY <1>3 DEF ChannelExecute
    <2>d. Goto(t, "executed") \/ Goto(t, "ended")
      BY <1>3 DEF ChannelExecute
    <2>3. /\ pc' \in [Turns -> Steps]
          /\ \A u \in ChannelTurns : pc'[u] \notin {"begun", "running", "replied"}
      BY <2>d
    <2>c. overtaken' = overtaken \/ overtaken' = [overtaken EXCEPT ![t] = {}]
      BY <1>3 DEF ChannelExecute
    <2>4. /\ UNCHANGED <<stored, active, stopped, cancels, asked, events, crashes>>
          /\ overtaken' \in [Turns -> SUBSET Turns] /\ erased' = erased
      BY <1>3, <2>c DEF ChannelExecute
    <2> HIDE DEF Turns, Steps, Outcomes
    <2> QED BY <2>1, <2>2, <2>3, <2>4
  <1>4. CASE ChannelSave(t)
    BY <1>1, <1>4, SaveTypes DEF ChannelSave
  <1>5. CASE ChannelReply(t)
    BY <1>1, <1>5 DEF ChannelReply
  <1> QED BY <1>2, <1>3, <1>4, <1>5 DEF ChannelNext

\* The initial state is well typed.
LEMMA InitTypes == Init => TypeOK
  <1>1. NewChat \in ChatState
    BY DEF NewChat, ChatState
  <1> QED BY <1>1, TurnsAssumption DEF Init, TypeOK, Steps, Outcomes, Turns

\* Every step of the agent keeps the types.
LEMMA StepTypes == TypeOK /\ [Next]_vars => TypeOK'
  <1> SUFFICES ASSUME TypeOK, [Next]_vars PROVE TypeOK'
    OBVIOUS
  <1>1. CASE \E c \in Chats : CancelLookup(c)
    BY <1>1 DEF TypeOK, CancelLookup
  <1>2. CASE Crash
    <2>1. NewChat \in ChatState
      BY DEF NewChat, ChatState
    <2> QED
      BY <1>2, <2>1, TurnsAssumption DEF TypeOK, Crash, Steps, Outcomes,
         InProgress, Turns
  <1>3. CASE UNCHANGED vars
    BY <1>3 DEF TypeOK, vars
  <1> QED
    BY <1>1, <1>2, <1>3, HttpTypes, ChannelTypes DEF Next, Idle

\* Every variable stays within its type in every run of the agent.
THEOREM TypeCorrect == Spec => []TypeOK
  BY InitTypes, StepTypes, PTL DEF Spec

-----------------------------------------------------------------------------
(* Single flight                                                           *)

\* A step that leaves the table and the "in flight" status of every handler
\* alone keeps the table right.
LEMMA SlotsUntouched ==
    ASSUME SlotOwnedByTurn, UNCHANGED active,
           \A u \in HttpTurns : InFlight(u)' <=> InFlight(u)
    PROVE  SlotOwnedByTurn'
  BY DEF SlotOwnedByTurn

\* handleSendMessage keeps the table right: it enters the chat's slot when
\* it is free and clears it on its way out (http.go:285-292, 359-373).
LEMMA HttpSlots ==
    ASSUME TypeOK, SlotOwnedByTurn, NEW t \in HttpTurns, HttpNext(t)
    PROVE  SlotOwnedByTurn'
  <1> USE TurnsAssumption DEF Turns
  <1>1. CASE HttpBegin(t)
    BY <1>1 DEF HttpBegin, SlotFree, Goto, TypeOK, SlotOwnedByTurn, InFlight
  <1>2. CASE HttpRelease(t)
    BY <1>2 DEF HttpRelease, SlotsWithout, Goto, TypeOK, SlotOwnedByTurn,
                InFlight
  <1>3. CASE HttpLoad(t)
    BY <1>3, SlotsUntouched DEF HttpLoad, Goto, TypeOK, InFlight
  <1>4. CASE HttpRefuse(t)
    BY <1>4, SlotsUntouched DEF HttpRefuse, Goto, TypeOK, InFlight
  <1>5. CASE HttpAnnounce(t)
    BY <1>5, SlotsUntouched DEF HttpAnnounce, Goto, TypeOK, InFlight
  <1>6. CASE HttpExecute(t)
    BY <1>6, SlotsUntouched DEF HttpExecute, Goto, TypeOK, InFlight
  <1>7. CASE HttpSave(t)
    BY <1>7, SlotsUntouched DEF HttpSave, Goto, TypeOK, InFlight
  <1>8. CASE HttpReply(t)
    BY <1>8, SlotsUntouched DEF HttpReply, Goto, TypeOK, InFlight
  <1>9. CASE HttpEmit(t) \/ Disconnect(t) \/ CancelFire(t)
    BY <1>9, SlotsUntouched DEF HttpEmit, Disconnect, CancelFire, InFlight
  <1> QED
    BY <1>1, <1>2, <1>3, <1>4, <1>5, <1>6, <1>7, <1>8, <1>9 DEF HttpNext

\* handleInbound never touches the table and is not part of it.
LEMMA ChannelSlots ==
    ASSUME TypeOK, SlotOwnedByTurn, NEW t \in ChannelTurns, ChannelNext(t)
    PROVE  SlotOwnedByTurn'
  <1>1. UNCHANGED active
    BY DEF ChannelNext, ChannelTake, ChannelExecute, ChannelSave, ChannelReply
  <1>2. \E step \in Steps : pc' = [pc EXCEPT ![t] = step]
    BY DEF ChannelNext, ChannelTake, ChannelExecute, ChannelSave,
           ChannelReply, Goto, Steps
  <1>3. \A u \in HttpTurns : pc'[u] = pc[u]
    BY <1>2, TurnsAssumption DEF TypeOK, Turns
  <1> QED BY <1>1, <1>3, SlotsUntouched DEF InFlight

\* In every run the entry of a chat in s.active is the turn that is in
\* flight: cancel-active always reaches the running turn, and no slot leaks.
THEOREM SlotsCorrect == Spec => []SlotOwnedByTurn
  <1> USE TurnsAssumption DEF Turns
  <1>1. Init => SlotOwnedByTurn
    BY DEF Init, SlotOwnedByTurn, InFlight
  <1>2. TypeOK /\ SlotOwnedByTurn /\ [Next]_vars => SlotOwnedByTurn'
    <2> SUFFICES ASSUME TypeOK, SlotOwnedByTurn, [Next]_vars
                 PROVE  SlotOwnedByTurn'
      OBVIOUS
    <2>1. CASE \E c \in Chats : CancelLookup(c)
      BY <2>1, SlotsUntouched DEF CancelLookup, InFlight
    <2>2. CASE Crash
      BY <2>2 DEF Crash, SlotOwnedByTurn, InFlight, InProgress, TypeOK
    <2>3. CASE UNCHANGED vars
      BY <2>3, SlotsUntouched DEF vars, InFlight
    <2> QED
      BY <2>1, <2>2, <2>3, HttpSlots, ChannelSlots DEF Next, Idle
  <1> QED BY <1>1, <1>2, TypeCorrect, PTL DEF Spec

\* Two HTTP turns of a chat are never in flight together (http.go:42-45).
THEOREM TurnsAreSerialized == Spec => []SingleFlight
  <1>1. SlotOwnedByTurn => SingleFlight
    BY DEF SlotOwnedByTurn, SingleFlight
  <1> QED BY <1>1, SlotsCorrect, PTL

-----------------------------------------------------------------------------
(* Cancellation reaches the turn it was meant for                          *)

\* A cancel func that is still to be called was looked up for its turn.
CancelsAreAsked == cancels \subseteq asked /\ StopOnlyWhenAsked

\* A turn is stopped, or ends as cancelled, only if someone asked for it, even
\* if the cancel func fires after its turn ended and another one runs in the
\* chat (http.go:375-384).
THEOREM StopsAreAsked == Spec => []StopOnlyWhenAsked
  <1>1. Init => CancelsAreAsked
    BY TurnsAssumption DEF Init, CancelsAreAsked, StopOnlyWhenAsked, Turns
  <1>2. TypeOK /\ CancelsAreAsked /\ [Next]_vars => CancelsAreAsked'
    <2> SUFFICES ASSUME TypeOK, CancelsAreAsked, [Next]_vars
                 PROVE  CancelsAreAsked'
      OBVIOUS
    <2> USE TurnsAssumption DEF TypeOK, Turns, CancelsAreAsked,
            StopOnlyWhenAsked, Becomes
    <2>1. CASE \E t \in HttpTurns : HttpNext(t)
      <3> PICK t \in HttpTurns : HttpNext(t)
        BY <2>1
      <3>1. CASE HttpLoad(t) \/ HttpBegin(t) \/ HttpRefuse(t) \/ HttpAnnounce(t)
        BY <3>1 DEF HttpLoad, HttpBegin, HttpRefuse, HttpAnnounce
      <3>2. CASE HttpEmit(t) \/ HttpReply(t) \/ HttpRelease(t)
        BY <3>2 DEF HttpEmit, HttpReply, HttpRelease
      <3>3. CASE HttpExecute(t)
        BY <3>3 DEF HttpExecute
      <3>4. CASE HttpSave(t)
        BY <3>4 DEF HttpSave, Save
      <3>5. CASE Disconnect(t) \/ CancelFire(t)
        BY <3>5 DEF Disconnect, CancelFire, StoppedBy
      <3> QED BY <3>1, <3>2, <3>3, <3>4, <3>5 DEF HttpNext
    <2>2. CASE \E t \in ChannelTurns : ChannelNext(t)
      BY <2>2 DEF ChannelNext, ChannelTake, ChannelExecute, ChannelSave,
                  ChannelReply, Save
    <2>3. CASE Crash
      BY <2>3 DEF Crash
    <2>4. CASE UNCHANGED vars \/ \E c \in Chats : CancelLookup(c)
      BY <2>4 DEF vars, CancelLookup
    <2> QED BY <2>1, <2>2, <2>3, <2>4 DEF Next, Idle
  <1> QED BY <1>1, <1>2, TypeCorrect, PTL DEF Spec, CancelsAreAsked

-----------------------------------------------------------------------------
(* The slot keeps other requests out of the session file                   *)

\* Only a channel turn overtakes the copy of a HTTP turn that holds its chat's
\* slot: another request of the chat that saves would have to hold the same
\* slot (http.go:285-292, 359-373).
THEOREM SlotKeepsOthersOut == Spec => SlotKeepsWritersOut
  <1> USE TurnsAssumption DEF Turns
  <1> DEFINE Kept(t) == InFlight(t) /\ InFlight(t)' =>
                           overtaken'[t] \subseteq overtaken[t] \cup ChannelTurns
  <1>1. TypeOK /\ SlotOwnedByTurn /\ [Next]_vars =>
          \A t \in HttpTurns : Kept(t)
    <2> SUFFICES ASSUME TypeOK, SlotOwnedByTurn, [Next]_vars,
                        NEW t \in HttpTurns, InFlight(t)
                 PROVE  overtaken'[t] \subseteq overtaken[t] \cup ChannelTurns
      OBVIOUS
    <2> USE DEF TypeOK
    <2>1. ASSUME NEW u \in Turns, overtaken' = [overtaken EXCEPT ![u] = {}]
          PROVE  overtaken'[t] \subseteq overtaken[t] \cup ChannelTurns
      BY <2>1
    <2>2. ASSUME NEW u \in Turns, Save(u), u \in HttpTurns => InFlight(u)
          PROVE  overtaken'[t] \subseteq overtaken[t] \cup ChannelTurns
      <3>1. CASE ~Overtakes(u)
        BY <2>1, <2>2, <3>1 DEF Save
      <3>2. CASE Overtakes(u) /\ u \in ChannelTurns
        BY <3>2 DEF Overtakes
      <3>3. CASE Overtakes(u) /\ u \in HttpTurns
        <4>1. ChatOf[u] = ChatOf[t] => u = t
          BY <2>2, <3>3 DEF SlotOwnedByTurn
        <4> QED BY <3>3, <4>1 DEF Overtakes
      <3> QED BY <2>2, <3>1, <3>2, <3>3
    <2>3. CASE \E u \in HttpTurns : HttpNext(u)
      <3> PICK u \in HttpTurns : HttpNext(u)
        BY <2>3
      <3>1. CASE HttpSave(u)
        BY <2>2, <3>1 DEF HttpSave, InFlight
      <3>2. CASE HttpRefuse(u)
        BY <2>1, <3>2 DEF HttpRefuse
      <3>3. CASE ~(HttpSave(u) \/ HttpRefuse(u))
        BY <3>3 DEF HttpNext, HttpLoad, HttpBegin, HttpAnnounce, HttpEmit,
           HttpExecute, HttpReply, HttpRelease, Disconnect, CancelFire
      <3> QED BY <3>1, <3>2, <3>3
    <2>4. CASE \E u \in ChannelTurns : ChannelNext(u)
      <3> PICK u \in ChannelTurns : ChannelNext(u)
        BY <2>4
      <3>1. CASE ChannelSave(u)
        BY <2>2, <3>1 DEF ChannelSave
      <3>2. CASE ChannelExecute(u)
        BY <2>1, <3>2 DEF ChannelExecute
      <3>3. CASE ChannelTake(u) \/ ChannelReply(u)
        BY <3>3 DEF ChannelTake, ChannelReply
      <3> QED BY <3>1, <3>2, <3>3 DEF ChannelNext
    <2>5. CASE Crash
      BY <2>5 DEF Crash
    <2>6. CASE UNCHANGED vars \/ \E c \in Chats : CancelLookup(c)
      BY <2>6 DEF vars, CancelLookup
    <2> QED BY <2>3, <2>4, <2>5, <2>6 DEF Next, Idle
  <1>2. TypeOK /\ SlotOwnedByTurn /\ [Next]_vars =>
          [\A t \in HttpTurns : Kept(t)]_vars
    BY <1>1
  <1> QED
    BY <1>2, TypeCorrect, SlotsCorrect, PTL DEF Spec, SlotKeepsWritersOut

-----------------------------------------------------------------------------
(* What erases a completed turn                                            *)

\* An appended exchange and nothing else is new in the messages.
LEMMA AppendedExchange ==
    ASSUME NEW s \in Seq(Exchange), NEW e \in Exchange
    PROVE  ToSet(Append(s, e)) = ToSet(s) \cup {e}
  <1> DEFINE r == Append(s, e)
  <1>1. /\ r \in Seq(Exchange)
        /\ Len(r) = Len(s) + 1
        /\ \A i \in 1..Len(s) : r[i] = s[i]
        /\ r[Len(s) + 1] = e
    BY AppendProperties
  <1>2. DOMAIN s = 1..Len(s) /\ DOMAIN r = 1..(Len(s) + 1) /\ Len(s) \in Nat
    BY <1>1
  <1> HIDE DEF r
  <1>3. ToSet(r) = ToSet(s) \cup {e}
    BY <1>1, <1>2 DEF ToSet
  <1> QED BY <1>3 DEF r

\* What the handler of t adds to the messages it read.
OwnExchange(t) == [turn |-> t, answered |-> outcome[t] = "answered"]

\* A handler that has executed holds the messages it read and its own exchange
\* (http.go:315-330, main.go:228-232).
CopyIsExtended(t) ==
    pc[t] = "executed" =>
       \E read \in Seq(Exchange) :
          local[t].messages = Append(read, OwnExchange(t))

ExtendInv == TypeOK /\ \A t \in Turns : CopyIsExtended(t)

\* The exchange of t is one, whatever became of t.
LEMMA OwnExchangeTyped ==
    ASSUME NEW t \in Turns PROVE OwnExchange(t) \in Exchange
  BY DEF OwnExchange, Exchange

\* Executing a turn extends the messages of the copy by the turn.
LEMMA ExecuteExtends ==
    ASSUME TypeOK, NEW t \in Turns, HttpExecute(t) \/ ChannelExecute(t),
           pc'[t] = "executed"
    PROVE  /\ local[t].messages \in Seq(Exchange)
           /\ local'[t].messages = Append(local[t].messages, OwnExchange(t)')
  <1> USE DEF TypeOK
  <1>1. /\ local[t] \in ChatState /\ local[t].messages \in Seq(Exchange)
        /\ DOMAIN local[t] = {"messages", "history"}
    BY DEF ChatState
  <1>2. CASE outcome'[t] = "answered"
    <2>1. \E h \in HistoriesAfter(local[t], t) :
             local'[t] = WithAnswer(local[t], t, h)
      BY <1>2 DEF HttpExecute, ChannelExecute, Becomes, Goto
    <2>2. OwnExchange(t)' = [turn |-> t, answered |-> TRUE]
      BY <1>2 DEF OwnExchange
    <2> QED BY <1>1, <2>1, <2>2 DEF WithAnswer
  <1>3. CASE outcome'[t] # "answered"
    <2>1. local'[t] = WithQuestion(local[t], t)
      BY <1>3 DEF HttpExecute, ChannelExecute, Becomes, Goto
    <2> QED BY <1>1, <1>3, <2>1 DEF WithQuestion, OwnExchange
  <1> QED BY <1>2, <1>3

\* A step of t's handler leaves the others' control, copy and result alone.
LEMMA OthersUntouched ==
    ASSUME TypeOK, NEW t \in Turns,
           \/ t \in HttpTurns /\ HttpNext(t)
           \/ t \in ChannelTurns /\ ChannelNext(t)
    PROVE  \A u \in Turns :
              u # t => UNCHANGED <<pc[u], local[u], outcome[u]>>
  <1> USE DEF TypeOK, Goto, Becomes
  <1>1. CASE t \in HttpTurns /\ HttpNext(t)
    BY <1>1 DEF HttpNext, HttpLoad, HttpBegin, HttpRefuse, HttpAnnounce,
       HttpEmit, HttpExecute, HttpSave, HttpReply, HttpRelease, Disconnect,
       CancelFire, Save
  <1>2. CASE t \in ChannelTurns /\ ChannelNext(t)
    BY <1>2 DEF ChannelNext, ChannelTake, ChannelExecute, ChannelSave,
       ChannelReply, Save
  <1> QED BY <1>1, <1>2

\* In every run a handler that has executed holds what it read and its turn.
LEMMA CopiesAreExtended == Spec => []ExtendInv
  <1> USE TurnsAssumption DEF Turns
  <1>1. Init => ExtendInv
    BY InitTypes DEF Init, ExtendInv, CopyIsExtended
  <1>2. ExtendInv /\ [Next]_vars => ExtendInv'
    <2> SUFFICES ASSUME ExtendInv, [Next]_vars PROVE ExtendInv'
      OBVIOUS
    <2>1. TypeOK /\ TypeOK'
      BY StepTypes DEF ExtendInv
    <2>2. ASSUME NEW u \in Turns, UNCHANGED <<pc[u], local[u], outcome[u]>>
          PROVE  CopyIsExtended(u)'
      <3>1. OwnExchange(u)' = OwnExchange(u)
        BY <2>2 DEF OwnExchange
      <3>2. CopyIsExtended(u)
        BY DEF ExtendInv
      <3> QED BY <2>2, <3>1, <3>2 DEF CopyIsExtended
    <2>3. ASSUME NEW t \in Turns, HttpExecute(t) \/ ChannelExecute(t)
          PROVE  CopyIsExtended(t)'
      BY <2>1, <2>3, ExecuteExtends DEF CopyIsExtended
    <2>4. CASE \/ \E t \in HttpTurns : HttpNext(t)
               \/ \E t \in ChannelTurns : ChannelNext(t)
      <3> PICK t \in Turns : \/ t \in HttpTurns /\ HttpNext(t)
                             \/ t \in ChannelTurns /\ ChannelNext(t)
        BY <2>4
      <3>1. \A u \in Turns : u # t => CopyIsExtended(u)'
        BY <2>1, <2>2, OthersUntouched
      <3>2. CopyIsExtended(t)'
        <4>1. CASE HttpExecute(t) \/ ChannelExecute(t)
          BY <2>3, <4>1
        <4>2. CASE HttpEmit(t) \/ Disconnect(t) \/ CancelFire(t)
          BY <2>2, <4>2 DEF HttpEmit, Disconnect, CancelFire
        <4>3. CASE /\ ~(HttpExecute(t) \/ ChannelExecute(t))
                   /\ ~(HttpEmit(t) \/ Disconnect(t) \/ CancelFire(t))
          <5>1. pc'[t] # "executed"
            BY <2>1, <4>3 DEF TypeOK, Goto, HttpNext, HttpLoad, HttpBegin,
               HttpRefuse, HttpAnnounce, HttpSave, HttpReply, HttpRelease,
               ChannelNext, ChannelTake, ChannelSave, ChannelReply
          <5> QED BY <5>1 DEF CopyIsExtended
        <4> QED BY <4>1, <4>2, <4>3
      <3> QED BY <2>1, <3>1, <3>2 DEF ExtendInv
    <2>5. CASE Crash
      <3>1. \A t \in Turns : pc'[t] # "executed"
        BY <2>1, <2>5 DEF Crash, InProgress, TypeOK
      <3> QED BY <2>1, <3>1 DEF ExtendInv, CopyIsExtended
    <2>6. CASE UNCHANGED vars \/ \E c \in Chats : CancelLookup(c)
      <3>1. UNCHANGED <<pc, local, outcome>>
        BY <2>6 DEF vars, CancelLookup
      <3> QED BY <2>1, <2>2, <3>1 DEF ExtendInv
    <2> QED BY <2>4, <2>5, <2>6 DEF Next, Idle
  <1> QED BY <1>1, <1>2, PTL DEF Spec

\* t's answer is among the messages of a session.
Holds(cs, t) == [turn |-> t, answered |-> TRUE] \in ToSet(cs.messages)

\* t has put its answer into the file of its chat.
Kept(t) == outcome[t] = "answered" /\ pc[t] \in {"saved", "replied", "ended"}

\* An answer that was kept and not erased is in the file of its chat, and in
\* every copy of the chat that t has not overtaken.
AnswerIsSafe(t) ==
    Kept(t) /\ t \notin erased =>
       /\ AnswerStored(t)
       /\ \A u \in Turns :
             HasCopy(u) /\ ChatOf[u] = ChatOf[t] /\ t \notin overtaken[u] =>
                Holds(local[u], t)

EraseInv == ExtendInv /\ \A t \in Turns : AnswerIsSafe(t)

\* A save writes a copy that holds every answer that did not overtake it.
LEMMA SaveIsSafe ==
    ASSUME EraseInv, NEW t \in Turns, pc[t] = "executed", Save(t),
           Goto(t, "saved"), local' = [local EXCEPT ![t] = NewChat]
    PROVE  \A u \in Turns : AnswerIsSafe(u)'
  <1> USE TurnsAssumption DEF EraseInv, ExtendInv, TypeOK, Goto
  <1>1. /\ pc'[t] = "saved"
        /\ \A u \in Turns : u # t => pc'[u] = pc[u] /\ local'[u] = local[u]
        /\ ~HasCopy(t)'
        /\ \A u \in Turns : u # t => (HasCopy(u)' <=> HasCopy(u))
    BY DEF HasCopy
  <1>2. CASE /\ stored' = [stored EXCEPT ![ChatOf[t]] = local[t]]
             /\ Overtakes(t) /\ UNCHANGED outcome
    <2>1. \A u \in Turns :
             ChatOf[u] = ChatOf[t] => stored'[ChatOf[u]] = local[t]
      BY <1>2
    <2>2. \A u \in Turns :
             /\ u # t /\ HasCopy(u) /\ ChatOf[u] = ChatOf[t] =>
                   overtaken'[u] = overtaken[u] \cup {t}
             /\ u # t => overtaken[u] \subseteq overtaken'[u]
      BY <1>2 DEF Overtakes
    <2>3. erased' = erased \cup overtaken[t]
      BY <1>2 DEF Overtakes
    <2>4. ASSUME NEW u \in Turns, u # t, Kept(u)', u \notin erased'
          PROVE  AnswerStored(u)' /\ \A v \in Turns :
                    HasCopy(v)' /\ ChatOf[v] = ChatOf[u]
                       /\ u \notin overtaken'[v] => Holds(local[v], u)'
      <3>1. Kept(u) /\ u \notin erased /\ u \notin overtaken[t]
        BY <1>1, <1>2, <2>3, <2>4 DEF Kept
      <3>2. AnswerIsSafe(u)
        OBVIOUS
      <3>3. \A v \in Turns :
               HasCopy(v) /\ ChatOf[v] = ChatOf[u] /\ u \notin overtaken[v] =>
                  Holds(local[v], u)
        BY <3>1, <3>2 DEF AnswerIsSafe
      <3>4. AnswerStored(u)'
        <4>1. CASE ChatOf[u] = ChatOf[t]
          <5>1. Holds(local[t], u)
            BY <3>1, <3>3, <4>1 DEF HasCopy
          <5> QED BY <2>1, <4>1, <5>1 DEF Holds, AnswerStored
        <4>2. CASE ChatOf[u] # ChatOf[t]
          <5>1. stored'[ChatOf[u]] = stored[ChatOf[u]]
            BY <1>2, <4>2
          <5> QED BY <3>1, <3>2, <5>1 DEF AnswerIsSafe, AnswerStored
        <4> QED BY <4>1, <4>2
      <3>5. ASSUME NEW v \in Turns, HasCopy(v)', ChatOf[v] = ChatOf[u],
                   u \notin overtaken'[v]
            PROVE  Holds(local[v], u)'
        <4>1. v # t /\ HasCopy(v) /\ local'[v] = local[v]
          BY <1>1, <3>5
        <4>2. u \notin overtaken[v]
          BY <2>2, <3>5, <4>1
        <4> QED BY <3>3, <3>5, <4>1, <4>2 DEF Holds
      <3> QED BY <3>4, <3>5
    <2>5. ASSUME Kept(t)'
          PROVE  AnswerStored(t)' /\ \A v \in Turns :
                    HasCopy(v)' /\ ChatOf[v] = ChatOf[t]
                       /\ t \notin overtaken'[v] => Holds(local[v], t)'
      <3>1. outcome[t] = "answered"
        BY <1>2, <2>5 DEF Kept
      <3>2. PICK read \in Seq(Exchange) :
               local[t].messages = Append(read, OwnExchange(t))
        BY DEF CopyIsExtended
      <3>3. OwnExchange(t) \in ToSet(local[t].messages)
        BY <3>2, OwnExchangeTyped, AppendedExchange
      <3>4. AnswerStored(t)'
        BY <2>1, <3>1, <3>3 DEF AnswerStored, OwnExchange
      <3>5. ASSUME NEW v \in Turns, HasCopy(v)', ChatOf[v] = ChatOf[t],
                   t \notin overtaken'[v]
            PROVE  FALSE
        BY <1>1, <2>2, <3>5
      <3> QED BY <3>4, <3>5
    <2> QED BY <2>4, <2>5 DEF AnswerIsSafe
  <1>3. CASE /\ outcome' = [outcome EXCEPT
                              ![t] = IF @ = "answered" THEN "unsaved" ELSE @]
             /\ overtaken' = [overtaken EXCEPT ![t] = {}]
             /\ UNCHANGED <<stored, erased>>
    <2>1. ~Kept(t)'
      BY <1>3 DEF Kept
    <2>2. ASSUME NEW u \in Turns, u # t
          PROVE  AnswerIsSafe(u)'
      <3>1. /\ AnswerIsSafe(u)
            /\ Kept(u)' <=> Kept(u)
            /\ AnswerStored(u)' <=> AnswerStored(u)
        BY <1>1, <1>3, <2>2 DEF Kept, AnswerStored
      <3>2. \A v \in Turns : HasCopy(v)' =>
               /\ v # t /\ HasCopy(v)
               /\ overtaken'[v] = overtaken[v] /\ local'[v] = local[v]
        BY <1>1, <1>3
      <3> QED BY <1>3, <3>1, <3>2 DEF AnswerIsSafe, Holds
    <2> QED BY <2>1, <2>2 DEF AnswerIsSafe
  <1> QED BY <1>2, <1>3 DEF Save

\* The other steps leave the files alone and a copy of a session as it was read,
\* or extended.
LEMMA OthersAreSafe ==
    ASSUME EraseInv, UNCHANGED <<stored, erased>>,
           \A u \in Turns : Kept(u)' => Kept(u),
           \A u \in Turns : HasCopy(u)' =>
              \/ /\ HasCopy(u) /\ overtaken'[u] = overtaken[u]
                 /\ ToSet(local[u].messages) \subseteq ToSet(local'[u].messages)
              \/ local'[u] = stored[ChatOf[u]]
    PROVE  \A u \in Turns : AnswerIsSafe(u)'
  <1> SUFFICES ASSUME NEW u \in Turns, Kept(u)', u \notin erased'
               PROVE  /\ AnswerStored(u)'
                      /\ \A v \in Turns :
                            HasCopy(v)' /\ ChatOf[v] = ChatOf[u]
                               /\ u \notin overtaken'[v] => Holds(local[v], u)'
    BY DEF AnswerIsSafe
  <1>1. AnswerIsSafe(u) /\ Kept(u) /\ u \notin erased
    BY DEF EraseInv
  <1>2. AnswerStored(u) /\ AnswerStored(u)'
    BY <1>1 DEF AnswerIsSafe, AnswerStored
  <1>3. ASSUME NEW v \in Turns, HasCopy(v)', ChatOf[v] = ChatOf[u],
               u \notin overtaken'[v]
        PROVE  Holds(local[v], u)'
    <2>1. CASE /\ HasCopy(v) /\ overtaken'[v] = overtaken[v]
               /\ ToSet(local[v].messages) \subseteq ToSet(local'[v].messages)
      BY <1>1, <1>3, <2>1 DEF AnswerIsSafe, Holds
    <2>2. CASE local'[v] = stored[ChatOf[v]]
      BY <1>2, <1>3, <2>2 DEF Holds, AnswerStored
    <2> QED BY <1>3, <2>1, <2>2
  <1> QED BY <1>2, <1>3

\* In every run, however requests, channel turns, failing saves, cancels and
\* crashes mix, a turn reported completed is missing from the session file only
\* if a handler that had read the session before its save saved after it.
THEOREM OnlyStaleCopies == Spec => []OnlyStaleCopiesErase
  <1> USE TurnsAssumption DEF Turns
  <1>1. Init => \A t \in Turns : AnswerIsSafe(t)
    BY DEF Init, AnswerIsSafe, Kept
  <1>2. EraseInv /\ ExtendInv' /\ [Next]_vars => EraseInv'
    <2> SUFFICES ASSUME EraseInv, ExtendInv', [Next]_vars
                 PROVE  \A t \in Turns : AnswerIsSafe(t)'
      BY DEF EraseInv
    <2> USE DEF EraseInv, ExtendInv, TypeOK
    <2>1. CASE \/ \E t \in HttpTurns : HttpNext(t)
               \/ \E t \in ChannelTurns : ChannelNext(t)
      <3> PICK t \in Turns : \/ t \in HttpTurns /\ HttpNext(t)
                             \/ t \in ChannelTurns /\ ChannelNext(t)
        BY <2>1
      <3>1. CASE HttpSave(t) \/ ChannelSave(t)
        BY <3>1, SaveIsSafe DEF HttpSave, ChannelSave
      <3>2. CASE ~(HttpSave(t) \/ ChannelSave(t))
        <4>1. UNCHANGED <<stored, erased>>
          BY <3>2 DEF HttpNext, HttpLoad, HttpBegin, HttpRefuse, HttpAnnounce,
             HttpEmit, HttpExecute, HttpReply, HttpRelease, Disconnect,
             CancelFire, ChannelNext, ChannelTake, ChannelExecute,
             ChannelReply
        <4>2. \A u \in Turns :
                 u # t => UNCHANGED <<pc[u], local[u], outcome[u]>>
          BY OthersUntouched
        <4>3. \A u \in Turns : u # t => overtaken'[u] = overtaken[u]
          BY <3>2 DEF HttpNext, HttpLoad, HttpBegin, HttpRefuse, HttpAnnounce,
             HttpEmit, HttpExecute, HttpReply, HttpRelease, Disconnect,
             CancelFire, ChannelNext, ChannelTake, ChannelExecute,
             ChannelReply
        <4>4. Kept(t)' => Kept(t)
          <5> USE DEF Kept, Goto, Becomes
          <5>1. CASE HttpLoad(t) \/ HttpBegin(t) \/ HttpRefuse(t)
                        \/ HttpAnnounce(t)
            BY <5>1 DEF HttpLoad, HttpBegin, HttpRefuse, HttpAnnounce
          <5>2. CASE HttpEmit(t) \/ Disconnect(t) \/ CancelFire(t)
            BY <5>2 DEF HttpEmit, Disconnect, CancelFire
          <5>3. CASE HttpExecute(t) \/ ChannelExecute(t) \/ ChannelTake(t)
            BY <5>3 DEF HttpExecute, ChannelExecute, ChannelTake
          <5>4. CASE HttpReply(t) \/ HttpRelease(t) \/ ChannelReply(t)
            BY <5>4 DEF HttpReply, HttpRelease, ChannelReply
          <5> QED BY <3>2, <5>1, <5>2, <5>3, <5>4 DEF HttpNext, ChannelNext
        <4>5. HasCopy(t)' =>
                \/ /\ HasCopy(t) /\ overtaken'[t] = overtaken[t]
                   /\ ToSet(local[t].messages) \subseteq
                         ToSet(local'[t].messages)
                \/ local'[t] = stored[ChatOf[t]]
          <5> USE DEF HasCopy, Goto
          <5>1. CASE HttpLoad(t) \/ ChannelTake(t)
            BY <5>1 DEF HttpLoad, ChannelTake
          <5>2. CASE HttpBegin(t) \/ HttpRefuse(t) \/ HttpAnnounce(t)
            BY <5>2 DEF HttpBegin, HttpRefuse, HttpAnnounce
          <5>3. CASE HttpEmit(t) \/ Disconnect(t) \/ CancelFire(t)
            BY <5>3 DEF HttpEmit, Disconnect, CancelFire
          <5>4. CASE (HttpExecute(t) \/ ChannelExecute(t)) /\ pc'[t] = "executed"
            <6>1. /\ local[t].messages \in Seq(Exchange)
                  /\ local'[t].messages =
                        Append(local[t].messages, OwnExchange(t)')
              BY <5>4, ExecuteExtends
            <6>2. OwnExchange(t)' \in Exchange
              BY DEF OwnExchange, Exchange
            <6>3. ToSet(local[t].messages) \subseteq ToSet(local'[t].messages)
              BY <6>1, <6>2, AppendedExchange
            <6>4. HasCopy(t) /\ overtaken'[t] = overtaken[t]
              BY <5>4 DEF HttpExecute, ChannelExecute
            <6> QED BY <6>3, <6>4
          <5>5. CASE (HttpExecute(t) \/ ChannelExecute(t)) /\ pc'[t] # "executed"
            BY <5>5 DEF HttpExecute, ChannelExecute
          <5>6. CASE HttpReply(t) \/ HttpRelease(t) \/ ChannelReply(t)
            BY <5>6 DEF HttpReply, HttpRelease, ChannelReply
          <5> QED
            BY <3>2, <5>1, <5>2, <5>3, <5>4, <5>5, <5>6
            DEF HttpNext, ChannelNext
        <4>6. \A u \in Turns : u # t =>
                 /\ Kept(u)' <=> Kept(u)
                 /\ HasCopy(u)' <=> HasCopy(u)
          BY <4>2 DEF Kept, HasCopy
        <4> QED BY <4>1, <4>2, <4>3, <4>4, <4>5, <4>6, OthersAreSafe
      <3> QED BY <3>1, <3>2
    <2>2. CASE Crash
      <3>1. \A t \in Turns : ~HasCopy(t)' /\ (Kept(t)' => Kept(t))
        BY <2>2 DEF Crash, InProgress, HasCopy, Kept, Steps
      <3> QED BY <2>2, <3>1, OthersAreSafe DEF Crash
    <2>3. CASE UNCHANGED vars \/ \E c \in Chats : CancelLookup(c)
      <3>1. UNCHANGED <<stored, erased, overtaken, pc, local, outcome>>
        BY <2>3 DEF vars, CancelLookup
      <3> QED BY <3>1, OthersAreSafe DEF Kept, HasCopy
    <2> QED BY <2>1, <2>2, <2>3 DEF Next, Idle
  <1>3. EraseInv => OnlyStaleCopiesErase
    BY DEF EraseInv, OnlyStaleCopiesErase, AnswerIsSafe, Told, Kept
  <1> QED
    BY <1>1, <1>2, <1>3, CopiesAreExtended, PTL DEF Spec, EraseInv

-----------------------------------------------------------------------------
(* The session files implement the logs                                    *)

\* Without its last exchange an extended sequence is the one extended.
LEMMA FrontOfAppend ==
    ASSUME NEW s \in Seq(Exchange), NEW e \in Exchange
    PROVE  Front(Append(s, e)) = s
  <1> DEFINE r == Append(s, e)
  <1>1. /\ r \in Seq(Exchange) /\ Len(r) = Len(s) + 1 /\ Len(s) \in Nat
        /\ \A i \in 1..Len(s) : r[i] = s[i]
    BY AppendProperties
  <1> HIDE DEF r
  <1>2. Front(r) = SubSeq(r, 1, Len(s))
    BY <1>1 DEF Front
  <1>3. /\ SubSeq(r, 1, Len(s)) \in Seq(Exchange)
        /\ Len(SubSeq(r, 1, Len(s))) = Len(s)
        /\ \A i \in 1..Len(s) : SubSeq(r, 1, Len(s))[i] = r[i]
    BY <1>1, SubSeqProperties
  <1>4. SubSeq(r, 1, Len(s)) = s
    BY <1>1, <1>3, SeqEqual
  <1> QED BY <1>2, <1>4 DEF r

\* A step of one turn changes place and copy of that turn only.
LEMMA OnePlaceChanges ==
    ASSUME NEW t \in Turns,
           \A u \in Turns : u # t => UNCHANGED <<pc[u], local[u], outcome[u]>>
    PROVE  /\ [u \in Turns |-> PlaceOf(u)]' =
                 [[u \in Turns |-> PlaceOf(u)] EXCEPT ![t] = PlaceOf(t)']
           /\ [u \in Turns |-> ReadBy(u)]' =
                 [[u \in Turns |-> ReadBy(u)] EXCEPT ![t] = ReadBy(t)']
           /\ PlaceOf(t)' = PlaceOf(t) =>
                 UNCHANGED [u \in Turns |-> PlaceOf(u)]
           /\ ReadBy(t)' = ReadBy(t) => UNCHANGED [u \in Turns |-> ReadBy(u)]
  <1>1. \A u \in Turns : u # t => PlaceOf(u)' = PlaceOf(u) /\ ReadBy(u)' = ReadBy(u)
    BY DEF PlaceOf, ReadBy, HasCopy, Told
  <1> QED BY <1>1

\* A turn that leaves, tells nobody.
LEMMA OneLeaves ==
    ASSUME NEW t \in Turns, UNCHANGED stored,
           \A u \in Turns : u # t => UNCHANGED <<pc[u], local[u], outcome[u]>>,
           PlaceOf(t) # "told", PlaceOf(t)' = "gone", ReadBy(t)' = <<>>
    PROVE  Log!Leave({t})
  BY OnePlaceChanges DEF Log!Leave

\* A save records the turn at the end of the messages its handler read, or the
\* turn leaves without (storage.go:94-118).
LEMMA SaveRecords ==
    ASSUME ExtendInv, NEW t \in Turns, pc[t] = "executed", Save(t),
           Goto(t, "saved"), local' = [local EXCEPT ![t] = NewChat]
    PROVE  Log!Record(t) \/ Log!Leave({t})
  <1> USE TurnsAssumption DEF ExtendInv, TypeOK
  <1>1. /\ pc'[t] = "saved"
        /\ \A u \in Turns : u # t => UNCHANGED <<pc[u], local[u], outcome[u]>>
    BY DEF Goto, Save
  <1>2. PlaceOf(t) = "reading" /\ ReadBy(t)' = <<>>
    BY <1>1 DEF PlaceOf, ReadBy, HasCopy, Told
  <1>3. PlaceOf(t)' = IF outcome'[t] = "answered" THEN "kept" ELSE "gone"
    BY <1>1 DEF PlaceOf, HasCopy, Told
  <1>4. CASE /\ stored' = [stored EXCEPT ![ChatOf[t]] = local[t]]
             /\ UNCHANGED outcome
    <2>1. PICK read \in Seq(Exchange) :
             local[t].messages = Append(read, OwnExchange(t))
      BY DEF CopyIsExtended
    <2>2. ReadBy(t) = read
      BY <2>1, OwnExchangeTyped, FrontOfAppend DEF ReadBy
    <2>3. [c \in Chats |-> stored'[c].messages] =
             [[c \in Chats |-> stored[c].messages] EXCEPT
                ![ChatOf[t]] = Append(ReadBy(t), OwnExchange(t))]
      BY <1>4, <2>1, <2>2
    <2>4. (outcome[t] = "answered") \in BOOLEAN
      OBVIOUS
    <2>5. /\ [u \in Turns |-> PlaceOf(u)]' =
                [[u \in Turns |-> PlaceOf(u)] EXCEPT ![t] =
                    IF outcome[t] = "answered" THEN "kept" ELSE "gone"]
          /\ [u \in Turns |-> ReadBy(u)]' =
                [[u \in Turns |-> ReadBy(u)] EXCEPT ![t] = <<>>]
      BY <1>1, <1>2, <1>3, <1>4, OnePlaceChanges
    <2>6. [u \in Turns |-> PlaceOf(u)][t] = "reading"
      BY <1>2
    <2>7. Log!Record(t)
      BY <2>3, <2>4, <2>5, <2>6 DEF Log!Record, OwnExchange
    <2> QED BY <2>7
  <1>5. CASE outcome'[t] # "answered" /\ UNCHANGED stored
    BY <1>1, <1>2, <1>3, <1>5, OneLeaves
  <1> QED BY <1>4, <1>5 DEF Save

\* In every run the session files are logs that each turn extends once, from
\* the copy it read, and a user hears of a completed turn only after its answer
\* was recorded, whatever handlers overlap, fail, are cancelled or die.
THEOREM SessionsImplementLog == Spec => LogSpec
  <1> USE TurnsAssumption DEF Turns
  <1>1. Init => Log!Init
    BY DEF Init, Log!Init, NewChat, PlaceOf, ReadBy, HasCopy, Told
  <1>2. ExtendInv /\ [Next]_vars => [Log!Next]_(Log!vars)
    <2> SUFFICES ASSUME ExtendInv, [Next]_vars
                 PROVE  [Log!Next]_(Log!vars)
      OBVIOUS
    <2> USE DEF ExtendInv, TypeOK
    <2>1. CASE \/ \E t \in HttpTurns : HttpNext(t)
               \/ \E t \in ChannelTurns : ChannelNext(t)
      <3> PICK t \in Turns : \/ t \in HttpTurns /\ HttpNext(t)
                             \/ t \in ChannelTurns /\ ChannelNext(t)
        BY <2>1
      <3>1. \A u \in Turns : u # t => UNCHANGED <<pc[u], local[u], outcome[u]>>
        BY OthersUntouched
      <3>2. ASSUME UNCHANGED stored, PlaceOf(t)' = PlaceOf(t),
                   ReadBy(t)' = ReadBy(t)
            PROVE  UNCHANGED Log!vars
        BY <3>1, <3>2, OnePlaceChanges DEF Log!vars
      <3>3. ASSUME UNCHANGED stored, PlaceOf(t) # "told",
                   PlaceOf(t)' = "gone", ReadBy(t)' = <<>>
            PROVE  Log!Leave({t})
        BY <3>1, <3>3, OneLeaves
      <3> USE DEF PlaceOf, HasCopy, Told
      <3>4. CASE HttpSave(t) \/ ChannelSave(t)
        BY <3>4, SaveRecords DEF HttpSave, ChannelSave, Log!Next
      <3>5. CASE HttpLoad(t) \/ ChannelTake(t)
        <4>1. CASE pc'[t] = "loaded"
          <5>1. /\ PlaceOf(t) = "new" /\ PlaceOf(t)' = "reading"
                /\ ReadBy(t)' = stored[ChatOf[t]].messages
                /\ UNCHANGED stored
            BY <3>5, <4>1 DEF HttpLoad, ChannelTake, Goto, ReadBy
          <5>2. Log!Read(t)
            BY <3>1, <5>1, OnePlaceChanges DEF Log!Read
          <5> QED BY <5>2 DEF Log!Next
        <4>2. CASE pc'[t] # "loaded"
          <5>1. /\ PlaceOf(t) # "told" /\ PlaceOf(t)' = "gone"
                /\ ReadBy(t)' = <<>> /\ UNCHANGED stored
            BY <3>5, <4>2 DEF HttpLoad, ChannelTake, Goto, Becomes, ReadBy
          <5> QED BY <3>3, <5>1 DEF Log!Next
        <4> QED BY <4>1, <4>2
      <3>6. CASE HttpBegin(t) \/ HttpAnnounce(t)
        BY <3>2, <3>6 DEF HttpBegin, HttpAnnounce, Goto, ReadBy
      <3>7. CASE HttpEmit(t) \/ Disconnect(t) \/ CancelFire(t)
        BY <3>2, <3>7 DEF HttpEmit, Disconnect, CancelFire, ReadBy
      <3>8. CASE (HttpExecute(t) \/ ChannelExecute(t)) /\ pc'[t] = "executed"
        <4>1. /\ local[t].messages \in Seq(Exchange)
              /\ local'[t].messages =
                    Append(local[t].messages, OwnExchange(t)')
          BY <3>8, ExecuteExtends
        <4>2. OwnExchange(t)' \in Exchange
          BY DEF OwnExchange, Exchange
        <4>3. Front(local'[t].messages) = local[t].messages
          BY <4>1, <4>2, FrontOfAppend
        <4>4. pc[t] \in {"loaded", "running"} /\ UNCHANGED stored
          BY <3>8 DEF HttpExecute, ChannelExecute
        <4>5. ReadBy(t)' = ReadBy(t)
          BY <3>8, <4>3, <4>4 DEF ReadBy
        <4>6. PlaceOf(t)' = PlaceOf(t)
          BY <3>8, <4>4
        <4> QED BY <3>2, <4>4, <4>5, <4>6
      <3>9. CASE (HttpExecute(t) \/ ChannelExecute(t)) /\ pc'[t] # "executed"
        <4>1. /\ pc[t] = "loaded" /\ pc'[t] = "ended" /\ UNCHANGED stored
              /\ outcome'[t] = "failed"
          BY <3>9 DEF HttpExecute, ChannelExecute, Goto, Becomes
        <4> QED BY <3>3, <4>1 DEF Log!Next, ReadBy
      <3>10. CASE HttpRefuse(t)
        <4>1. /\ pc[t] = "loaded" /\ pc'[t] = "ended" /\ UNCHANGED stored
              /\ outcome'[t] = "busy"
          BY <3>10 DEF HttpRefuse, Goto, Becomes
        <4> QED BY <3>3, <4>1 DEF Log!Next, ReadBy
      <3>11. CASE HttpReply(t)
        <4>1. /\ pc[t] = "saved" /\ pc'[t] = "replied"
              /\ UNCHANGED <<stored, outcome>>
          BY <3>11 DEF HttpReply, Goto
        <4>2. CASE outcome[t] = "answered" /\ t \in HttpTurns
          <5>1. /\ PlaceOf(t) = "kept" /\ PlaceOf(t)' = "told"
                /\ ReadBy(t) = <<>> /\ ReadBy(t)' = <<>>
            BY <4>1, <4>2 DEF ReadBy
          <5> HIDE DEF PlaceOf, HasCopy, Told
          <5>2. Log!Tell(t)
            BY <3>1, <4>1, <5>1, OnePlaceChanges DEF Log!Tell
          <5> QED BY <5>2 DEF Log!Next
        <4>3. CASE outcome[t] # "answered"
          BY <3>2, <4>1, <4>3 DEF ReadBy
        <4>4. CASE t \notin HttpTurns
          BY <3>11, <4>4 DEF ChannelNext, ChannelTake, ChannelExecute,
             ChannelSave, ChannelReply, HttpReply, Goto
        <4> QED BY <4>2, <4>3, <4>4
      <3>12. CASE HttpRelease(t)
        BY <3>2, <3>12 DEF HttpRelease, Goto, ReadBy
      <3>13. CASE ChannelReply(t) /\ t \in ChannelTurns
        <4>1. pc[t] = "saved" /\ pc'[t] = "ended" /\ UNCHANGED stored
          BY <3>13 DEF ChannelReply, Goto
        <4>2. PlaceOf(t) # "told" /\ PlaceOf(t)' = "gone" /\ ReadBy(t)' = <<>>
          BY <3>13, <4>1 DEF ReadBy
        <4> QED BY <3>3, <4>1, <4>2 DEF Log!Next
      <3> HIDE DEF PlaceOf, HasCopy, Told
      <3> QED
        BY <3>4, <3>5, <3>6, <3>7, <3>8, <3>9, <3>10, <3>11, <3>12, <3>13
        DEF HttpNext, ChannelNext
    <2>2. CASE Crash
      <3>1. \A t \in Turns :
               /\ PlaceOf(t)' = IF PlaceOf(t) \in {"reading", "kept"}
                                  THEN "gone" ELSE PlaceOf(t)
               /\ ReadBy(t)' = IF PlaceOf(t) \in {"reading", "kept"}
                                 THEN <<>> ELSE ReadBy(t)
        BY <2>2 DEF Crash, InProgress, PlaceOf, ReadBy, HasCopy, Told, Steps
      <3>2. UNCHANGED stored
        BY <2>2 DEF Crash
      <3>3. Log!Leave(Log!UnderWay)
        BY <3>1, <3>2 DEF Log!Leave, Log!UnderWay
      <3> QED BY <3>3 DEF Log!Next
    <2>3. CASE UNCHANGED vars \/ \E c \in Chats : CancelLookup(c)
      <3>1. UNCHANGED <<stored, pc, local, outcome>>
        BY <2>3 DEF vars, CancelLookup
      <3> QED BY <3>1 DEF Log!vars, PlaceOf, ReadBy, HasCopy, Told
    <2> QED BY <2>1, <2>2, <2>3 DEF Next, Idle
  <1> QED BY <1>1, <1>2, CopiesAreExtended, PTL DEF Spec, LogSpec, Log!Spec

-----------------------------------------------------------------------------
(* The event stream of a chat is a concatenation of turns                  *)

\* EventsBracketed for one stream.
Bracketed(ev) ==
    /\ \A i \in 1..Len(ev) :
         /\ ev[i].kind = "started" <=> i = 1 \/ ev[i-1].turn # ev[i].turn
         /\ ev[i].kind \in {"finished", "failed"} =>
                i = Len(ev) \/ ev[i+1].turn # ev[i].turn
    /\ \A i, j \in 1..Len(ev) : ev[i].kind = "started" /\ ev[i] = ev[j] => i = j

\* Nothing of t has been published on the stream.
Unheard(ev, t) == \A i \in 1..Len(ev) : ev[i].turn # t

\* The last event is one of t, and not its terminal one.
Open(ev, t) ==
    /\ Len(ev) > 0
    /\ ev[Len(ev)].turn = t
    /\ ev[Len(ev)].kind \in {"started", "delta"}

\* What a handler has published by the time it is where it is.
StreamIsSound(t) ==
    /\ pc[t] \in {"unsent", "loaded", "begun"} => Unheard(events[ChatOf[t]], t)
    /\ pc[t] \in {"running", "executed", "saved"} => Open(events[ChatOf[t]], t)

StreamsAreSound == EventsBracketed /\ \A t \in HttpTurns : StreamIsSound(t)

EventsInv == TypeOK /\ SlotOwnedByTurn /\ StreamsAreSound

\* A turn that has not been heard of may open, and an open turn may go on; an
\* event is news of its own turn only (sse.go:86-117).
LEMMA BracketedAppend ==
    ASSUME NEW ev \in Seq(Event), NEW e \in Event, Bracketed(ev),
           \/ e.kind = "started" /\ Unheard(ev, e.turn)
           \/ e.kind # "started" /\ Open(ev, e.turn)
    PROVE  /\ Bracketed(Append(ev, e))
           /\ e.kind \in {"started", "delta"} => Open(Append(ev, e), e.turn)
           /\ \A u : u # e.turn /\ Unheard(ev, u) => Unheard(Append(ev, e), u)
  <1> DEFINE r == Append(ev, e)
  <1>1. /\ r \in Seq(Event)
        /\ Len(r) = Len(ev) + 1 /\ Len(ev) \in Nat
        /\ \A i \in 1..Len(ev) : r[i] = ev[i]
        /\ r[Len(ev) + 1] = e
    BY AppendProperties
  <1> HIDE DEF r
  <1>2. ASSUME NEW i \in 1..Len(r)
        PROVE  /\ r[i].kind = "started" <=> i = 1 \/ r[i-1].turn # r[i].turn
               /\ r[i].kind \in {"finished", "failed"} =>
                      i = Len(r) \/ r[i+1].turn # r[i].turn
    <2>1. CASE i < Len(ev)
      <3>1. /\ i \in 1..Len(ev) /\ i + 1 \in 1..Len(ev)
            /\ i # 1 => i - 1 \in 1..Len(ev)
        BY <1>1, <2>1
      <3> QED BY <1>1, <2>1, <3>1 DEF Bracketed
    <2>2. CASE i = Len(ev)
      <3>1. i \in 1..Len(ev) /\ (i # 1 => i - 1 \in 1..Len(ev))
        BY <1>1, <2>2
      <3> QED BY <1>1, <2>2, <3>1 DEF Bracketed, Unheard, Open
    <2>3. CASE i = Len(ev) + 1
      <3>1. i # 1 => i - 1 \in 1..Len(ev) /\ i - 1 = Len(ev)
        BY <1>1, <2>3
      <3> QED BY <1>1, <2>3, <3>1 DEF Unheard, Open
    <2> QED BY <1>1, <2>1, <2>2, <2>3
  <1>3. ASSUME NEW i \in 1..Len(r), NEW j \in 1..Len(r),
               r[i].kind = "started", r[i] = r[j]
        PROVE  i = j
    <2>1. CASE i \in 1..Len(ev) /\ j \in 1..Len(ev)
      BY <1>1, <1>3, <2>1 DEF Bracketed
    <2>2. CASE ~(i \in 1..Len(ev) /\ j \in 1..Len(ev))
      BY <1>1, <1>3, <2>2 DEF Unheard
    <2> QED BY <2>1, <2>2
  <1>4. Bracketed(r)
    BY <1>2, <1>3 DEF Bracketed
  <1>5. e.kind \in {"started", "delta"} => Open(r, e.turn)
    BY <1>1 DEF Open
  <1>6. \A u : u # e.turn /\ Unheard(ev, u) => Unheard(r, u)
    BY <1>1 DEF Unheard
  <1> QED BY <1>4, <1>5, <1>6 DEF r

\* A handler publishes on the stream of its chat, which it has for itself.
LEMMA PublishKeepsBrackets ==
    ASSUME EventsInv, NEW t \in HttpTurns, NEW kind \in Kinds,
           Publish(t, kind), InFlight(t), InFlight(t)',
           \A u \in HttpTurns : u # t => pc'[u] = pc[u],
           \/ kind = "started" /\ pc[t] = "begun"
           \/ kind # "started" /\ pc[t] \in {"running", "saved"},
           \/ pc'[t] = "running" /\ kind \in {"started", "delta"}
           \/ pc'[t] = "replied"
    PROVE  StreamsAreSound'
  <1> USE TurnsAssumption DEF Turns
  <1> DEFINE e  == [kind |-> kind, turn |-> t]
             ev == events[ChatOf[t]]
  <1>1. ChatOf[t] \in Chats /\ ev \in Seq(Event) /\ e \in Event
    BY DEF EventsInv, TypeOK, Event
  <1>2. events' = [events EXCEPT ![ChatOf[t]] = Append(ev, e)]
    BY DEF Publish
  <1>3. /\ \A c \in Chats : c # ChatOf[t] => events'[c] = events[c]
        /\ events'[ChatOf[t]] = Append(ev, e)
    BY <1>1, <1>2 DEF EventsInv, TypeOK
  <1>4. \A c \in Chats : Bracketed(events[c])
    BY DEF EventsInv, StreamsAreSound, EventsBracketed, Bracketed
  <1>5. e.kind = kind /\ e.turn = t
    OBVIOUS
  <1>6. \/ kind = "started" /\ Unheard(ev, t)
        \/ kind # "started" /\ Open(ev, t)
    BY DEF EventsInv, StreamsAreSound, StreamIsSound
  <1> HIDE DEF e, ev
  <1>7. /\ Bracketed(Append(ev, e))
        /\ kind \in {"started", "delta"} => Open(Append(ev, e), t)
        /\ \A u : u # t /\ Unheard(ev, u) => Unheard(Append(ev, e), u)
    BY <1>1, <1>4, <1>5, <1>6, BracketedAppend DEF ev
  <1>8. \A c \in Chats : Bracketed(events'[c])
    BY <1>3, <1>4, <1>7
  <1>9. EventsBracketed'
    BY <1>8 DEF EventsBracketed, Bracketed
  <1>10. StreamIsSound(t)'
    BY <1>3, <1>7 DEF StreamIsSound
  <1>11. ASSUME NEW u \in HttpTurns, u # t
         PROVE  StreamIsSound(u)'
    <2>1. StreamIsSound(u) /\ pc'[u] = pc[u]
      BY <1>11 DEF EventsInv, StreamsAreSound
    <2>2. CASE ChatOf[u] = ChatOf[t]
      <3>1. ~InFlight(u)
        BY <1>11, <2>2 DEF EventsInv, SlotOwnedByTurn
      <3> QED BY <1>3, <1>7, <1>11, <2>1, <2>2, <3>1
              DEF StreamIsSound, InFlight, ev
    <2>3. CASE ChatOf[u] # ChatOf[t]
      <3>1. ChatOf[u] \in Chats
        OBVIOUS
      <3> QED BY <1>3, <2>1, <2>3, <3>1 DEF StreamIsSound
    <2> QED BY <2>2, <2>3
  <1> QED BY <1>9, <1>10, <1>11 DEF StreamsAreSound

\* In every run a chat's event stream is a concatenation of turns: contiguous,
\* opened once by execution.started, with nothing after the terminal event,
\* even when saving fails and when clients overlap (http.go:298-336).
THEOREM StreamsAreBracketed == Spec => []EventsBracketed
  <1> USE TurnsAssumption DEF Turns
  <1>1. Init => StreamsAreSound
    BY DEF Init, StreamsAreSound, EventsBracketed, StreamIsSound, Unheard
  <1>2. EventsInv /\ [Next]_vars => StreamsAreSound'
    <2> SUFFICES ASSUME EventsInv, [Next]_vars
                 PROVE  StreamsAreSound'
      OBVIOUS
    <2>1. ASSUME NEW t \in HttpTurns,
                 \E kind \in Kinds :
                    /\ Publish(t, kind)
                    /\ Goto(t, IF kind \in {"started", "delta"}
                                 THEN "running" ELSE "replied")
                    /\ \/ kind = "started" /\ pc[t] = "begun"
                       \/ kind # "started" /\ pc[t] \in {"running", "saved"}
          PROVE  StreamsAreSound'
      <3> PICK kind \in Kinds :
                    /\ Publish(t, kind)
                    /\ Goto(t, IF kind \in {"started", "delta"}
                                 THEN "running" ELSE "replied")
                    /\ \/ kind = "started" /\ pc[t] = "begun"
                       \/ kind # "started" /\ pc[t] \in {"running", "saved"}
        BY <2>1
      <3>1. \A u \in HttpTurns : u # t => pc'[u] = pc[u]
        BY DEF Goto, EventsInv, TypeOK
      <3>2. pc'[t] = IF kind \in {"started", "delta"} THEN "running" ELSE "replied"
        BY DEF Goto, EventsInv, TypeOK
      <3> QED BY <3>1, <3>2, PublishKeepsBrackets DEF InFlight
    <2>2. ASSUME UNCHANGED events,
                 \A t \in HttpTurns : pc'[t] # pc[t] =>
                    \/ pc'[t] \in {"replied", "ended"}
                    \/ pc[t] = "unsent" /\ pc'[t] = "loaded"
                    \/ pc[t] = "loaded" /\ pc'[t] = "begun"
                    \/ pc[t] = "running" /\ pc'[t] = "executed"
                    \/ pc[t] = "executed" /\ pc'[t] = "saved"
          PROVE  StreamsAreSound'
      BY <2>2 DEF EventsInv, StreamsAreSound, EventsBracketed, StreamIsSound
    <2>3. ASSUME NEW t \in HttpTurns, HttpNext(t)
          PROVE  StreamsAreSound'
      <3> USE DEF Goto, EventsInv, TypeOK
      <3>1. CASE HttpLoad(t) \/ HttpBegin(t) \/ HttpRefuse(t)
        BY <2>2, <3>1 DEF HttpLoad, HttpBegin, HttpRefuse
      <3>2. CASE HttpExecute(t) \/ HttpSave(t)
        BY <2>2, <3>2 DEF HttpExecute, HttpSave
      <3>3. CASE HttpRelease(t) \/ Disconnect(t) \/ CancelFire(t)
        BY <2>2, <3>3 DEF HttpRelease, Disconnect, CancelFire
      <3>4. CASE HttpReply(t)
        <4>1. CASE outcome[t] = "unsaved"
          BY <2>2, <3>4, <4>1 DEF HttpReply
        <4>2. CASE outcome[t] # "unsaved"
          <5>1. TerminalKind(t) \in {"finished", "failed"}
            BY DEF TerminalKind
          <5>2. /\ pc[t] = "saved" /\ Goto(t, "replied")
                /\ Publish(t, TerminalKind(t))
            BY <3>4, <4>2 DEF HttpReply
          <5> HIDE DEF Goto, EventsInv, TypeOK
          <5> QED BY <2>1, <5>1, <5>2 DEF Kinds
        <4> QED BY <4>1, <4>2
      <3> HIDE DEF Goto, EventsInv, TypeOK
      <3>5. CASE HttpAnnounce(t)
        <4>1. pc[t] = "begun" /\ Goto(t, "running") /\ Publish(t, "started")
          BY <3>5 DEF HttpAnnounce
        <4> QED BY <2>1, <4>1 DEF Kinds
      <3>6. CASE HttpEmit(t)
        <4>1. pc[t] = "running" /\ Goto(t, "running") /\ Publish(t, "delta")
          BY <3>6 DEF HttpEmit, Goto, EventsInv, TypeOK
        <4> QED BY <2>1, <4>1 DEF Kinds
      <3> QED BY <2>3, <3>1, <3>2, <3>3, <3>4, <3>5, <3>6 DEF HttpNext
    <2>4. ASSUME NEW t \in ChannelTurns, ChannelNext(t)
          PROVE  StreamsAreSound'
      <3>1. UNCHANGED events /\ \A u \in HttpTurns : pc'[u] = pc[u]
        BY <2>4 DEF ChannelNext, ChannelTake, ChannelExecute, ChannelSave,
                    ChannelReply, Goto, EventsInv, TypeOK
      <3> QED BY <2>2, <3>1
    <2>5. CASE Crash
      <3>1. \A c \in Chats : events'[c] = <<>>
        BY <2>5 DEF Crash
      <3>2. \A t \in HttpTurns : pc'[t] \in {"unsent", "ended"}
        BY <2>5 DEF Crash, InProgress, EventsInv, TypeOK
      <3> QED
        BY <3>1, <3>2 DEF StreamsAreSound, EventsBracketed, StreamIsSound, Unheard
    <2>6. CASE UNCHANGED vars \/ \E c \in Chats : CancelLookup(c)
      BY <2>2, <2>6 DEF vars, CancelLookup
    <2> QED BY <2>3, <2>4, <2>5, <2>6 DEF Next, Idle
  <1> QED
    BY <1>1, <1>2, TypeCorrect, SlotsCorrect, PTL
    DEF Spec, EventsInv, StreamsAreSound

-----------------------------------------------------------------------------
(* Messages and history stay in step                                       *)

\* The empty conversation is in step.
LEMMA NewChatInStep == InStep(NewChat.messages, NewChat.history)
  <1>1. HistoryTurns(<<>>) = <<>>
    BY DEF HistoryTurns, Summarized
  <1>2. DOMAIN <<>> = {}
    OBVIOUS
  <1>3. InStep(<<>>, <<>>)
    <2>1. [i \in {} |-> i] \in [{} -> {}]
      OBVIOUS
    <2> QED BY <1>1, <1>2, <2>1 DEF InStep
  <1> QED BY <1>3 DEF NewChat

\* A question without an answer changes nothing (http.go:315-318, 321-324).
LEMMA QuestionInStep ==
    ASSUME NEW cs \in ChatState, NEW t \in Turns, InStep(cs.messages, cs.history)
    PROVE  InStep(WithQuestion(cs, t).messages, WithQuestion(cs, t).history)
  <1> DEFINE ms == cs.messages
             e  == [turn |-> t, answered |-> FALSE]
             r  == Append(ms, e)
             turns == HistoryTurns(cs.history)
  <1>1. /\ WithQuestion(cs, t).messages = r
        /\ WithQuestion(cs, t).history = cs.history
    BY DEF WithQuestion, ChatState
  <1>2. ms \in Seq(Exchange) /\ e \in Exchange
    BY DEF ChatState, Exchange
  <1>3. /\ Len(r) = Len(ms) + 1 /\ Len(ms) \in Nat
        /\ DOMAIN r = 1..Len(r) /\ DOMAIN ms = 1..Len(ms)
        /\ \A i \in 1..Len(ms) : r[i] = ms[i]
        /\ r[Len(ms) + 1] = e
    BY <1>2, AppendProperties
  <1>4. PICK at \in [DOMAIN turns -> DOMAIN ms] :
          /\ \A i, j \in DOMAIN turns : i < j => at[i] < at[j]
          /\ \A i \in DOMAIN turns :
               ms[at[i]] = [turn |-> turns[i], answered |-> TRUE]
          /\ \A m \in DOMAIN ms : ms[m].answered =>
               \/ \E i \in DOMAIN turns : at[i] = m
               \/ Summarized(cs.history) /\ \A i \in DOMAIN turns : m < at[i]
    BY DEF InStep
  <1>5. e.answered = FALSE
    OBVIOUS
  <1> HIDE DEF e, r, ms, turns
  <1>6. at \in [DOMAIN turns -> DOMAIN r]
    BY <1>3
  <1>7. \A i \in DOMAIN turns :
           r[at[i]] = [turn |-> turns[i], answered |-> TRUE]
    BY <1>3, <1>4
  <1>8. \A m \in DOMAIN r : r[m].answered => m \in DOMAIN ms /\ ms[m].answered
    BY <1>3, <1>5
  <1>9. InStep(r, cs.history)
    BY <1>4, <1>6, <1>7, <1>8 DEF InStep, turns
  <1> QED BY <1>1, <1>9

\* An answered turn enters both, whether or not the run compacted the history
\* (http.go:326-330, main.go:228-232).
LEMMA AnswerInStep ==
    ASSUME NEW cs \in ChatState, NEW t \in Turns, InStep(cs.messages, cs.history),
           NEW h \in HistoriesAfter(cs, t)
    PROVE  InStep(WithAnswer(cs, t, h).messages, WithAnswer(cs, t, h).history)
  <1> DEFINE ms == cs.messages
             e  == [turn |-> t, answered |-> TRUE]
             r  == Append(ms, e)
             old == HistoryTurns(cs.history)
             new == HistoryTurns(h)
  <1>1. /\ WithAnswer(cs, t, h).messages = r
        /\ WithAnswer(cs, t, h).history = h
    BY DEF WithAnswer
  <1>2. ms \in Seq(Exchange) /\ e \in Exchange
    BY DEF ChatState, Exchange
  <1>3. /\ Len(r) = Len(ms) + 1 /\ Len(ms) \in Nat
        /\ DOMAIN r = 1..Len(r) /\ DOMAIN ms = 1..Len(ms)
        /\ \A i \in 1..Len(ms) : r[i] = ms[i]
        /\ r[Len(ms) + 1] = e
    BY <1>2, AppendProperties
  <1>4. CASE h = <<Summary, t>>
    <2>1. Summarized(h) /\ new = <<t>>
      BY <1>4 DEF Summarized, HistoryTurns
    <2> DEFINE at == [i \in {1} |-> Len(ms) + 1]
    <2>2. at \in [DOMAIN new -> DOMAIN r] /\ DOMAIN new = {1}
      BY <1>3, <2>1
    <2>3. r[at[1]] = [turn |-> new[1], answered |-> TRUE] /\ at[1] = Len(ms) + 1
      BY <1>3, <2>1
    <2>4. \A m \in DOMAIN r : m = at[1] \/ m < at[1]
      BY <1>3
    <2> HIDE DEF at, r, new
    <2>5. /\ \A i, j \in DOMAIN new : i < j => at[i] < at[j]
          /\ \A i \in DOMAIN new :
               r[at[i]] = [turn |-> new[i], answered |-> TRUE]
          /\ \A m \in DOMAIN r : r[m].answered =>
               \/ \E i \in DOMAIN new : at[i] = m
               \/ Summarized(h) /\ \A i \in DOMAIN new : m < at[i]
      <3>1. \A i \in DOMAIN new : i = 1
        BY <2>2
      <3>2. \A i, j \in DOMAIN new : ~(i < j)
        BY <3>1
      <3>3. \A i \in DOMAIN new :
               r[at[i]] = [turn |-> new[i], answered |-> TRUE]
        BY <2>3, <3>1
      <3>4. \A m \in DOMAIN r : at[1] = m \/ \A i \in DOMAIN new : m < at[i]
        BY <2>4, <3>1
      <3>5. 1 \in DOMAIN new
        BY <2>2
      <3> QED BY <2>1, <3>2, <3>3, <3>4, <3>5
    <2>6. InStep(r, h)
      BY <2>2, <2>5 DEF InStep, new
    <2> QED BY <1>1, <2>6
  <1>5. CASE h = Append(cs.history, t)
    <2>1. /\ cs.history \in Seq(Turns \cup {Summary})
          /\ h \in Seq(Turns \cup {Summary})
          /\ Len(h) = Len(cs.history) + 1 /\ Len(cs.history) \in Nat
          /\ \A i \in 1..Len(cs.history) : h[i] = cs.history[i]
          /\ h[Len(cs.history) + 1] = t
      BY <1>5, AppendProperties DEF ChatState
    <2>2. Summarized(h) <=> Summarized(cs.history)
      BY <2>1, TurnsAssumption DEF Summarized
    <2>3. /\ DOMAIN old = 1..Len(old) /\ Len(old) \in Nat
          /\ DOMAIN new = 1..(Len(old) + 1)
          /\ \A i \in 1..Len(old) : new[i] = old[i]
          /\ new[Len(old) + 1] = t
      <3>1. CASE Summarized(h)
        <4>1. old = Tail(cs.history) /\ new = Tail(h)
          BY <2>2, <3>1 DEF HistoryTurns
        <4>2. cs.history # <<>> /\ h # <<>>
          BY <2>2, <3>1 DEF Summarized
        <4>3. /\ Len(old) = Len(cs.history) - 1 /\ Len(new) = Len(h) - 1
              /\ old \in Seq(Turns \cup {Summary})
              /\ new \in Seq(Turns \cup {Summary})
              /\ \A i \in 1..Len(old) : old[i] = cs.history[i + 1]
              /\ \A i \in 1..Len(new) : new[i] = h[i + 1]
          BY <2>1, <4>1, <4>2, HeadTailProperties
        <4> QED BY <2>1, <4>2, <4>3
      <3>2. CASE ~Summarized(h)
        <4>1. old = cs.history /\ new = h
          BY <2>2, <3>2 DEF HistoryTurns
        <4> QED BY <2>1, <4>1
      <3> QED BY <3>1, <3>2
    <2>4. PICK at \in [DOMAIN old -> DOMAIN ms] :
            /\ \A i, j \in DOMAIN old : i < j => at[i] < at[j]
            /\ \A i \in DOMAIN old :
                 ms[at[i]] = [turn |-> old[i], answered |-> TRUE]
            /\ \A m \in DOMAIN ms : ms[m].answered =>
                 \/ \E i \in DOMAIN old : at[i] = m
                 \/ Summarized(cs.history) /\ \A i \in DOMAIN old : m < at[i]
      BY DEF InStep
    <2> DEFINE to == [i \in DOMAIN new |->
                        IF i \in DOMAIN old THEN at[i] ELSE Len(ms) + 1]
    <2> HIDE DEF r, ms, old, new
    <2>5. to \in [DOMAIN new -> DOMAIN r]
      BY <1>3, <2>3
    <2>6. /\ \A i \in DOMAIN old :
               to[i] = at[i] /\ to[i] \in DOMAIN ms /\ i \in DOMAIN new
          /\ to[Len(old) + 1] = Len(ms) + 1
          /\ Len(old) + 1 \in DOMAIN new
      BY <2>3
    <2> HIDE DEF to
    <2>7. \A i, j \in DOMAIN new : i < j => to[i] < to[j]
      <3> SUFFICES ASSUME NEW i \in DOMAIN new, NEW j \in DOMAIN new, i < j
                   PROVE  to[i] < to[j]
        OBVIOUS
      <3>1. i \in DOMAIN old
        BY <2>3
      <3>2. CASE j \in DOMAIN old
        BY <2>4, <2>6, <3>1, <3>2
      <3>3. CASE j \notin DOMAIN old
        <4>1. j = Len(old) + 1
          BY <2>3, <3>3
        <4> QED BY <1>3, <2>6, <3>1, <4>1
      <3> QED BY <3>2, <3>3
    <2>8. \A i \in DOMAIN new :
             r[to[i]] = [turn |-> new[i], answered |-> TRUE]
      <3> TAKE i \in DOMAIN new
      <3>1. CASE i \in DOMAIN old
        <4>1. r[to[i]] = ms[at[i]] /\ new[i] = old[i]
          BY <1>3, <2>3, <2>6, <3>1
        <4> QED BY <2>4, <3>1, <4>1
      <3>2. CASE i \notin DOMAIN old
        <4>1. i = Len(old) + 1
          BY <2>3, <3>2
        <4> QED BY <1>3, <2>3, <2>6, <4>1
      <3> QED BY <3>1, <3>2
    <2>9. ASSUME NEW m \in DOMAIN r, r[m].answered
          PROVE  \/ \E i \in DOMAIN new : to[i] = m
                 \/ Summarized(h) /\ \A i \in DOMAIN new : m < to[i]
      <3>1. CASE m \in DOMAIN ms
        <4>1. ms[m].answered
          BY <1>3, <2>9, <3>1
        <4>2. CASE \E i \in DOMAIN old : at[i] = m
          BY <2>6, <4>2
        <4>3. CASE Summarized(cs.history) /\ \A i \in DOMAIN old : m < at[i]
          <5>1. ASSUME NEW i \in DOMAIN new PROVE m < to[i]
            <6>1. CASE i \in DOMAIN old
              BY <2>6, <4>3, <6>1
            <6>2. CASE i \notin DOMAIN old
              <7>1. i = Len(old) + 1
                BY <2>3, <6>2
              <7> QED BY <1>3, <2>6, <3>1, <7>1
            <6> QED BY <6>1, <6>2
          <5> QED BY <2>2, <4>3, <5>1
        <4> QED BY <2>4, <3>1, <4>1, <4>2, <4>3
      <3>2. CASE m \notin DOMAIN ms
        <4>1. m = Len(ms) + 1
          BY <1>3, <3>2
        <4> QED BY <2>6, <4>1
      <3> QED BY <3>1, <3>2
    <2>10. InStep(r, h)
      BY <2>5, <2>7, <2>8, <2>9 DEF InStep, new
    <2> QED BY <1>1, <2>10
  <1> QED BY <1>4, <1>5 DEF HistoriesAfter

\* So do the session files and the copies the handlers work on.
CopiesInStep ==
    /\ HistoryIsAnsweredTail
    /\ \A t \in Turns : InStep(local[t].messages, local[t].history)

\* In every run, however handlers overlap, saves fail and the process dies,
\* the history a chat's model is shown next is the tail of the answered turns
\* the user sees, and all of them unless a summary stands for the rest.
THEOREM HistoriesAreInStep == Spec => []HistoryIsAnsweredTail
  <1> USE TurnsAssumption DEF Turns
  <1>1. Init => CopiesInStep
    BY NewChatInStep DEF Init, CopiesInStep, HistoryIsAnsweredTail
  <1>2. TypeOK /\ CopiesInStep /\ [Next]_vars => CopiesInStep'
    <2> SUFFICES ASSUME TypeOK, CopiesInStep, [Next]_vars PROVE CopiesInStep'
      OBVIOUS
    <2>1. \A c \in Chats : InStep(stored[c].messages, stored[c].history)
      BY DEF CopiesInStep, HistoryIsAnsweredTail
    <2>2. \A t \in Turns : InStep(local[t].messages, local[t].history)
      BY DEF CopiesInStep
    <2>3. \A t \in Turns : local[t] \in ChatState /\ ChatOf[t] \in Chats
      BY DEF TypeOK
    <2>4. ASSUME NEW t \in Turns, UNCHANGED stored,
                 NEW cs, local' = [local EXCEPT ![t] = cs],
                 InStep(cs.messages, cs.history)
          PROVE  CopiesInStep'
      <3>1. \A u \in Turns : local'[u] = IF u = t THEN cs ELSE local[u]
        BY <2>4 DEF TypeOK
      <3>2. \A u \in Turns : InStep(local'[u].messages, local'[u].history)
        BY <2>2, <2>4, <3>1
      <3> QED BY <2>1, <2>4, <3>2 DEF CopiesInStep, HistoryIsAnsweredTail
    <2>5. ASSUME UNCHANGED <<stored, local>> PROVE CopiesInStep'
      BY <2>1, <2>2, <2>5 DEF CopiesInStep, HistoryIsAnsweredTail
    <2>6. ASSUME NEW t \in Turns, Save(t),
                 local' = [local EXCEPT ![t] = NewChat]
          PROVE  CopiesInStep'
      <3>0. \A u \in Turns : InStep(local'[u].messages, local'[u].history)
        BY <2>2, <2>3, <2>6, NewChatInStep
      <3>1. CASE stored' = [stored EXCEPT ![ChatOf[t]] = local[t]]
        <4>1. \A c \in Chats :
                 stored'[c] = IF c = ChatOf[t] THEN local[t] ELSE stored[c]
          BY <3>1 DEF TypeOK
        <4>2. \A c \in Chats : InStep(stored'[c].messages, stored'[c].history)
          BY <2>1, <2>2, <4>1
        <4> QED BY <3>0, <4>2 DEF CopiesInStep, HistoryIsAnsweredTail
      <3>2. CASE UNCHANGED stored
        BY <2>1, <3>0, <3>2 DEF CopiesInStep, HistoryIsAnsweredTail
      <3> QED BY <2>6, <3>1, <3>2 DEF Save
    <2>7. ASSUME NEW t \in HttpTurns, HttpNext(t) PROVE CopiesInStep'
      <3>1. CASE HttpLoad(t)
        BY <2>1, <2>3, <2>4, <2>5, <3>1 DEF HttpLoad
      <3>2. CASE HttpRefuse(t)
        BY <2>4, <3>2, NewChatInStep DEF HttpRefuse
      <3>3. CASE HttpExecute(t)
        BY <2>2, <2>3, <2>4, <3>3, QuestionInStep, AnswerInStep DEF HttpExecute
      <3>4. CASE HttpSave(t)
        BY <2>6, <3>4 DEF HttpSave
      <3>5. CASE HttpBegin(t) \/ HttpAnnounce(t) \/ HttpEmit(t)
        BY <2>5, <3>5 DEF HttpBegin, HttpAnnounce, HttpEmit
      <3>6. CASE \/ HttpReply(t) \/ HttpRelease(t)
                 \/ Disconnect(t) \/ CancelFire(t)
        BY <2>5, <3>6 DEF HttpReply, HttpRelease, Disconnect, CancelFire
      <3> QED BY <2>7, <3>1, <3>2, <3>3, <3>4, <3>5, <3>6 DEF HttpNext
    <2>8. ASSUME NEW t \in ChannelTurns, ChannelNext(t) PROVE CopiesInStep'
      <3>1. CASE ChannelTake(t)
        BY <2>1, <2>3, <2>4, <2>5, <3>1 DEF ChannelTake
      <3>2. CASE ChannelReply(t)
        BY <2>5, <3>2 DEF ChannelReply
      <3>3. CASE ChannelExecute(t)
        BY <2>2, <2>3, <2>4, <3>3, NewChatInStep, AnswerInStep
        DEF ChannelExecute
      <3>4. CASE ChannelSave(t)
        BY <2>6, <3>4 DEF ChannelSave
      <3> QED BY <2>8, <3>1, <3>2, <3>3, <3>4 DEF ChannelNext
    <2>9. CASE Crash
      <3>1. UNCHANGED stored /\ \A t \in Turns : local'[t] = NewChat
        BY <2>9 DEF Crash
      <3> QED BY <2>1, <3>1, NewChatInStep DEF CopiesInStep, HistoryIsAnsweredTail
    <2>10. CASE UNCHANGED vars \/ \E c \in Chats : CancelLookup(c)
      BY <2>5, <2>10 DEF vars, CancelLookup
    <2> QED BY <2>7, <2>8, <2>9, <2>10 DEF Next, Idle
  <1> QED BY <1>1, <1>2, TypeCorrect, PTL DEF Spec, CopiesInStep

=============================================================================
