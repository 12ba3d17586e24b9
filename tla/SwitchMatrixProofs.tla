------------------------ MODULE SwitchMatrixProofs ------------------------
(* Theorems about SwitchMatrix, for every set of modules, every relay table  *)
(* with the assumed properties and every number of attempts.                 *)
EXTENDS SwitchMatrix, FiniteSetTheorems, WellFoundedInduction, TLAPS

LEMMA FirstIsAMember == \A S \in SUBSET Host : S # {} => First(S) \in S
<1> DEFINE Less == {ss \in Nat \X Nat : ss[1] < ss[2]}
<1>1. IsWellFoundedOn(Less, Nat)
  BY NatLessThanWellFounded DEF OpToRel
<1>2. \A x, y \in Nat : x < y => <<x, y>> \in Less
  OBVIOUS
<1> SUFFICES ASSUME NEW S \in SUBSET Host, S # {} PROVE First(S) \in S
  OBVIOUS
<1>3. S \subseteq Nat
  BY HostAssumption DEF HostAssumption
<1> HIDE DEF Less
<1>4. PICK h \in S : \A g \in S : <<g, h>> \notin Less
  BY <1>1, <1>3, WFMin, Zenon
<1>5. \A g \in S : ~(g < h)
  BY <1>2, <1>3, <1>4
<1>6. \A g \in S : h <= g
  BY <1>3, <1>5
<1> QED
  BY <1>6, Zenon DEF First

\* The frames of a command: what they close of its outputs, and that no two of
\* them are equal.
FramesSet ==
    /\ \A h \in Host : bak[h] \subseteq Outputs(h)
    /\ pc # "idle" => \A h \in Host : bak[h] \intersect Cleared[route][h] = Closed[route][h]

LEMMA FramesTyped ==
    ASSUME TypeOK, FramesSet, NEW r \in Selected
    PROVE  /\ Frames(r) \in [Host -> SUBSET Output]
           /\ \A h \in Host : /\ Frames(r)[h] \subseteq Outputs(h)
                              /\ Frames(r)[h] \intersect Cleared[r][h] = Closed[r][h]
<1> USE TableAssumption DEF TableAssumption
<1>1. r \in Route
  OBVIOUS
<1>2. Frames(r) \in [Host -> SUBSET Output]
  BY <1>1 DEF Frames, TypeOK
<1>3. ASSUME NEW h \in Host
      PROVE  /\ Frames(r)[h] \subseteq Outputs(h)
             /\ Frames(r)[h] \intersect Cleared[r][h] = Closed[r][h]
  <2>1. Frames(r)[h] = (bak[h] \ Cleared[r][h]) \union Closed[r][h]
    BY DEF Frames
  <2>2. Closed[r][h] \subseteq Cleared[r][h] /\ Cleared[r][h] \subseteq Outputs(h)
    BY <1>1 DEF Outputs
  <2>3. bak[h] \subseteq Outputs(h)
    BY DEF FramesSet
  <2> QED
    BY <2>1, <2>2, <2>3
<1> QED
  BY <1>2, <1>3

LEMMA FramesDistinct ==
    ASSUME TypeOK, FramesSet, pc # "idle",
           NEW g \in Uses(route), NEW h \in Uses(route), bak[g] = bak[h]
    PROVE  g = h
<1>1. route \in Route /\ g \in Host /\ h \in Host
  BY TableAssumption DEF TableAssumption, TypeOK, Uses
<1>2. /\ Closed[route][g] \subseteq bak[g] /\ Closed[route][h] \subseteq bak[h]
      /\ bak[g] \subseteq Outputs(g) /\ bak[h] \subseteq Outputs(h)
  BY <1>1 DEF FramesSet
<1> SUFFICES ASSUME g # h PROVE FALSE
  OBVIOUS
<1>3. (Closed[route][g] \ Outputs(h)) \union (Closed[route][h] \ Outputs(g)) # {}
  BY <1>1, DistinctFrames, Zenon DEF DistinctFrames
<1> QED
  BY <1>2, <1>3

-----------------------------------------------------------------------------
(* The invariant.                                                            *)

Attempt == pc \in {"write", "read"}

\* The receive buffer holds nothing, or the frame of a module that echoed it.
BufferOwned ==
    pc # "idle" => rx = Garbage \/ \E g \in echoed \intersect Uses(route) : rx = bak[g]

\* What the modules done with in this attempt have shown.
Progress ==
    Attempt => \A h \in Uses(route) \ todo :
                  h \in echoed /\ (relays[h] = bak[h] \/ h \in hungup)

\* In the first attempt nobody has answered twice; later ones start from sockets
\* that were all connected anew, and lose one only when its module hangs up.
Attempted ==
    /\ pc # "idle" => tries >= 1
    /\ pc \in {"reset", "reconnect"} => tries >= 2
    /\ Attempt /\ tries = 1 => echoed \intersect todo = {}
    /\ Attempt /\ tries # 1 =>
          \A h \in Uses(route) : h \in hungup \/ (sock[h] = "open" /\ state[h] = "up")

SwitchInv ==
    /\ TypeOK /\ FramesSet /\ BufferOwned /\ Progress /\ Attempted
    /\ EchoIsOwn /\ AnsweredMeansSet /\ HealsItself

LEMMA SwitchInit == Init => SwitchInv
<1> USE TableAssumption, AttemptAssumption DEF TableAssumption, AttemptAssumption
<1> SUFFICES ASSUME Init PROVE SwitchInv
  OBVIOUS
<1>1. TypeOK
  BY DEF Init, TypeOK, Sockets, Garbage
<1> QED
  BY <1>1 DEF Init, SwitchInv, FramesSet, BufferOwned, Progress, Attempted, Attempt,
              EchoIsOwn, AnsweredMeansSet, HealsItself

LEMMA CommandStep ==
    ASSUME SwitchInv, NEW r \in Selected, SwitchExcut(r)
    PROVE  SwitchInv'
<1> USE TableAssumption, AttemptAssumption DEF TableAssumption, AttemptAssumption
<1>1. /\ TypeOK /\ FramesSet /\ pc' = "write" /\ route' = r /\ bak' = Frames(r)
      /\ todo' = Uses(r) /\ rx' = Garbage /\ tries' = 1 /\ ret' = "none"
      /\ echoed' = {} /\ faults' = {} /\ hungup' = {}
      /\ relays' = relays /\ state' = state /\ sock' = sock
  BY DEF SwitchInv, SwitchExcut
<1>2. FramesSet'
  BY <1>1, FramesTyped DEF FramesSet
<1>3. TypeOK'
  <2>1. bak' \in [Host -> SUBSET Output]
    BY <1>1, FramesTyped
  <2>2. Uses(r) # {}
    OBVIOUS
  <2> QED
    BY <1>1, <2>1, <2>2 DEF TypeOK, Garbage
<1>4. BufferOwned' /\ Progress' /\ Attempted'
  BY <1>1 DEF BufferOwned, Progress, Attempted, Attempt
<1>5. EchoIsOwn' /\ AnsweredMeansSet' /\ HealsItself'
  BY <1>1 DEF EchoIsOwn, AnsweredMeansSet, HealsItself
<1> QED
  BY <1>2, <1>3, <1>4, <1>5 DEF SwitchInv

LEMMA DropStep ==
    ASSUME SwitchInv, NEW h \in Host, Drop(h)
    PROVE  SwitchInv'
<1>1. TypeOK'
  BY DEF SwitchInv, Drop, TypeOK, Sockets
<1> QED
  BY <1>1 DEF SwitchInv, Drop, FramesSet, BufferOwned, Progress, Attempted, Attempt,
              EchoIsOwn, AnsweredMeansSet, HealsItself

LEMMA ResetStep ==
    ASSUME SwitchInv, Reset
    PROVE  SwitchInv'
<1> USE TableAssumption DEF TableAssumption
<1>1. TypeOK'
  <2>1. state' \in [Host -> {"up", "down"}] /\ sock' \in [Host -> Sockets]
    BY DEF SwitchInv, Reset, Disconnected, TypeOK, Sockets
  <2>2. relays' \in [Host -> SUBSET Output]
    BY DEF SwitchInv, Reset, ResetModules, TypeOK
  <2> QED
    BY <2>1, <2>2 DEF SwitchInv, Reset, TypeOK
<1> QED
  BY <1>1 DEF SwitchInv, Reset, FramesSet, BufferOwned, Progress, Attempted, Attempt,
              EchoIsOwn, AnsweredMeansSet, HealsItself

LEMMA ReconnectStep ==
    ASSUME SwitchInv, Reconnect
    PROVE  SwitchInv'
<1> USE TableAssumption DEF TableAssumption
<1>1. /\ TypeOK /\ FramesSet /\ BufferOwned /\ Attempted /\ pc = "reconnect"
      /\ UNCHANGED <<bak, relays, rx, route, tries, echoed, hungup>>
      /\ route \in Route
  BY DEF SwitchInv, Reconnect, TypeOK
<1>2. CASE /\ ConnectEnd(Uses(route), {})
           /\ pc' = "write" /\ todo' = Uses(route)
           /\ UNCHANGED <<ret, faults>>
  <2>1. Uses(route) # {} /\ Uses(route) \subseteq Host
    BY <1>1 DEF Uses
  <2>2. TypeOK'
    BY <1>1, <1>2, <2>1 DEF ConnectEnd, Connecting, TypeOK, Sockets
  <2>3. Progress' /\ Attempted'
    BY <1>1, <1>2, <2>1
       DEF ConnectEnd, Connecting, Progress, Attempted, Attempt, TypeOK
  <2> QED
    BY <1>1, <1>2, <2>2, <2>3
       DEF SwitchInv, FramesSet, BufferOwned, EchoIsOwn, AnsweredMeansSet, HealsItself
<1>3. ASSUME NEW bad \in Uses(route),
             ConnectEnd({h \in Uses(route) : h < bad}, {bad}),
             faults' = faults \union {bad}, Return("fail")
      PROVE  SwitchInv'
  <2>1. sock' \in [Host -> Sockets]
    BY <1>1, <1>3 DEF ConnectEnd, Connecting, TypeOK, Sockets
  <2>2. state' \in [Host -> {"up", "down"}]
    BY <1>1, <1>3 DEF ConnectEnd, Connecting, TypeOK
  <2>3. TypeOK'
    BY <1>1, <1>3, <2>1, <2>2 DEF TypeOK, Return, Uses
  <2> QED
    BY <1>1, <1>3, <2>3
       DEF SwitchInv, Return, FramesSet, BufferOwned, Progress, Attempted, Attempt,
           EchoIsOwn, AnsweredMeansSet, HealsItself
<1> QED
  BY <1>2, <1>3 DEF Reconnect

\* The module a step of an attempt talks to.
LEMMA FirstInUse ==
    ASSUME SwitchInv, Attempt
    PROVE  First(todo) \in todo /\ First(todo) \in Uses(route) /\ First(todo) \in Host
<1>1. todo \subseteq Uses(route) /\ todo # {} /\ Uses(route) \subseteq Host
  BY DEF SwitchInv, TypeOK, Attempt, Uses
<1>2. First(todo) \in todo
  BY <1>1, FirstIsAMember
<1> QED
  BY <1>1, <1>2

\* A failed attempt keeps the invariant: when it was the last one, some
\* connection failed.
LEMMA FailedStep ==
    ASSUME SwitchInv, Attempt, Failed, UNCHANGED <<bak, route>>,
           relays' \in [Host -> SUBSET Output], state' \in [Host -> {"up", "down"}],
           sock' \in [Host -> Sockets], faults' \subseteq Host, hungup' \subseteq faults',
           \/ UNCHANGED <<rx, echoed>>
           \/ rx' = Garbage /\ echoed' = echoed,
           tries # 1 => faults' # {}
    PROVE  SwitchInv'
<1> USE AttemptAssumption DEF AttemptAssumption
<1> DEFINE h == First(todo)
<1>1. h \in todo /\ h \in Uses(route) /\ h \in Host
  BY FirstInUse
<1> HIDE DEF h
<1>2. TypeOK /\ FramesSet /\ BufferOwned /\ Attempted /\ tries \in 1 .. Attempts
  BY DEF SwitchInv, Attempted, Attempt, TypeOK
<1>3. /\ pc' \in {"reset", "idle"} /\ tries' \in 1 .. Attempts
      /\ (pc' = "reset" => tries' >= 2 /\ todo' = todo /\ ret' = ret)
      /\ (pc' = "idle" => ret' = "fail" /\ todo' = {} /\ tries # 1)
  BY <1>2 DEF Failed, Return
<1>4. TypeOK'
  <2>1. rx' \in SUBSET (Output \union {Noise}) /\ echoed' \subseteq Host
    BY <1>1, <1>2 DEF TypeOK, Garbage, h
  <2>2. todo' \subseteq Uses(route')
    BY <1>2, <1>3 DEF TypeOK
  <2> QED
    BY <1>2, <1>3, <2>1, <2>2 DEF TypeOK
<1>5. BufferOwned'
  BY <1>1, <1>2 DEF BufferOwned, Attempt, h
<1> QED
  BY <1>2, <1>3, <1>4, <1>5
     DEF SwitchInv, FramesSet, Progress, Attempted, Attempt,
         EchoIsOwn, AnsweredMeansSet, HealsItself

LEMMA WriteStep ==
    ASSUME SwitchInv, Write
    PROVE  SwitchInv'
<1> DEFINE h == First(todo)
<1>1. Attempt /\ TypeOK /\ Attempted /\ UNCHANGED <<bak, rx, route, echoed, hungup>>
  BY DEF Write, Attempt, SwitchInv
<1>2. h \in todo /\ h \in Uses(route) /\ h \in Host
  BY <1>1, FirstInUse
<1>3. Used(h) \in Sockets
  BY <1>1, <1>2 DEF Used, TypeOK, Sockets
<1>4. tries # 1 => h \in hungup \/ (sock[h] = "open" /\ state[h] = "up")
  BY <1>1, <1>2 DEF Attempted
<1> HIDE DEF h
<1>5. CASE NoConnection(h)
  <2>1. /\ sock' \in [Host -> Sockets]
        /\ faults' \subseteq Host /\ faults' # {} /\ hungup' \subseteq faults'
    BY <1>1, <1>2, <1>5 DEF NoConnection, TypeOK, Sockets
  <2>2. /\ Failed /\ UNCHANGED <<bak, route>> /\ UNCHANGED <<rx, echoed>>
        /\ relays' \in [Host -> SUBSET Output] /\ state' \in [Host -> {"up", "down"}]
    BY <1>1, <1>5 DEF NoConnection, TypeOK
  <2> QED
    BY <1>1, <2>1, <2>2, FailedStep
<1>6. CASE NotSent(h)
  <2>1. /\ sock' \in [Host -> Sockets]
        /\ faults' \subseteq Host /\ hungup' \subseteq faults'
        /\ state' \in [Host -> {"up", "down"}]
    BY <1>1, <1>2, <1>3, <1>6 DEF NotSent, TypeOK
  <2>2. tries # 1 => faults' # {}
    BY <1>1, <1>4, <1>6 DEF NotSent, Used, TypeOK
  <2>3. /\ Failed /\ UNCHANGED <<bak, route>> /\ UNCHANGED <<rx, echoed>>
        /\ relays' \in [Host -> SUBSET Output]
    BY <1>1, <1>6 DEF NotSent, TypeOK
  <2> QED
    BY <1>1, <2>1, <2>2, <2>3, FailedStep
<1>7. CASE Sent(h)
  <2>1. /\ sock' = [sock EXCEPT ![h] = Used(h)] /\ state' = [state EXCEPT ![h] = "up"]
        /\ relays' = relays \/ relays' = [relays EXCEPT ![h] = bak[h]]
        /\ pc' = "read" /\ UNCHANGED <<todo, tries, ret, faults>>
    BY <1>7 DEF Sent
  <2>2. relays' \in [Host -> SUBSET Output]
    BY <1>1, <1>2, <2>1 DEF TypeOK
  <2>3. TypeOK'
    BY <1>1, <1>2, <1>3, <2>1, <2>2 DEF TypeOK, Attempt
  <2>4. Progress'
    BY <1>1, <1>2, <2>1 DEF SwitchInv, Progress, Attempt, TypeOK
  <2>5. Attempted'
    <3>1. tries # 1 => Used(h) = "open" \/ h \in hungup
      BY <1>4 DEF Used
    <3> QED
      BY <1>1, <1>2, <2>1, <3>1 DEF Attempted, Attempt, TypeOK, Uses
  <2> QED
    BY <1>1, <2>1, <2>3, <2>4, <2>5
       DEF SwitchInv, FramesSet, BufferOwned, Attempt,
           EchoIsOwn, AnsweredMeansSet, HealsItself
<1> QED
  BY <1>5, <1>6, <1>7 DEF Write, h

\* A module is confirmed only if it echoed its frame, and in position unless it
\* hung up.
LEMMA ConfirmedStep ==
    ASSUME SwitchInv, pc = "read", UNCHANGED <<bak, relays, route, state>>,
           sock' \in [Host -> Sockets], faults \subseteq faults', faults' \subseteq Host,
           hungup \subseteq hungup', hungup' \subseteq faults',
           \A g \in Host : sock'[g] = sock[g] \/ g \in hungup',
           rx' = rx \/ rx' = Garbage \/ rx' = bak[First(todo)],
           echoed \subseteq echoed', echoed' \subseteq echoed \union {First(todo)},
           Confirms(First(todo)), Compare(First(todo)),
           First(todo) \in echoed',
           relays[First(todo)] = bak[First(todo)] \/ First(todo) \in hungup'
    PROVE  SwitchInv'
<1> USE AttemptAssumption DEF AttemptAssumption
<1> DEFINE h == First(todo)
<1>1. Attempt
  BY DEF Attempt
<1>2. h \in todo /\ h \in Uses(route) /\ h \in Host
  BY <1>1, FirstInUse
<1>3. /\ TypeOK /\ FramesSet /\ BufferOwned /\ Progress /\ Attempted /\ rx' = bak[h]
      /\ todo \subseteq Uses(route)
      /\ \/ todo = {h} /\ Return("ok") /\ tries' = tries
         \/ todo # {h} /\ pc' = "write" /\ todo' = todo \ {h} /\ UNCHANGED <<tries, ret>>
  BY DEF SwitchInv, Confirms, Compare, TypeOK
<1> HIDE DEF h
<1>4. TypeOK'
  <2>1. bak[h] \in SUBSET (Output \union {Noise})
    BY <1>2, <1>3 DEF TypeOK
  <2>2. echoed' \subseteq Host
    BY <1>2, <1>3 DEF TypeOK, h
  <2>3. todo' \subseteq Uses(route) /\ (pc' = "write" => todo' # {})
    BY <1>2, <1>3 DEF Return
  <2> QED
    BY <1>3, <2>1, <2>2, <2>3 DEF TypeOK, Return
<1>5. BufferOwned'
  BY <1>2, <1>3 DEF BufferOwned, h
<1>6. \A g \in Uses(route) \ (todo \ {h}) :
          g \in echoed' /\ (relays[g] = bak[g] \/ g \in hungup')
  BY <1>1, <1>2, <1>3 DEF Progress, h
<1>7. Progress'
  BY <1>3, <1>6 DEF Progress, Attempt, Return
<1>8. EchoIsOwn' /\ AnsweredMeansSet' /\ HealsItself'
  BY <1>3, <1>6 DEF EchoIsOwn, AnsweredMeansSet, HealsItself, Return
<1>9. Attempted'
  BY <1>1, <1>2, <1>3 DEF Attempted, Attempt, Return, h, TypeOK, Uses
<1> QED
  BY <1>3, <1>4, <1>5, <1>7, <1>8, <1>9 DEF SwitchInv, FramesSet, Return

LEMMA ReadStep ==
    ASSUME SwitchInv, Read
    PROVE  SwitchInv'
<1> DEFINE h == First(todo)
<1>1. /\ pc = "read" /\ Attempt /\ TypeOK /\ FramesSet /\ BufferOwned /\ Attempted
      /\ UNCHANGED <<bak, relays, route>>
  BY DEF Read, Attempt, SwitchInv
<1>2. h \in todo /\ h \in Uses(route) /\ h \in Host
  BY <1>1, FirstInUse
<1>3. tries # 1 => h \in hungup \/ (sock[h] = "open" /\ state[h] = "up")
  BY <1>1, <1>2 DEF Attempted
<1>4. relays' \in [Host -> SUBSET Output]
  BY <1>1 DEF TypeOK
<1> HIDE DEF h
<1>5. CASE Echo(h)
  <2>1. /\ rx' = bak[h] /\ echoed' = echoed \union {h} /\ relays[h] = bak[h] /\ Compare(h)
        /\ Confirms(h) /\ UNCHANGED <<state, sock, faults, hungup>>
    BY <1>5 DEF Echo, Confirms
  <2>2. sock' \in [Host -> Sockets] /\ faults' \subseteq Host /\ hungup' \subseteq faults'
    BY <1>1, <2>1 DEF TypeOK
  <2> QED
    BY <1>1, <2>1, <2>2, ConfirmedStep DEF h
<1>6. CASE Garbled(h)
  <2>1. /\ rx' = Garbage /\ faults' = faults \union {h} /\ Compare(h)
        /\ UNCHANGED <<state, sock, echoed, hungup>>
    BY <1>6 DEF Garbled
  <2>2. ~ Confirms(h)
    BY <1>1, <1>2, <2>1, NoiseAssumption DEF NoiseAssumption, Confirms, Garbage, TypeOK
  <2>3. Failed
    BY <2>1, <2>2 DEF Compare
  <2>4. /\ sock' \in [Host -> Sockets] /\ state' \in [Host -> {"up", "down"}]
        /\ faults' \subseteq Host /\ faults' # {} /\ hungup' \subseteq faults'
    BY <1>1, <1>2, <2>1 DEF TypeOK
  <2> QED
    BY <1>1, <1>4, <2>1, <2>3, <2>4, FailedStep
<1>7. CASE ReadError(h)
  <2>1. /\ state' = [state EXCEPT ![h] = "down"] /\ Failed
        /\ UNCHANGED <<sock, rx, echoed, hungup>>
        /\ faults' = IF sock[h] = "open" THEN faults \union {h} ELSE faults
    BY <1>7 DEF ReadError
  <2>2. /\ sock' \in [Host -> Sockets] /\ state' \in [Host -> {"up", "down"}]
        /\ faults' \subseteq Host /\ hungup' \subseteq faults'
    BY <1>1, <1>2, <2>1 DEF TypeOK
  <2>3. tries # 1 => faults' # {}
    BY <1>1, <1>3, <2>1 DEF TypeOK
  <2> QED
    BY <1>1, <1>4, <2>1, <2>2, <2>3, FailedStep
<1>8. CASE OrderlyClose(h)
  <2>1. /\ sock' = [sock EXCEPT ![h] = "gone"] /\ rx' = rx /\ Compare(h)
        /\ UNCHANGED <<state, echoed>>
        /\ \/ sock[h] = "gone" /\ UNCHANGED <<faults, hungup>>
           \/ /\ sock[h] = "open"
              /\ faults' = faults \union {h} /\ hungup' = hungup \union {h}
    BY <1>8 DEF OrderlyClose
  <2>3. /\ sock' \in [Host -> Sockets] /\ state' \in [Host -> {"up", "down"}]
        /\ faults \subseteq faults' /\ faults' \subseteq Host
        /\ hungup \subseteq hungup' /\ hungup' \subseteq faults'
    BY <1>1, <1>2, <2>1 DEF TypeOK, Sockets
  <2>4. tries # 1 => h \in hungup'
    BY <1>3, <2>1
  <2>5. CASE ~ Confirms(h)
    <3>1. Failed
      BY <2>1, <2>5 DEF Compare
    <3> QED
      BY <1>1, <1>4, <2>1, <2>3, <2>4, <3>1, FailedStep, Zenon
  <2>6. CASE Confirms(h)
    <3>1. h \in echoed
      <4>1. rx = bak[h] /\ rx # Garbage
        BY <1>1, <1>2, <2>1, <2>6, NoiseAssumption
           DEF NoiseAssumption, Confirms, Garbage, TypeOK
      <4>2. PICK g \in echoed \intersect Uses(route) : rx = bak[g]
        BY <1>1, <4>1 DEF BufferOwned
      <4> QED
        BY <1>1, <1>2, <4>1, <4>2, FramesDistinct
    <3>2. tries # 1
      BY <1>1, <1>2, <3>1 DEF Attempted
    <3>3. \A g \in Host : sock'[g] = sock[g] \/ g \in hungup'
      BY <1>1, <1>2, <2>1, <2>4, <3>2 DEF TypeOK
    <3> QED
      BY <1>1, <2>1, <2>3, <2>4, <2>6, <3>1, <3>2, <3>3, ConfirmedStep DEF h
  <2> QED
    BY <2>5, <2>6
<1> QED
  BY <1>5, <1>6, <1>7, <1>8 DEF Read, h

LEMMA SwitchStep == SwitchInv /\ [Next]_vars => SwitchInv'
<1> SUFFICES ASSUME SwitchInv, [Next]_vars PROVE SwitchInv'
  OBVIOUS
<1>1. CASE UNCHANGED vars
  BY <1>1 DEF SwitchInv, vars, TypeOK, FramesSet, BufferOwned, Progress, Attempted,
              Attempt, EchoIsOwn, AnsweredMeansSet, HealsItself
<1> QED
  BY <1>1, CommandStep, DropStep, ResetStep, ReconnectStep, WriteStep, ReadStep
     DEF Next, Step

\* Every state of the driver is well-formed.
THEOREM SwitchTypeCorrect == Spec => []TypeOK
<1>1. SwitchInv => TypeOK
  BY DEF SwitchInv
<1> QED
  BY <1>1, SwitchInit, SwitchStep, PTL DEF Spec

\* A successful command was echoed by every module it uses, although one buffer
\* receives all echoes: the relay tables keep the frames apart.
THEOREM EchoesAreOwn == Spec => []EchoIsOwn
<1>1. SwitchInv => EchoIsOwn
  BY DEF SwitchInv
<1> QED
  BY <1>1, SwitchInit, SwitchStep, PTL DEF Spec

\* After a successful command every module that did not hang up has its relays
\* in position.
THEOREM SuccessMeansSet == Spec => []AnsweredMeansSet
<1>1. SwitchInv => AnsweredMeansSet
  BY DEF SwitchInv
<1> QED
  BY <1>1, SwitchInit, SwitchStep, PTL DEF Spec

\* A command fails only when a connection failed during it, whatever earlier
\* commands left behind.
THEOREM DriverHealsItself == Spec => []HealsItself
<1>1. SwitchInv => HealsItself
  BY DEF SwitchInv
<1> QED
  BY <1>1, SwitchInit, SwitchStep, PTL DEF Spec

-----------------------------------------------------------------------------
LEMMA ChannelsStep ==
    SwitchInv /\ OneChannelClosed /\ [Next]_vars => OneChannelClosed'
<1> USE TableAssumption DEF TableAssumption
<1> SUFFICES ASSUME SwitchInv, OneChannelClosed, [Next]_vars PROVE OneChannelClosed'
  OBVIOUS
<1>1. CASE bak' = bak
  BY <1>1 DEF OneChannelClosed
<1>2. ASSUME NEW r \in Selected, SwitchExcut(r) PROVE OneChannelClosed'
  <2> SUFFICES ASSUME NEW h \in Host, NEW switch \in Switches[h],
                      NEW x \in bak'[h] \intersect switch, NEW y \in bak'[h] \intersect switch
               PROVE  x = y
    BY DEF OneChannelClosed
  <2>1. bak'[h] = (bak[h] \ Cleared[r][h]) \union Closed[r][h]
    BY <1>2 DEF SwitchExcut, Frames
  <2>2. r \in Route
    OBVIOUS
  <2>3. CASE Closed[r][h] \intersect switch = {}
    BY <2>1, <2>3 DEF OneChannelClosed
  <2>4. CASE /\ switch \subseteq Cleared[r][h]
             /\ \A u, v \in Closed[r][h] \intersect switch : u = v
    BY <2>1, <2>4
  <2> QED
    BY <2>2, <2>3, <2>4, SwitchAssumption DEF SwitchAssumption
<1> QED
  BY <1>1, <1>2 DEF Next, vars, Drop, Step, Write, Read, Reset, Reconnect

\* No sequence of commands closes two channels of a switch: the driver's memory
\* of the last frames never lets one command undo another's break-before-make.
THEOREM ChannelsExclusive == Spec => []OneChannelClosed
<1>1. Init => OneChannelClosed
  BY DEF Init, OneChannelClosed
<1> QED
  BY <1>1, SwitchInit, SwitchStep, ChannelsStep, PTL DEF Spec

-----------------------------------------------------------------------------
(* The contract.                                                             *)

LEMMA ContractInit == Init => Contract!Init
BY DEF Init, Contract!Init

\* Every step of the driver is a step of the contract, or invisible to it.
LEMMA ContractStep == SwitchInv /\ [Next]_vars => [Contract!Next]_Contract!vars
<1> USE TableAssumption DEF TableAssumption
<1> SUFFICES ASSUME SwitchInv, [Next]_vars
             PROVE  Contract!Next \/ UNCHANGED Contract!vars
  BY DEF Contract!vars
<1>0. TypeOK /\ FramesSet
  BY DEF SwitchInv
<1>1. CASE UNCHANGED vars
  BY <1>1 DEF vars, Contract!vars
<1>2. ASSUME NEW r \in Selected, SwitchExcut(r) PROVE Contract!Command(r)
  BY <1>0, <1>2 DEF SwitchExcut, Contract!Command, TypeOK
<1>3. ASSUME NEW h \in Host, Drop(h) PROVE UNCHANGED Contract!vars
  BY <1>3 DEF Drop, Contract!vars
<1>4. ASSUME pc # "idle", pc' # "idle", route' = route, relays' = relays,
             hungup \subseteq hungup'
      PROVE  Contract!Next
  BY <1>4 DEF Contract!Move, Contract!Next
<1>5. ASSUME Failed, pc # "idle", UNCHANGED <<relays, route>>, hungup \subseteq hungup'
      PROVE  Contract!Next
  BY <1>4, <1>5 DEF Failed, Return, Contract!Fail, Contract!Next
<1>6. CASE Write
  <2>1. pc # "idle" /\ Attempt /\ UNCHANGED <<route, hungup>>
    BY <1>6 DEF Write, Attempt
  <2>2. First(todo) \in Uses(route)
    BY <2>1, FirstInUse
  <2>3. CASE Sent(First(todo))
    <3>1. pc' # "idle" /\ \A h \in Host : Cleared[route][h] = {} => relays'[h] = relays[h]
      BY <1>0, <2>2, <2>3 DEF Sent, Uses, TypeOK
    <3> QED
      BY <2>1, <3>1 DEF Contract!Move, Contract!Next
  <2>4. CASE Failed /\ UNCHANGED relays
    BY <1>5, <2>1, <2>4
  <2> QED
    BY <1>6, <2>3, <2>4 DEF Write, NoConnection, NotSent
<1>7. CASE Read
  <2>1. pc # "idle" /\ UNCHANGED <<bak, relays, route>>
    BY <1>7 DEF Read
  <2>2. hungup \subseteq hungup'
    BY <1>7 DEF Read, Echo, Garbled, OrderlyClose, ReadError
  <2>3. CASE pc' # "idle"
    BY <1>4, <2>1, <2>2, <2>3
  <2>4. CASE Failed
    BY <1>5, <2>1, <2>2, <2>4
  <2>5. CASE Return("ok")
    <3>1. SwitchInv'
      BY <1>7, ReadStep
    <3>2. \A h \in Uses(route) : relays[h] = bak[h] \/ h \in hungup'
      BY <2>1, <2>5, <3>1 DEF SwitchInv, AnsweredMeansSet, Return, Uses
    <3>3. \A h \in Host :
            Cleared[route][h] # {} => Contract!InPosition(h) \/ h \in hungup'
      BY <1>0, <2>1, <3>2 DEF FramesSet, Uses, Contract!InPosition
    <3> QED
      BY <2>1, <2>2, <2>5, <3>3 DEF Return, Contract!Succeed, Contract!Next
  <2> QED
    BY <1>7, <2>3, <2>4, <2>5 DEF Read, Echo, Garbled, OrderlyClose, ReadError, Compare
<1>8. CASE Reset
  <2>1. /\ pc # "idle" /\ pc' # "idle" /\ UNCHANGED <<route, hungup>>
        /\ \A h \in Host : Cleared[route][h] = {} => relays'[h] = relays[h]
    BY <1>0, <1>8 DEF Reset, ResetModules, Uses, TypeOK
  <2> QED
    BY <2>1 DEF Contract!Move, Contract!Next
<1>9. CASE Reconnect
  <2>1. pc # "idle" /\ UNCHANGED <<relays, route, hungup>> /\ (pc' = "idle" => ret' = "fail")
    BY <1>9 DEF Reconnect, Return
  <2> QED
    BY <1>4, <2>1 DEF Contract!Fail, Contract!Next
<1> QED
  BY <1>1, <1>2, <1>3, <1>6, <1>7, <1>8, <1>9 DEF Next, Step, Contract!Next

\* The driver implements the contract: what it reports as done is done, unless
\* a module hung up, and it moves no relay outside the command, with any number
\* of retries and resets.
THEOREM ContractKept == Spec => KeepsContract
BY SwitchInit, SwitchStep, ContractInit, ContractStep, PTL
   DEF Spec, KeepsContract, Contract!Spec

-----------------------------------------------------------------------------
(* The relays themselves.                                                    *)

\* No two channels of a switch are ever closed at the same time, not even while
\* a command is carried out in part, sent again or undone by a reset.
NeverJoined ==
    \A h \in Host : \A switch \in Switches[h] :
        \A x, y \in relays[h] \intersect switch : x = y

\* A module obeys the frame it gets or is reset.
LEMMA RelaysStep ==
    TypeOK /\ [Next]_vars => \A h \in Host : relays'[h] \in {relays[h], bak[h], {}}
<1> SUFFICES ASSUME TypeOK, [Next]_vars, NEW h \in Host
             PROVE  relays'[h] \in {relays[h], bak[h], {}}
  OBVIOUS
<1>1. CASE relays' = relays
  BY <1>1
<1>2. CASE Write
  <2>1. ASSUME NEW g, relays' = [relays EXCEPT ![g] = bak[g]]
        PROVE  relays'[h] \in {relays[h], bak[h]}
    BY <2>1 DEF TypeOK
  <2> QED
    BY <1>1, <1>2, <2>1 DEF Write, NoConnection, NotSent, Sent
<1>3. CASE Reset
  BY <1>3 DEF Reset, ResetModules
<1> QED
  BY <1>1, <1>2, <1>3 DEF Next, vars, SwitchExcut, Drop, Step, Read, Reconnect

\* The amplifiers and generators behind one switch are never connected to each
\* other: the frames close one channel only, and a module that is not reached
\* keeps an earlier frame as a whole.
THEOREM ChannelsNeverJoined == Spec => []NeverJoined
<1>1. Init => NeverJoined
  BY DEF Init, NeverJoined
<1>2. TypeOK /\ OneChannelClosed /\ NeverJoined /\ [Next]_vars => NeverJoined'
  BY RelaysStep DEF OneChannelClosed, NeverJoined
<1> QED
  BY <1>1, <1>2, SwitchTypeCorrect, ChannelsExclusive, PTL DEF Spec

-----------------------------------------------------------------------------
(* How many socket operations a command may still take.                      *)

\* A write and a read for every module, a reset and a reconnection.
AttemptSteps == 2 * Cardinality(Uses(route)) + 2

StepsLeft ==
    CASE pc = "idle" -> 0
      [] pc = "write" -> (Attempts - tries) * AttemptSteps + 2 * Cardinality(todo)
      [] pc = "read" -> (Attempts - tries) * AttemptSteps + 2 * Cardinality(todo) - 1
      [] pc = "reset" -> (Attempts - tries) * AttemptSteps + AttemptSteps
      [] pc = "reconnect" -> (Attempts - tries) * AttemptSteps + AttemptSteps - 1

MostSteps == Attempts * AttemptSteps - 2

\* Nothing happens during a command but that it comes closer to its return.
CommandsAdvance == [][pc # "idle" => StepsLeft' < StepsLeft]_vars

LEMMA UsedFinite ==
    ASSUME TypeOK
    PROVE  /\ IsFiniteSet(todo) /\ Cardinality(todo) \in Nat
           /\ Cardinality(Uses(route)) \in Nat
           /\ Cardinality(todo) <= Cardinality(Uses(route))
           /\ todo # {} => Cardinality(todo) >= 1
<1>1. IsFiniteSet(Uses(route)) /\ todo \subseteq Uses(route)
  BY HostAssumption, FS_Subset DEF HostAssumption, TypeOK, Uses
<1>2. IsFiniteSet(todo) /\ Cardinality(todo) <= Cardinality(Uses(route))
  BY <1>1, FS_Subset
<1>3. Cardinality(Uses(route)) \in Nat /\ Cardinality(todo) \in Nat
  BY <1>1, <1>2, FS_CardinalityType
<1>4. Cardinality(todo) = 0 => todo = {}
  BY <1>2, FS_EmptySet
<1> QED
  BY <1>2, <1>3, <1>4

\* The attempts after the next one take one attempt's steps less.
LEMMA AttemptsShare ==
    ASSUME NEW t \in 1 .. Attempts, NEW s \in Nat
    PROVE  /\ (Attempts - t) * s \in Nat
           /\ (Attempts - t) * s <= Attempts * s - s
           /\ (Attempts - (t + 1)) * s = (Attempts - t) * s - s
           /\ t >= 2 => (Attempts - t) * s <= Attempts * s - 2 * s
<1> USE AttemptAssumption DEF AttemptAssumption
<1>1. PICK a \in Nat : a = Attempts - t
  OBVIOUS
<1>2. a * s \in Nat /\ (a - 1) * s = a * s - s
  OBVIOUS
<1>3. (t - 1) * s \in Nat /\ Attempts * s = a * s + (t - 1) * s + s
  BY <1>1
<1>4. t >= 2 => (t - 2) * s \in Nat /\ Attempts * s = a * s + (t - 2) * s + 2 * s
  BY <1>1
<1>5. Attempts - (t + 1) = a - 1
  BY <1>1
<1> QED
  BY <1>1, <1>2, <1>3, <1>4, <1>5

LEMMA StepsBounded == SwitchInv => StepsLeft \in 0 .. MostSteps
<1> SUFFICES ASSUME SwitchInv PROVE StepsLeft \in 0 .. MostSteps
  OBVIOUS
<1> DEFINE P == (Attempts - tries) * AttemptSteps
<1>1. TypeOK /\ Attempted
  BY DEF SwitchInv
<1>2. /\ Cardinality(todo) \in Nat /\ Cardinality(Uses(route)) \in Nat
      /\ Cardinality(todo) <= Cardinality(Uses(route))
      /\ todo # {} => Cardinality(todo) >= 1
  BY <1>1, UsedFinite
<1>3. AttemptSteps \in Nat /\ AttemptSteps = 2 * Cardinality(Uses(route)) + 2
  BY <1>2 DEF AttemptSteps
<1>4. pc # "idle" => tries \in 1 .. Attempts
  BY <1>1, AttemptAssumption DEF AttemptAssumption, TypeOK, Attempted
<1>5. pc # "idle" => P \in Nat /\ P <= Attempts * AttemptSteps - AttemptSteps
  BY <1>3, <1>4, AttemptsShare
<1>6. pc \in {"reset", "reconnect"} => P <= Attempts * AttemptSteps - 2 * AttemptSteps
  BY <1>1, <1>3, <1>4, AttemptsShare DEF Attempted
<1>7. Attempts * AttemptSteps \in Nat /\ Attempts * AttemptSteps >= AttemptSteps
  <2>1. (Attempts - 1) * AttemptSteps \in Nat
    BY <1>3, AttemptAssumption DEF AttemptAssumption
  <2> QED
    BY <1>3, <2>1, AttemptAssumption DEF AttemptAssumption
<1>8. PICK a \in Nat : a = Attempts * AttemptSteps
  BY <1>7
<1>9. /\ pc = "idle" => StepsLeft = 0
      /\ pc = "write" => StepsLeft = P + 2 * Cardinality(todo)
      /\ pc = "read" => StepsLeft = P + 2 * Cardinality(todo) - 1
      /\ pc = "reset" => StepsLeft = P + AttemptSteps
      /\ pc = "reconnect" => StepsLeft = P + AttemptSteps - 1
  BY DEF StepsLeft
<1>10. pc \in {"write", "read"} => Cardinality(todo) >= 1
  BY <1>1, <1>2 DEF TypeOK
<1>11. pc \in {"idle", "write", "read", "reset", "reconnect"} /\ MostSteps = a - 2
  BY <1>1, <1>8 DEF TypeOK, MostSteps
<1> HIDE DEF P
<1> QED
  BY <1>2, <1>3, <1>5, <1>6, <1>7, <1>8, <1>9, <1>10, <1>11

LEMMA AdvanceStep ==
    SwitchInv /\ [Next]_vars => [pc # "idle" => StepsLeft' < StepsLeft]_vars
<1> SUFFICES ASSUME SwitchInv, Next, pc # "idle" PROVE StepsLeft' < StepsLeft
  OBVIOUS
<1> DEFINE P == (Attempts - tries) * AttemptSteps
           N == Cardinality(todo)
<1>1. TypeOK /\ Attempted /\ TypeOK' /\ SwitchInv'
  BY SwitchStep DEF SwitchInv
<1>2. Step /\ route' = route
  BY DEF Next, SwitchExcut, Drop, Step, Write, Read, Reset, Reconnect
<1>3. AttemptSteps' = AttemptSteps
  BY <1>2 DEF AttemptSteps, Uses
<1>4. /\ N \in Nat /\ Cardinality(Uses(route)) \in Nat /\ N <= Cardinality(Uses(route))
      /\ todo # {} => N >= 1
      /\ AttemptSteps \in Nat /\ AttemptSteps = 2 * Cardinality(Uses(route)) + 2
  BY <1>1, UsedFinite DEF AttemptSteps
<1>5. tries \in 1 .. Attempts
  BY <1>1, AttemptAssumption DEF AttemptAssumption, TypeOK, Attempted
<1>6. P \in Nat /\ (tries' = tries => P' = P) /\ (tries' = tries + 1 => P' = P - AttemptSteps)
  BY <1>3, <1>4, <1>5, AttemptsShare
<1>7. /\ pc = "write" => StepsLeft = P + 2 * N
      /\ pc = "read" => StepsLeft = P + 2 * N - 1
      /\ pc = "reset" => StepsLeft = P + AttemptSteps
      /\ pc = "reconnect" => StepsLeft = P + AttemptSteps - 1
      /\ pc' = "idle" => StepsLeft' = 0
      /\ pc' = "write" => StepsLeft' = P' + 2 * N'
      /\ pc' = "read" => StepsLeft' = P' + 2 * N' - 1
      /\ pc' = "reset" => StepsLeft' = P' + AttemptSteps
      /\ pc' = "reconnect" => StepsLeft' = P' + AttemptSteps - 1
  BY <1>3 DEF StepsLeft
<1>8. pc \in {"write", "read"} => N >= 1
  BY <1>1, <1>4 DEF TypeOK
<1> HIDE DEF P, N, StepsLeft
<1>9. ASSUME pc \in {"write", "read"}, Failed PROVE StepsLeft' < StepsLeft
  <2>1. (pc' = "reset" /\ tries' = tries + 1) \/ pc' = "idle"
    BY <1>9 DEF Failed, Return
  <2> QED
    BY <1>4, <1>6, <1>7, <1>8, <1>9, <2>1
<1>10. CASE Write
  <2>1. CASE Failed
    BY <1>9, <1>10, <2>1 DEF Write
  <2>2. CASE pc' = "read" /\ UNCHANGED <<todo, tries>>
    <3>1. N' = N /\ pc = "write"
      BY <1>10, <2>2 DEF Write, N
    <3> QED
      BY <1>4, <1>6, <1>7, <2>2, <3>1
  <2> QED
    BY <1>10, <2>1, <2>2 DEF Write, NoConnection, NotSent, Sent
<1>11. CASE Read
  <2> DEFINE h == First(todo)
  <2>1. pc = "read" /\ h \in todo
    BY <1>11, FirstInUse DEF Read, Attempt
  <2>2. CASE Failed
    BY <1>9, <2>1, <2>2
  <2>3. CASE Return("ok")
    BY <1>4, <1>6, <1>7, <1>8, <2>1, <2>3 DEF Return
  <2>4. CASE pc' = "write" /\ todo' = todo \ {h} /\ UNCHANGED <<tries, ret>>
    <3>1. N' = N - 1
      BY <1>1, <2>1, <2>4, UsedFinite, FS_RemoveElement DEF N
    <3> QED
      BY <1>4, <1>6, <1>7, <1>8, <2>1, <2>4, <3>1
  <2> HIDE DEF h
  <2>5. Failed \/ Compare(h)
    BY <1>11 DEF Read, Echo, Garbled, OrderlyClose, ReadError, h
  <2> QED
    BY <2>2, <2>3, <2>4, <2>5 DEF Compare
<1>12. CASE Reset
  BY <1>4, <1>6, <1>7, <1>12 DEF Reset
<1>13. CASE Reconnect
  <2>1. pc = "reconnect" /\ tries' = tries
    BY <1>13 DEF Reconnect
  <2>2. CASE pc' = "write" /\ todo' = Uses(route)
    <3>1. N' = Cardinality(Uses(route))
      BY <2>2 DEF N
    <3> QED
      BY <1>4, <1>6, <1>7, <2>1, <2>2, <3>1
  <2>3. CASE pc' = "idle"
    BY <1>4, <1>6, <1>7, <2>1, <2>3
  <2> QED
    BY <1>13, <2>2, <2>3 DEF Reconnect, Return
<1> QED
  BY <1>2, <1>10, <1>11, <1>12, <1>13 DEF Step

\* A command returns after at most Attempts times a write and a read per module,
\* with a reset and a reconnection between two attempts, whatever the modules
\* answer: replyCnt is counted on every way back to the first module.
THEOREM CommandsEnd == Spec => [](StepsLeft \in 0 .. MostSteps) /\ CommandsAdvance
BY SwitchInit, SwitchStep, StepsBounded, AdvanceStep, PTL DEF Spec, CommandsAdvance
-----------------------------------------------------------------------------
(* The matrix below the API.                                                 *)

\* After a success every relay the command names is in position, and in every
\* switch it sets exactly the channel it closes is closed, except in a module that
\* hung up during the command.
Connected ==
    pc = "idle" /\ ret = "ok" =>
        \A h \in Host \ hungup :
            /\ relays[h] \intersect Cleared[route][h] = Closed[route][h]
            /\ \A switch \in Switches[h] :
                  Closed[route][h] \intersect switch # {} =>
                      relays[h] \intersect switch = Closed[route][h] \intersect switch

\* What the contract says of the moment of success holds until the next command.
Positioned ==
    Contract!Spec => [](pc = "idle" /\ ret = "ok" =>
        \A h \in Host : Cleared[route][h] # {} => Contract!InPosition(h) \/ h \in hungup)

LEMMA ContractPositions == Positioned
<1> DEFINE Status == IF pc = "idle" THEN ret ELSE "busy"
           InPlace == Status = "ok" =>
               \A h \in Host : Cleared[route][h] # {} => Contract!InPosition(h) \/ h \in hungup
<1>1. Contract!Init => InPlace
  BY DEF Contract!Init
<1>2. InPlace /\ [Contract!Next]_(Contract!vars) => InPlace'
  <2> SUFFICES ASSUME InPlace, [Contract!Next]_(Contract!vars) PROVE InPlace'
    OBVIOUS
  <2>1. CASE UNCHANGED Contract!vars
    BY <2>1 DEF Contract!vars, Contract!InPosition
  <2>2. ASSUME NEW r \in Selected, Contract!Command(r) PROVE InPlace'
    BY <2>2 DEF Contract!Command
  <2>3. CASE Contract!Move
    BY <2>3 DEF Contract!Move
  <2>4. CASE Contract!Succeed
    BY <2>4 DEF Contract!Succeed, Contract!InPosition
  <2>5. CASE Contract!Fail
    BY <2>5 DEF Contract!Fail
  <2> QED
    BY <2>1, <2>2, <2>3, <2>4, <2>5 DEF Contract!Next
<1>3. InPlace <=>
        (pc = "idle" /\ ret = "ok" =>
           \A h \in Host : Cleared[route][h] # {} => Contract!InPosition(h) \/ h \in hungup)
  OBVIOUS
<1> HIDE DEF InPlace
<1> QED
  BY <1>1, <1>2, <1>3, PTL DEF Contract!Spec, Positioned

\* Modules the command does not use have nothing to close.
LEMMA ConnectedByPosition ==
    ASSUME TypeOK,
           \A h \in Host : Cleared[route][h] # {} => Contract!InPosition(h) \/ h \in hungup
    PROVE  Connected
<1> USE TableAssumption DEF TableAssumption
<1> SUFFICES ASSUME NEW h \in Host \ hungup
             PROVE  /\ relays[h] \intersect Cleared[route][h] = Closed[route][h]
                    /\ \A switch \in Switches[h] :
                          Closed[route][h] \intersect switch # {} =>
                              relays[h] \intersect switch = Closed[route][h] \intersect switch
  BY DEF Connected
<1>1. route \in Route /\ Closed[route][h] \subseteq Cleared[route][h]
  BY DEF TypeOK
<1>2. relays[h] \intersect Cleared[route][h] = Closed[route][h]
  BY <1>1 DEF Contract!InPosition
<1>3. ASSUME NEW switch \in Switches[h], Closed[route][h] \intersect switch # {}
      PROVE  relays[h] \intersect switch = Closed[route][h] \intersect switch
  <2>1. switch \subseteq Cleared[route][h]
    BY <1>1, <1>3, SwitchAssumption DEF SwitchAssumption
  <2> QED
    BY <1>2, <2>1
<1> QED
  BY <1>2, <1>3

\* From one success to the next command the channels commanded stay closed and no
\* other channel of their switches is, by the contract alone.
THEOREM SuccessConnects == Spec => []Connected
<1>1. TypeOK /\ (pc = "idle" /\ ret = "ok" =>
          \A h \in Host : Cleared[route][h] # {} => Contract!InPosition(h) \/ h \in hungup)
        => Connected
  BY ConnectedByPosition DEF Connected
<1> QED
  BY <1>1, ContractKept, ContractPositions, SwitchTypeCorrect, PTL DEF KeepsContract, Positioned

\* The position the API can rely on: the path and coupler of the last command, if
\* it succeeded and no module hung up.  (A command is <<2 * band + port, coupler>>.)
Path(r) == [path |-> <<r[1] \div 2, r[1] % 2>>, coup |-> r[2] + 1]
Mixed == [path |-> <<>>, coup |-> 0]
Position ==
    IF pc = "idle" /\ ret = "ok" /\ hungup = {} THEN Path(route) ELSE Mixed

Rig == INSTANCE Instruments
    WITH LateWrites <- FALSE, Mixed <- Mixed, cache <- 0, gen <- 0, route <- Position,
         ResetPow <- 0, SMx <- {}

\* A command that returns is the SetSwitch of the transmit models, every other
\* step leaves the position or loses it, and a position is there when it is known.
SwitchesAsAssumed ==
    [][IF pc # "idle" /\ pc' = "idle"
       THEN Rig!SetSwitch(route[1] \div 2, route[1] % 2, route[2] + 1,
                          ret' = "ok" /\ hungup' = {})
       ELSE Position' \in {Position, Mixed}]_vars

PositionIsReal ==
    Position # Mixed =>
        \A h \in Host : relays[h] \intersect Cleared[route][h] = Closed[route][h]

\* TxCycle and TxCalibration take a command for one step that either connects the
\* path or leaves it as it was or unknown: so it is, with retries, resets and
\* dropped connections, as long as no module hangs up.
THEOREM MatrixIsSetSwitch == Spec => SwitchesAsAssumed /\ []PositionIsReal
<1>1. ASSUME TypeOK, Next, pc # "idle", pc' = "idle"
      PROVE  Rig!SetSwitch(route[1] \div 2, route[1] % 2, route[2] + 1,
                           ret' = "ok" /\ hungup' = {})
  <2>1. route' = route
    BY <1>1 DEF Next, SwitchExcut, Drop, Step, Write, Read, Reset, Reconnect
  <2>2. Position = Mixed
    BY <1>1 DEF Position
  <2>3. Position' = IF ret' = "ok" /\ hungup' = {} THEN Path(route) ELSE Mixed
    BY <1>1, <2>1 DEF Position
  <2> QED
    BY <2>2, <2>3 DEF Rig!SetSwitch, Path
<1>2. ASSUME TypeOK, Next, ~ (pc # "idle" /\ pc' = "idle")
      PROVE  Position' \in {Position, Mixed}
  <2>1. CASE pc' # "idle"
    BY <2>1 DEF Position
  <2>2. CASE pc = "idle" /\ pc' = "idle"
    <3>1. UNCHANGED <<route, ret, hungup>>
      BY <1>2, <2>2 DEF Next, SwitchExcut, Drop, Step, Write, Read, Reset, Reconnect
    <3> QED
      BY <2>2, <3>1 DEF Position
  <2> QED
    BY <1>2, <2>1, <2>2
<1>3. TypeOK /\ [Next]_vars =>
        [IF pc # "idle" /\ pc' = "idle"
         THEN Rig!SetSwitch(route[1] \div 2, route[1] % 2, route[2] + 1,
                            ret' = "ok" /\ hungup' = {})
         ELSE Position' \in {Position, Mixed}]_vars
  BY <1>1, <1>2
<1>4. Connected => PositionIsReal
  BY DEF Connected, PositionIsReal, Position
<1>5. Spec => []TypeOK
  BY SwitchTypeCorrect
<1> QED
  BY <1>3, <1>4, <1>5, SuccessConnects, PTL DEF Spec, SwitchesAsAssumed
=============================================================================
