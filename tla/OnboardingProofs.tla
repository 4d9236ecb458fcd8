--------------------------- MODULE OnboardingProofs ---------------------------
(***************************************************************************)
(* Proofs about SmartConfig and Onboarding, for any channels, phones,      *)
(* length of the data and number of announcements: the invariants of       *)
(* each part, and that together they implement Enrolment.                  *)
(***************************************************************************)
EXTENDS Onboarding, FiniteSetTheorems, TLAPS

\* The types in two parts: what is a Boolean, a set or a function, and the rest.
Sets ==
  /\ preambles \subseteq {1, 2}
  /\ copies \in [Indices -> 0..(Wrap - 1)]
  /\ received \subseteq Indices
  /\ sniffing \in BOOLEAN /\ buffers \in BOOLEAN
  /\ spoiled \subseteq {"channel", "counted"}

Plain ==
  /\ step \in Locked \cup {"start", "done", "exit"}
  /\ source \in Phones \cup {Nobody} /\ router \in Phones \cup {Nobody}
  /\ counted \in 0..Length
  /\ channel \in Channels /\ curr_chan_index \in Channels
  /\ timer \in {"off", "hop", "apconfig"} /\ hops \in 0..(MaxHops + 1)
  /\ hop \in {"none", "check", "switch", "give_up"}
  /\ outcome \in {"none", "station", "ap", "crash"}

LEMMA TypeParts == TypeOK <=> Sets /\ Plain
BY DEF TypeOK, Sets, Plain

\* A receiver that waits for data has not got it all; the timer hops only until it
\* gives up.
Progress ==
  /\ step = "recv_data" => counted < Length
  /\ hop # "give_up" => hops <= MaxHops
  /\ step = "exit" => received = Indices
  /\ StaysOnChannel

\* The frames counted are those stored.
Counting ==
  \/ "counted" \in spoiled
  \/ /\ counted = Cardinality(received)
     /\ step \in {"decrypt", "set_network"} => received = Indices

LEMMA IndicesFinite == IsFiniteSet(Indices) /\ Cardinality(Indices) = Length
<1>1. 0 \in Int /\ Length - 1 \in Int /\ Length \in Nat \ {0}
  BY RadioAssumption
<1>2. IsFiniteSet(0..(Length - 1))
  BY <1>1, FS_Interval
<1>3. Cardinality(0..(Length - 1)) =
        IF 0 > Length - 1 THEN 0 ELSE (Length - 1) - 0 + 1
  BY <1>1, FS_Interval
<1>4. ~(0 > Length - 1) /\ (Length - 1) - 0 + 1 = Length
  BY <1>1
<1>5. Cardinality(0..(Length - 1)) = Length
  BY <1>3, <1>4
<1> QED
  BY <1>2, <1>5 DEF Indices

LEMMA NextChannelType == curr_chan_index \in Channels => NextChannel \in Channels
<1>1. \A i \in Nat, n \in Nat \ {0} : (i % n) + 1 \in 1..n
  OBVIOUS
<1>2. PICK n \in Nat \ {0} : Channels = 1..n /\ Cardinality(Channels) = n
  BY FS_Interval, RadioAssumption
<1> SUFFICES ASSUME curr_chan_index \in 1..n PROVE (curr_chan_index % n) + 1 \in 1..n
  BY <1>2 DEF NextChannel
<1> QED
  BY <1>1

\* Where a receiver is that has just locked on a phone it hears.
LEMMA TunedWell ==
  ASSUME NEW phone \in Phones, channel \in Channels, Hears(phone), Tune(phone)
  PROVE  /\ channel' \in Channels
         /\ phone \in Listed => channel' = Home[phone]
         /\ phone \notin Listed => channel' \in HeardOn(phone)
BY RadioAssumption DEF Tune, Hears

LEMMA InitListening == Init => TypeOK /\ Progress /\ Counting
<1> SUFFICES ASSUME Init PROVE TypeOK /\ Progress /\ Counting
  OBVIOUS
<1>1. Sets
  BY RadioAssumption DEF Init, Sets, None
<1>2. Plain
  BY RadioAssumption DEF Init, Plain
<1>3. Progress
  BY RadioAssumption DEF Init, Progress, StaysOnChannel, Locked
<1>4. Counting
  BY FS_EmptySet DEF Init, Counting
<1> QED
  BY <1>1, <1>2, <1>3, <1>4, TypeParts

LEMMA StepListening ==
  ASSUME TypeOK, Progress, [Next]_vars
  PROVE  TypeOK' /\ Progress'
<1>0. Sets /\ Plain
  BY TypeParts
<1> USE RadioAssumption DEF Locked
<1>1. CASE HopTimerFires
  <2>1. Sets'
    BY <1>0, <1>1 DEF HopTimerFires, Sets, receiver, radio
  <2>2. Plain' /\ Progress'
    BY <1>0, <1>1
       DEF HopTimerFires, Plain, Progress, StaysOnChannel, receiver, radio
  <2> QED BY <2>1, <2>2 DEF TypeOK, Sets, Plain
<1>2. CASE GiveUp
  <2>1. Sets'
    BY <1>0, <1>2 DEF GiveUp, BecomeAp, Sets, receiver
  <2>2. Plain' /\ Progress'
    BY <1>0, <1>2
       DEF GiveUp, BecomeAp, Plain, Progress, StaysOnChannel, receiver
  <2> QED BY <2>1, <2>2 DEF TypeOK, Sets, Plain
<1>3. CASE CheckStep
  <2>1. Sets'
    BY <1>0, <1>3 DEF CheckStep, Sets, receiver, radio
  <2>2. Plain' /\ Progress'
    BY <1>0, <1>3 DEF CheckStep, Plain, Progress, StaysOnChannel, receiver, radio
  <2> QED BY <2>1, <2>2 DEF TypeOK, Sets, Plain
<1>4. CASE SwitchChannel
  <2>1. Sets'
    BY <1>0, <1>4 DEF SwitchChannel, Sets, receiver
  <2>2. Plain'
    BY <1>0, <1>4, NextChannelType DEF SwitchChannel, Plain, receiver
  <2>3. Progress'
    BY <1>0, <1>4 DEF SwitchChannel, Plain, Progress, StaysOnChannel, receiver
  <2> QED BY <2>1, <2>2, <2>3 DEF TypeOK, Sets, Plain
<1>5. CASE ApConfig
  <2>1. Sets'
    BY <1>0, <1>5 DEF ApConfig, Sets, receiver, radio
  <2>2. Plain' /\ Progress'
    BY <1>0, <1>5 DEF ApConfig, Plain, Progress, StaysOnChannel, receiver, radio
  <2> QED BY <2>1, <2>2 DEF TypeOK, Sets, Plain
<1>6. CASE ProbeRequest
  <2>1. Sets'
    BY <1>0, <1>6 DEF ProbeRequest, BecomeAp, Sets, receiver
  <2>2. Plain' /\ Progress'
    BY <1>0, <1>6
       DEF ProbeRequest, BecomeAp, Plain, Progress, StaysOnChannel, receiver
  <2> QED BY <2>1, <2>2 DEF TypeOK, Sets, Plain
<1>7. ASSUME NEW phone \in Phones, AirkissPacket(phone)
      PROVE  TypeOK' /\ Progress'
  <2>1. Sets'
    BY <1>0, <1>7 DEF AirkissPacket, AirkissLock, AirkissComplete, ConnectToAp, Sets
  <2>2. CASE AirkissLock(phone)
    <3>1. /\ channel' \in Channels
          /\ phone \in Listed => channel' = Home[phone]
          /\ phone \notin Listed => channel' \in HeardOn(phone)
      BY <1>0, <2>2, TunedWell DEF AirkissLock, Plain
    <3> QED
      BY <1>0, <2>1, <2>2, <3>1
         DEF AirkissLock, Tune, TypeOK, Sets, Plain, Progress, StaysOnChannel
  <2>3. CASE AirkissComplete(phone)
    BY <1>0, <2>1, <2>3
       DEF AirkissComplete, ConnectToAp, TypeOK, Sets, Plain, Progress, StaysOnChannel
  <2> QED BY <1>7, <2>2, <2>3 DEF AirkissPacket
<1>8. ASSUME NEW phone \in Phones, FirstFrame(phone)
      PROVE  TypeOK' /\ Progress'
  <2>1. Sets'
    BY <1>0, <1>8 DEF FirstFrame, Sets, radio
  <2>2. Plain' /\ Progress'
    BY <1>0, <1>8 DEF FirstFrame, Plain, Progress, StaysOnChannel, radio, hopper
  <2> QED BY <2>1, <2>2 DEF TypeOK, Sets, Plain
<1>9. ASSUME NEW phone \in Phones, NEW number \in {1, 2}, Preamble(phone, number)
      PROVE  TypeOK' /\ Progress'
  <2>1. Sets'
    BY <1>0, <1>9 DEF Preamble, Sets, None
  <2>2. Plain'
    BY <1>0, <1>9, TunedWell DEF Preamble, Frame, Tune, Plain
  <2>3. Progress'
    <3>1. CASE Tune(phone)
      <4>1. /\ phone \in Listed => channel' = Home[phone]
            /\ phone \notin Listed => channel' \in HeardOn(phone)
        BY <1>0, <1>9, <3>1, TunedWell DEF Preamble, Frame, Plain
      <4> QED
        BY <1>0, <1>9, <3>1, <4>1 DEF Preamble, Tune, Plain, Progress, StaysOnChannel
    <3>2. CASE UNCHANGED <<step, counted, router, received, channel, timer>>
      BY <1>0, <1>9, <3>2 DEF Preamble, Plain, Progress, StaysOnChannel
    <3> QED BY <1>9, <3>1, <3>2 DEF Preamble
  <2> QED BY <2>1, <2>2, <2>3 DEF TypeOK, Sets, Plain
<1>10. ASSUME NEW phone \in Phones, NEW index \in Indices, Data(phone, index)
       PROVE  TypeOK' /\ Progress'
  <2>1. Sets'
    <3>1. copies' \in [Indices -> 0..(Wrap - 1)]
      <4>1. \A n \in Nat : (n + 1) % Wrap \in 0..(Wrap - 1)
        OBVIOUS
      <4>2. (copies[index] + 1) % Wrap \in 0..(Wrap - 1)
        BY <1>0, <4>1 DEF Sets
      <4>3. None \in [Indices -> 0..(Wrap - 1)]
        BY DEF None
      <4>4. copies \in [Indices -> 0..(Wrap - 1)]
        BY <1>0 DEF Sets
      <4>5. [copies EXCEPT ![index] = (@ + 1) % Wrap] \in [Indices -> 0..(Wrap - 1)]
        BY <4>2, <4>4
      <4>6. \/ copies' = [copies EXCEPT ![index] = (@ + 1) % Wrap]
            \/ copies' = None
        BY <1>10 DEF Data
      <4> QED
        BY <4>3, <4>5, <4>6
    <3>2. received' \subseteq Indices
      <4>1. received' = received \/ received' = received \cup {index} \/ received' = {}
        BY <1>10 DEF Data
      <4> QED
        BY <1>0, <4>1 DEF Sets
    <3>3. spoiled' \subseteq {"channel", "counted"}
      <4>1. spoiled' = spoiled \/ spoiled' = spoiled \cup {"counted"}
        BY <1>10 DEF Data
      <4> QED
        BY <1>0, <4>1 DEF Sets
    <3>4. UNCHANGED <<preambles, sniffing, buffers>>
      BY <1>10 DEF Data
    <3> QED
      BY <1>0, <3>1, <3>2, <3>3, <3>4 DEF Sets
  <2>2. Plain'
    BY <1>0, <1>10, TunedWell DEF Data, Frame, Tune, Plain, Progress
  <2>3. Progress'
    <3>1. CASE Tune(phone)
      <4>1. /\ phone \in Listed => channel' = Home[phone]
            /\ phone \notin Listed => channel' \in HeardOn(phone)
        BY <1>0, <1>10, <3>1, TunedWell DEF Data, Frame, Plain
      <4> QED
        BY <1>0, <1>10, <3>1, <4>1 DEF Data, Tune, Plain, Progress, StaysOnChannel
    <3>2. CASE step = "recv_data" /\ UNCHANGED <<router, channel, timer>>
      BY <1>0, <1>10, <3>2 DEF Data, Plain, Progress, StaysOnChannel
    <3> QED BY <1>10, <3>1, <3>2 DEF Data
  <2> QED BY <2>1, <2>2, <2>3 DEF TypeOK, Sets, Plain
<1>11. ASSUME NEW phone \in Phones, Followup(phone)
       PROVE  TypeOK' /\ Progress'
  <2>1. Sets'
    BY <1>0, <1>11
       DEF Followup, Decrypt, SetNetwork, ConnectToAp, Sets, radio
  <2>2. Plain'
    BY <1>0, <1>11
       DEF Followup, Decrypt, SetNetwork, ConnectToAp, Plain, radio, hopper
  <2>3. Progress'
    BY <1>0, <1>11
       DEF Followup, Decrypt, SetNetwork, ConnectToAp, ChecksumRight, Plain, Progress,
           StaysOnChannel, radio, hopper
  <2> QED BY <2>1, <2>2, <2>3 DEF TypeOK, Sets, Plain
<1>12. CASE UNCHANGED vars
  BY <1>12 DEF vars, receiver, radio, hopper, TypeOK, Progress, StaysOnChannel
<1> QED
  BY <1>1, <1>2, <1>3, <1>4, <1>5, <1>6, <1>7, <1>8, <1>9, <1>10, <1>11, <1>12
     DEF Next, TimerStep
\* A frame that is new to its counter is new to the receiver, or the counter had
\* wrapped; when as many are stored as there are, all are.
LEMMA StepCounting ==
  ASSUME TypeOK, Counting, [Next]_vars
  PROVE  Counting'
<1>0. Sets /\ Plain
  BY TypeParts
<1> USE RadioAssumption DEF Counting
<1>1. ASSUME NEW phone \in Phones, NEW index \in Indices, Data(phone, index)
      PROVE  Counting'
  <2>1. CASE "counted" \in spoiled
    BY <1>1, <2>1 DEF Data
  <2>2. CASE "counted" \notin spoiled /\ step = "recv_data"
    <3>1. CASE NewFrame(index)
      <4>1. CASE index \in received
        BY <1>1, <2>2, <3>1, <4>1 DEF Data, NewFrame
      <4>2. CASE index \notin received
        <5>1. IsFiniteSet(received) /\ IsFiniteSet(received') /\ received' \subseteq Indices
          BY <1>0, <1>1, <2>2, <3>1, IndicesFinite, FS_Subset DEF Data, Sets
        <5>2. Cardinality(received') = Cardinality(received) + 1
          BY <1>1, <2>2, <3>1, <4>2, <5>1, FS_AddElement DEF Data
        <5>3. counted' = Cardinality(received')
          BY <1>1, <2>2, <3>1, <5>2 DEF Data
        <5>4. counted' = Length => received' = Indices
          BY <5>1, <5>3, IndicesFinite, FS_Subset
        <5> QED
          BY <1>1, <2>2, <3>1, <5>3, <5>4 DEF Data
      <4> QED BY <4>1, <4>2
    <3>2. CASE ~NewFrame(index)
      BY <1>1, <2>2, <3>2 DEF Data
    <3> QED BY <3>1, <3>2
  <2>3. CASE step = "start"
    BY <1>1, <2>3, FS_EmptySet DEF Data
  <2> QED BY <1>1, <2>1, <2>2, <2>3 DEF Data
<1>2. ASSUME NEW phone \in Phones, NEW number \in {1, 2}, Preamble(phone, number)
      PROVE  Counting'
  BY <1>2, FS_EmptySet DEF Preamble
<1>3. ASSUME NEW phone \in Phones, Followup(phone)
      PROVE  Counting'
  BY <1>3 DEF Followup, Decrypt, SetNetwork
<1>4. ASSUME NEW phone \in Phones, AirkissPacket(phone) \/ FirstFrame(phone)
      PROVE  Counting'
  BY <1>4 DEF AirkissPacket, AirkissLock, AirkissComplete, FirstFrame
<1>5. CASE TimerStep \/ ProbeRequest
  BY <1>5 DEF TimerStep, HopTimerFires, GiveUp, CheckStep, SwitchChannel, ApConfig,
     ProbeRequest, receiver
<1>6. CASE UNCHANGED vars
  BY <1>6 DEF vars, receiver
<1> QED
  BY <1>1, <1>2, <1>3, <1>4, <1>5, <1>6 DEF Next

-----------------------------------------------------------------------------
(* The UDP loop.  An acknowledgement closes the socket, so that the loop   *)
(* makes at most one more announcement and is never entered again.         *)

Announcing ==
  acked # Udp!Never =>
    \/ at = "send" /\ times = acked /\ ~socket
    \/ at \in {"top", "out"} /\ times = acked - 1 /\ ~socket
    \/ at = "reset" /\ acked = 0 /\ times = 255
    \/ at = "crash" /\ times = acked

LEMMA InitUdp == Udp!Init => Udp!TypeOK /\ Announcing
BY TimesAssumption DEF Udp!Init, Udp!TypeOK, Udp!Never, Udp!Modes, Announcing

LEMMA StepUdp ==
  ASSUME Udp!TypeOK, Announcing, Udp!Next
  PROVE  Udp!TypeOK' /\ Announcing'
<1> USE TimesAssumption DEF Udp!TypeOK, Udp!Never, Udp!Modes, Announcing
<1>1. CASE Udp!Start
  BY <1>1 DEF Udp!Start
<1>2. CASE Udp!Leave
  BY <1>2 DEF Udp!Leave
<1>3. CASE Udp!Ignore
  BY <1>3 DEF Udp!Ignore, Udp!Waits
<1>4. CASE Udp!Configure
  BY <1>4 DEF Udp!Configure, Udp!Waits
<1>5. CASE Udp!Acknowledge
  BY <1>5 DEF Udp!Acknowledge, Udp!Waits, Udp!EndLoop
<1>6. CASE Udp!Send
  BY <1>6 DEF Udp!Send, Udp!CountDown
<1> QED
  BY <1>1, <1>2, <1>3, <1>4, <1>5, <1>6 DEF Udp!Next, Udp!Round

-----------------------------------------------------------------------------
OnboardingInv == /\ TypeOK /\ Progress /\ Counting
                 /\ Udp!TypeOK /\ Announcing

\* The inductive invariant: types, how far listening and the counting of frames have
\* got, and how the announcements left relate to the acknowledgement.
THEOREM OnboardingInvariant == OnboardingSpec => []OnboardingInv
<1>1. OnboardingInit => OnboardingInv
  BY InitListening, InitUdp DEF OnboardingInit, OnboardingInv
<1>2. ASSUME OnboardingInv, [OnboardingNext]_<<vars, udp>>
      PROVE  OnboardingInv'
  <2>1. [Next]_vars
    BY <1>2 DEF OnboardingNext, Listen, Notify
  <2>2. Udp!Next \/ UNCHANGED udp
    BY <1>2 DEF OnboardingNext, Listen, Notify
  <2>3. TypeOK' /\ Progress' /\ Counting'
    BY <1>2, <2>1, StepListening, StepCounting DEF OnboardingInv
  <2>4. CASE Udp!Next
    BY <1>2, <2>3, <2>4, StepUdp DEF OnboardingInv
  <2>5. CASE UNCHANGED udp
    BY <1>2, <2>3, <2>5
       DEF OnboardingInv, udp, Udp!TypeOK, Udp!Never, Udp!Modes, Announcing
  <2> QED
    BY <2>2, <2>3, <2>4, <2>5 DEF OnboardingInv
<1> QED
  BY <1>1, <1>2, PTL DEF OnboardingSpec

\* Every variable keeps its type.
THEOREM OnboardingTyped == OnboardingSpec => []OnboardingTypeOK
<1>1. OnboardingInv => OnboardingTypeOK
  BY DEF OnboardingInv, OnboardingTypeOK
<1> QED
  BY <1>1, OnboardingInvariant, PTL

\* A receiver that has locked on a phone stays on a channel where it hears it, its
\* network's own if the scan listed that, unless a hop was past its look at step.
THEOREM ListeningStays == OnboardingSpec => []StaysOnChannel
<1>1. OnboardingInv => StaysOnChannel
  BY DEF OnboardingInv, Progress
<1> QED
  BY <1>1, OnboardingInvariant, PTL

\* resemble takes the data for complete when it is, unless a counter wrapped.
THEOREM CountSound == OnboardingSpec => []CompleteWhenCounted
<1>1. OnboardingInv => CompleteWhenCounted
  BY DEF OnboardingInv, Counting, CompleteWhenCounted
<1> QED
  BY <1>1, OnboardingInvariant, PTL

\* An acknowledged device resets itself only when its last announcement had been
\* made before.
THEOREM AcknowledgedKept == OnboardingSpec => []AckedIsKept
<1>1. OnboardingInv => AckedIsKept
  BY DEF OnboardingInv, Announcing, AckedIsKept, Udp!AckedIsKept, Udp!Never
<1> QED
  BY <1>1, OnboardingInvariant, PTL

\* An acknowledged device announces itself at most once more.
THEOREM AcknowledgedQuiet == OnboardingSpec => []QuietAfterAck
<1>1. ASSUME OnboardingInv, acked # Udp!Never
      PROVE  times \in {acked, (acked - 1) % 256}
  <2>1. \A n \in 0..255 : (n - 1) % 256 = IF n = 0 THEN 255 ELSE n - 1
    OBVIOUS
  <2>2. acked \in 0..255 /\ times \in 0..255
    BY <1>1 DEF OnboardingInv, Udp!TypeOK
  <2>3. times = acked \/ times = acked - 1 \/ (acked = 0 /\ times = 255)
    BY <1>1 DEF OnboardingInv, Announcing
  <2> QED
    BY <2>1, <2>2, <2>3
<1>2. OnboardingInv => QuietAfterAck
  BY <1>1 DEF QuietAfterAck, Udp!QuietAfterAck
<1> QED
  BY <1>2, OnboardingInvariant, PTL

-----------------------------------------------------------------------------
(* The refinement of Enrolment.  Nothing is heard once listening has       *)
(* ended, and what is received belongs to the phone whose network the      *)
(* device is about to join.                                                *)

\* Listening has ended for good when its buffers are freed.
Ending ==
  /\ ~buffers => ~sniffing
  /\ timer = "apconfig" \/ outcome # "none" \/ step \in {"exit", "done"} => ~sniffing
  /\ step \in {"exit", "done"} => outcome # "none"

\* Whose data and whose network it is.
Owning ==
  /\ source \in (Phones \ Airkiss) \cup {Nobody}
  /\ step \in {"recv_data", "decrypt", "set_network", "exit"}
       => router = source /\ source \in Phones \ Airkiss
  /\ step \in {"airkiss", "done"} => router \in Airkiss
  /\ received # {} => source \in Phones \ Airkiss
  /\ step = "start" => received # Indices

\* The UDP loop is entered after listening.
InTurn == outcome = "none" => at = "out" /\ acked = Udp!Never

LEMMA IndicesThere == {} # Indices
BY RadioAssumption DEF Indices

\* What a packet of a phone may find.
LEMMA Listening ==
  ASSUME Ending, InTurn, NEW phone \in Phones, Hears(phone)
  PROVE  /\ Stage = "listening" /\ outcome = "none" /\ step \notin {"exit", "done"}
         /\ Network = Nobody
         /\ Whole = IF received = Indices THEN {source} ELSE {}
<1>1. outcome = "none" /\ step \notin {"exit", "done"} /\ at = "out" /\ acked = Udp!Never
  BY DEF Ending, InTurn, Hears
<1> QED
  BY <1>1 DEF Stage, Network, Whole

LEMMA StepEnding ==
  ASSUME Ending, [Next]_vars
  PROVE  Ending'
<1> USE DEF Ending
<1>1. CASE TimerStep \/ ProbeRequest
  BY <1>1 DEF TimerStep, HopTimerFires, GiveUp, CheckStep, SwitchChannel, ApConfig,
     ProbeRequest, BecomeAp, receiver, radio
<1>2. ASSUME NEW phone \in Phones, AirkissPacket(phone) \/ Followup(phone)
      PROVE  Ending'
  <2>1. CASE AirkissLock(phone)
    BY <2>1 DEF AirkissLock, Tune, Hears
  <2>2. CASE AirkissComplete(phone)
    BY <2>2 DEF AirkissComplete, ConnectToAp
  <2>3. CASE Decrypt(phone)
    BY <2>3 DEF Decrypt, Frame, Hears, radio, hopper
  <2>4. CASE SetNetwork(phone)
    <3>1. CASE step' = "exit" /\ ConnectToAp
      BY <3>1 DEF ConnectToAp
    <3>2. CASE step' = "start" /\ UNCHANGED <<outcome, timer, sniffing, buffers>>
      <4>1. sniffing
        BY <2>4 DEF SetNetwork, Frame, Hears
      <4> QED
        BY <3>2, <4>1
    <3> QED
      BY <2>4, <3>1, <3>2 DEF SetNetwork
  <2> QED
    BY <1>2, <2>1, <2>2, <2>3, <2>4 DEF AirkissPacket, Followup
<1>3. ASSUME NEW phone \in Phones, FirstFrame(phone)
      PROVE  Ending'
  BY <1>3 DEF FirstFrame, radio, hopper
<1>4. ASSUME NEW phone \in Phones, NEW number \in {1, 2}, Preamble(phone, number)
      PROVE  Ending'
  BY <1>4 DEF Preamble, Tune, Frame, Hears
<1>5. ASSUME NEW phone \in Phones, NEW index \in Indices, Data(phone, index)
      PROVE  Ending'
  BY <1>5 DEF Data, Tune, Frame, Hears
<1>6. CASE UNCHANGED vars
  BY <1>6 DEF vars, receiver, radio, hopper
<1> QED
  BY <1>1, <1>2, <1>3, <1>4, <1>5, <1>6 DEF Next

LEMMA StepOwning ==
  ASSUME Owning, Ending, [Next]_vars
  PROVE  Owning'
<1> USE IndicesThere DEF Owning
<1>1. CASE TimerStep \/ ProbeRequest \/ UNCHANGED vars
  <2>1. UNCHANGED receiver
    BY <1>1 DEF TimerStep, HopTimerFires, GiveUp, CheckStep, SwitchChannel, ApConfig,
       ProbeRequest, vars
  <2> QED
    BY <2>1 DEF receiver
<1>2. ASSUME NEW phone \in Phones, AirkissPacket(phone) \/ Followup(phone)
      PROVE  Owning'
  <2>1. CASE AirkissLock(phone)
    BY <2>1 DEF AirkissLock, Tune
  <2>2. CASE AirkissComplete(phone)
    BY <2>2 DEF AirkissComplete
  <2>3. CASE Decrypt(phone)
    BY <2>3 DEF Decrypt
  <2>4. CASE SetNetwork(phone)
    BY <2>4 DEF SetNetwork, ChecksumRight
  <2> QED
    BY <1>2, <2>1, <2>2, <2>3, <2>4 DEF AirkissPacket, Followup
<1>3. ASSUME NEW phone \in Phones, FirstFrame(phone)
      PROVE  Owning'
  BY <1>3, RadioAssumption DEF FirstFrame, Frame
<1>4. ASSUME NEW phone \in Phones, NEW number \in {1, 2}, Preamble(phone, number)
      PROVE  Owning'
  BY <1>4 DEF Preamble, Tune, Frame
<1>5. ASSUME NEW phone \in Phones, NEW index \in Indices, Data(phone, index)
      PROVE  Owning'
  <2>1. CASE step = "recv_data"
    <3>1. step' \in {"recv_data", "decrypt"} /\ router' = router /\ source' = source
      BY <1>5, <2>1 DEF Data
    <3> QED
      BY <2>1, <3>1
  <2>2. CASE step = "start"
    <3>1. /\ step' = "recv_data" /\ received' = {} /\ router' = phone /\ source' = source
          /\ source = phone /\ phone \notin Airkiss
      BY <1>5, <2>2 DEF Data, Tune, Frame
    <3> QED
      BY <3>1
  <2> QED
    BY <1>5, <2>1, <2>2 DEF Data
<1> QED
  BY <1>1, <1>2, <1>3, <1>4, <1>5 DEF Next

\* A step that changes nothing of what the owner sees of it.
Unseen == UNCHANGED <<Stage, Whole, Network>>

LEMMA UdpInTurn ==
  ASSUME InTurn, Notify
  PROVE  InTurn'
BY DEF InTurn, Notify, vars

LEMMA ListenInTurn ==
  ASSUME InTurn, Ending, Next, UNCHANGED udp
  PROVE  InTurn'
<1>1. outcome # "none" => outcome' # "none"
  <2> SUFFICES ASSUME outcome # "none" PROVE outcome' # "none"
    OBVIOUS
  <2>1. ~sniffing
    BY DEF Ending
  <2>2. CASE TimerStep
    BY <2>2 DEF TimerStep, HopTimerFires, GiveUp, CheckStep, SwitchChannel, ApConfig
  <2> QED
    BY <2>1, <2>2 DEF Next, ProbeRequest, AirkissPacket, AirkissLock, AirkissComplete,
       FirstFrame, Followup, Decrypt, SetNetwork, Preamble, Data, Frame, Hears
<1> QED
  BY <1>1 DEF InTurn, udp

\* The UDP loop: an acknowledgement, a reset, a crash, or nothing an owner sees.
LEMMA NotifyEnrols ==
  ASSUME Udp!TypeOK, Announcing, Notify
  PROVE  Owner!Next \/ Unseen
<1>0. Whole' = Whole /\ Network' = Network /\ outcome' = outcome
  BY DEF Notify, vars, receiver, Whole, Network, Indices
<1> USE DEF Udp!TypeOK, Udp!Never
<1>1. CASE Udp!Start \/ Udp!Leave \/ Udp!Ignore \/ Udp!Configure
  <2>1. /\ at \notin {"reset", "crash"} /\ at' \notin {"reset", "crash"}
        /\ acked' = acked
    BY <1>1 DEF Udp!Start, Udp!Leave, Udp!Ignore, Udp!Configure, Udp!Waits
  <2>2. Stage' = Stage
    BY <1>0, <2>1 DEF Stage
  <2> QED
    BY <1>0, <2>2 DEF Unseen
<1>2. CASE Udp!Acknowledge
  <2>1. at = "top" /\ acked = Udp!Never /\ outcome \in {"station", "ap"}
    BY <1>2 DEF Udp!Acknowledge, Udp!Waits, Announcing, Notify
  <2>2. Stage \in {"joining", "open"}
    BY <2>1 DEF Stage
  <2>3. acked' # Udp!Never /\ at' \in {"send", "crash"}
    BY <1>2 DEF Udp!Acknowledge
  <2>4. Stage' \in {"kept", "spent", "dead"}
    BY <1>0, <2>1, <2>3 DEF Stage
  <2> QED
    BY <1>0, <2>2, <2>4 DEF Owner!Next, Owner!Acknowledge, Owner!Crash
<1>3. CASE Udp!Send
  <2>1. at = "send" /\ acked' = acked /\ outcome \in {"station", "ap"}
    BY <1>3 DEF Udp!Send, Notify
  <2>2. CASE at' = "top"
    <3>1. Stage' = Stage
      BY <1>0, <2>1, <2>2 DEF Stage
    <3> QED
      BY <1>0, <3>1 DEF Unseen
  <2>3. CASE at' = "reset" /\ ~(times > 0)
    <3>1. acked = Udp!Never \/ acked = 0
      BY <2>1, <2>3 DEF Announcing
    <3>2. Stage \in {"joining", "open", "spent"} /\ Stage' = "reset"
      BY <2>1, <2>3, <3>1 DEF Stage
    <3> QED
      BY <1>0, <3>2 DEF Owner!Next, Owner!FactoryReset
  <2> QED
    BY <1>3, <2>2, <2>3 DEF Udp!Send
<1> QED
  BY <1>1, <1>2, <1>3 DEF Notify, Udp!Next, Udp!Round

\* A timer step may open an access point or crash the device.
LEMMA TimerEnrols ==
  ASSUME InTurn, TimerStep \/ ProbeRequest, UNCHANGED udp
  PROVE  Owner!Next \/ Unseen
<1>0. Whole' = Whole /\ Network' = Network
  <2>1. UNCHANGED receiver
    BY DEF TimerStep, HopTimerFires, GiveUp, CheckStep, SwitchChannel, ApConfig, ProbeRequest
  <2> QED
    BY <2>1 DEF receiver, Whole, Network, Indices
<1>1. at' = at /\ acked' = acked
  BY DEF udp
<1>2. CASE outcome' = outcome
  <2>1. Stage' = Stage
    BY <1>1, <1>2 DEF Stage
  <2> QED
    BY <1>0, <2>1 DEF Unseen
<1>3. CASE outcome' = "crash"
  <2>1. Stage' \in {"dead", "reset"} /\ (Stage' = "reset" <=> Stage = "reset")
    BY <1>1, <1>3 DEF Stage
  <2> QED
    BY <1>0, <2>1 DEF Unseen, Owner!Next, Owner!Crash
<1>4. CASE ApConfig
  <2>1. outcome # "crash" /\ outcome' = "ap"
    BY <1>4 DEF ApConfig
  <2>2. CASE at \in {"reset", "crash"} \/ acked # Udp!Never
    <3>1. Stage' = Stage
      BY <1>1, <2>1, <2>2 DEF Stage
    <3> QED
      BY <1>0, <3>1 DEF Unseen
  <2>3. CASE at \notin {"reset", "crash"} /\ acked = Udp!Never
    <3>1. Stage \in {"listening", "joining", "open"} /\ Stage' = "open"
      BY <1>1, <2>1, <2>3 DEF Stage
    <3> QED
      BY <1>0, <3>1 DEF Unseen, Owner!Next, Owner!OpenAp
  <2> QED
    BY <2>2, <2>3
<1> QED
  BY <1>2, <1>3, <1>4 DEF TimerStep, HopTimerFires, GiveUp, CheckStep, SwitchChannel,
     ProbeRequest

\* A packet may complete a phone's data, or let the device join its network.
LEMMA PacketEnrols ==
  ASSUME Sets, Ending, InTurn, Owning, UNCHANGED udp, NEW phone \in Phones, Hears(phone)
  PROVE  /\ AirkissPacket(phone) => Owner!Next \/ Unseen
         /\ FirstFrame(phone) => Owner!Next \/ Unseen
         /\ Followup(phone) => Owner!Next \/ Unseen
         /\ \A number \in {1, 2} : Preamble(phone, number) => Owner!Next \/ Unseen
         /\ \A index \in Indices : Data(phone, index) => Owner!Next \/ Unseen
<1>0. /\ Stage = "listening" /\ outcome = "none" /\ step \notin {"exit", "done"}
      /\ Network = Nobody /\ Whole = IF received = Indices THEN {source} ELSE {}
  BY Listening
<1>1. at' = at /\ acked' = acked /\ at = "out" /\ acked = Udp!Never
  BY <1>0 DEF udp, InTurn
\* As long as the device does not join, it only collects.
<1>2. ASSUME outcome' = outcome, step' \notin {"exit", "done"},
             Whole' = Whole \/ (Whole = {} /\ Whole' = {source} /\ source \in Phones \ Airkiss)
      PROVE  Owner!Next \/ Unseen
  <2>1. Stage' = Stage /\ Network' = Network
    BY <1>0, <1>1, <1>2 DEF Stage, Network
  <2> QED
    BY <1>0, <1>2, <2>1 DEF Unseen, Owner!Next, Owner!Collect
\* ... and nothing new if what is received is as before.
<1>3. ASSUME outcome' = outcome, step' \notin {"exit", "done"},
             UNCHANGED <<received, source>> \/ (received # Indices /\ received' # Indices)
      PROVE  Owner!Next \/ Unseen
  <2>1. Whole' = Whole
    BY <1>0, <1>3 DEF Whole, Indices
  <2> QED
    BY <1>2, <1>3, <2>1
\* To join ends the listening.
<1>4. ASSUME outcome' = "station", step' \in {"exit", "done"}, router' = phone,
             \/ phone \in Whole /\ Whole' = Whole
             \/ phone \in Airkiss /\ Whole' = Whole \cup {phone}
      PROVE  Owner!Next
  <2>1. Stage' = "joining" /\ Network' = phone
    BY <1>1, <1>4 DEF Stage, Network
  <2>2. Owner!Join(phone)
    BY <1>0, <1>4, <2>1 DEF Owner!Join
  <2> QED
    BY <2>2 DEF Owner!Next
<1>5. ASSUME AirkissPacket(phone)
      PROVE  Owner!Next \/ Unseen
  <2>1. CASE AirkissLock(phone)
    BY <1>3, <2>1 DEF AirkissLock
  <2>2. CASE AirkissComplete(phone)
    <3>1. /\ router = phone /\ router' = phone /\ step = "airkiss" /\ step' = "done"
          /\ outcome' = "station" /\ received' = received /\ source' = source
      BY <2>2 DEF AirkissComplete, ConnectToAp
    <3>2. phone \in Airkiss
      BY <3>1 DEF Owning
    <3>3. Whole' = Whole \cup {phone}
      BY <1>0, <3>1 DEF Whole, Indices
    <3> QED
      BY <1>4, <3>1, <3>2, <3>3
  <2> QED
    BY <1>5, <2>1, <2>2 DEF AirkissPacket
<1>6. ASSUME FirstFrame(phone)
      PROVE  Owner!Next \/ Unseen
  <2>1. source = Nobody /\ received' = received /\ outcome' = outcome /\ step' = step
    BY <1>6 DEF FirstFrame
  <2>2. received # Indices
    BY <2>1, IndicesThere, RadioAssumption DEF Owning
  <2> QED
    BY <1>0, <1>3, <2>1, <2>2
<1>7. ASSUME Followup(phone)
      PROVE  Owner!Next \/ Unseen
  <2>1. CASE Decrypt(phone)
    BY <1>3, <2>1 DEF Decrypt, hopper
  <2>2. CASE SetNetwork(phone) /\ ~ChecksumRight
    BY <1>3, <2>2 DEF SetNetwork
  <2>3. CASE SetNetwork(phone) /\ ChecksumRight
    <3>1. /\ step = "set_network" /\ step' = "exit" /\ outcome' = "station"
          /\ source = phone /\ UNCHANGED <<source, router, received>> /\ received = Indices
      BY <2>3 DEF SetNetwork, ConnectToAp, ChecksumRight
    <3>2. router' = phone
      BY <3>1 DEF Owning
    <3>3. phone \in Whole /\ Whole' = Whole
      BY <1>0, <3>1 DEF Whole, Indices
    <3> QED
      BY <1>4, <3>1, <3>2, <3>3
  <2> QED
    BY <1>7, <2>1, <2>2, <2>3 DEF Followup
<1>8. ASSUME NEW number \in {1, 2}, Preamble(phone, number)
      PROVE  Owner!Next \/ Unseen
  <2>1. step = "start" /\ outcome' = outcome /\ source' = source
    BY <1>8 DEF Preamble
  <2>2. \/ step' = step /\ received' = received
        \/ step' = "recv_data" /\ received' = {}
    BY <1>8 DEF Preamble
  <2> QED
    BY <1>3, <2>1, <2>2, IndicesThere DEF Owning
<1>9. ASSUME NEW index \in Indices, Data(phone, index)
      PROVE  Owner!Next \/ Unseen
  <2>1. /\ outcome' = outcome /\ source' = source
        /\ step \in {"start", "recv_data"} /\ step' \in {"recv_data", "decrypt"}
    BY <1>9 DEF Data
  <2>2. CASE step = "start"
    <3>1. received' = {}
      BY <1>9, <2>2 DEF Data
    <3> QED
      BY <1>3, <2>1, <2>2, <3>1, IndicesThere DEF Owning
  <2>3. CASE step = "recv_data"
    <3>1. received' = received \/ received' = received \cup {index}
      BY <1>9, <2>3 DEF Data
    <3>2. CASE received = Indices
      BY <1>3, <2>1, <3>1, <3>2
    <3>3. CASE received # Indices /\ received' # Indices
      BY <1>3, <2>1, <3>3
    <3>4. CASE received # Indices /\ received' = Indices
      <4>1. Whole = {} /\ Whole' = {source}
        BY <1>0, <2>1, <3>4 DEF Whole, Indices
      <4>2. source \in Phones \ Airkiss
        BY <2>3 DEF Owning
      <4> QED
        BY <1>2, <2>1, <4>1, <4>2
    <3> QED
      BY <3>2, <3>3, <3>4
  <2> QED
    BY <2>1, <2>2, <2>3
<1> QED
  BY <1>5, <1>6, <1>7, <1>8, <1>9

\* A packet of a phone is one that the device hears.
LEMMA PacketHeard ==
  ASSUME Next
  PROVE  \/ TimerStep \/ ProbeRequest
         \/ \E phone \in Phones :
              /\ Hears(phone)
              /\ \/ AirkissPacket(phone) \/ FirstFrame(phone) \/ Followup(phone)
                 \/ \E number \in {1, 2} : Preamble(phone, number)
                 \/ \E index \in Indices : Data(phone, index)
BY DEF Next, AirkissPacket, AirkissLock, AirkissComplete, FirstFrame, Followup, Decrypt,
   SetNetwork, Preamble, Data, Frame

\* Every step of listening and announcing is one that the owner of the device is
\* promised, or one that shows nothing.
THEOREM Enrols == OnboardingSpec => EnrolsAsPromised
<1> DEFINE EnrolInv == OnboardingInv /\ Ending /\ Owning /\ InTurn
<1>1. OnboardingInit => EnrolInv /\ Owner!Init
  <2> SUFFICES ASSUME OnboardingInit PROVE EnrolInv /\ Owner!Init
    OBVIOUS
  <2>1. OnboardingInv
    BY InitListening, InitUdp DEF OnboardingInit, OnboardingInv
  <2>2. Ending /\ Owning /\ InTurn
    BY IndicesThere DEF OnboardingInit, Init, Udp!Init, Ending, Owning, InTurn
  <2>3. Owner!Init
    BY IndicesThere DEF OnboardingInit, Init, Udp!Init, Owner!Init, Stage, Whole, Network
  <2> QED
    BY <2>1, <2>2, <2>3
<1>2. ASSUME EnrolInv, [OnboardingNext]_<<vars, udp>>
      PROVE  Ending' /\ Owning' /\ InTurn' /\ [Owner!Next]_(Owner!vars)
  <2>0. Sets
    BY <1>2, TypeParts DEF OnboardingInv
  <2>1. [Next]_vars
    BY <1>2 DEF OnboardingNext, Listen, Notify
  <2>2. Ending' /\ Owning'
    BY <1>2, <2>1, StepEnding, StepOwning
  <2>3. CASE Listen
    <3>1. InTurn'
      BY <1>2, <2>3, ListenInTurn DEF Listen
    <3>2. Owner!Next \/ Unseen
      BY <1>2, <2>0, <2>3, PacketHeard, TimerEnrols, PacketEnrols DEF Listen
    <3> QED
      BY <2>2, <3>1, <3>2 DEF Unseen, Owner!vars
  <2>4. CASE Notify
    <3>1. Owner!Next \/ Unseen
      BY <1>2, <2>4, NotifyEnrols DEF OnboardingInv
    <3> QED
      BY <1>2, <2>2, <2>4, <3>1, UdpInTurn DEF Unseen, Owner!vars
  <2>5. CASE UNCHANGED <<vars, udp>>
    BY <1>2, <2>2, <2>5
       DEF vars, receiver, udp, InTurn, Owner!vars, Stage, Whole, Network, Indices
  <2> QED
    BY <1>2, <2>3, <2>4, <2>5 DEF OnboardingNext
<1> QED
  BY <1>1, <1>2, OnboardingInvariant, PTL DEF OnboardingSpec, EnrolsAsPromised, Owner!Spec

-----------------------------------------------------------------------------
(* What the promise is worth: consequences of Enrolment that hold for the  *)
(* device because it implements it.                                        *)

OwnerInv == /\ Stage = "listening" => Network = Nobody
            /\ Network # Nobody => Network \in Whole

LEMMA OwnerInductive ==
  /\ Owner!Init => OwnerInv
  /\ OwnerInv /\ [Owner!Next]_(Owner!vars) => OwnerInv'
<1>1. Owner!Init => OwnerInv
  BY DEF Owner!Init, OwnerInv
<1>2. ASSUME OwnerInv, [Owner!Next]_(Owner!vars)
      PROVE  OwnerInv'
  BY <1>2 DEF OwnerInv, Owner!vars, Owner!Next, Owner!Collect, Owner!OpenAp, Owner!Acknowledge,
     Owner!FactoryReset, Owner!Crash, Owner!Join
<1> QED
  BY <1>1, <1>2

\* The network a device has joined is always that of a phone whose data it has in
\* full (set_network, airkiss_finish).
THEOREM JoinedIsWhole == OnboardingSpec => [](Network # Nobody => Network \in Whole)
<1>1. OwnerInv => (Network # Nobody => Network \in Whole)
  BY DEF OwnerInv
<1> QED
  BY <1>1, Enrols, OwnerInductive, PTL DEF EnrolsAsPromised, Owner!Spec

\* A device that has joined a network stays with it: no packet of any phone and no
\* late hop makes it take another (connect_to_ap, on_recv_wifi_promiscuous_pkt).
THEOREM JoinsForGood ==
  OnboardingSpec => [][Network # Nobody => Network' = Network]_(Owner!vars)
<1>1. ASSUME OwnerInv, [Owner!Next]_(Owner!vars), Network # Nobody
      PROVE  Network' = Network
  BY <1>1 DEF OwnerInv, Owner!vars, Owner!Next, Owner!Collect, Owner!OpenAp, Owner!Acknowledge,
     Owner!FactoryReset, Owner!Crash, Owner!Join
<1>2. OwnerInv /\ [Owner!Next]_(Owner!vars)
      => [Network # Nobody => Network' = Network]_(Owner!vars)
  BY <1>1
<1> QED
  BY <1>2, Enrols, OwnerInductive, PTL DEF EnrolsAsPromised, Owner!Spec

\* A device acknowledged with announcements left is never reset by the UDP loop,
\* whatever comes after: it keeps its configuration or crashes
\* (onbd_mgmt_udp_handler_start, onbd_mgmt_active_udp_send).
THEOREM KeptForGood ==
  OnboardingSpec => [][Stage = "kept" => Stage' \in {"kept", "dead"}]_(Owner!vars)
<1>1. ASSUME [Owner!Next]_(Owner!vars), Stage = "kept"
      PROVE  Stage' \in {"kept", "dead"}
  BY <1>1 DEF Owner!vars, Owner!Next, Owner!Collect, Owner!OpenAp, Owner!Acknowledge,
     Owner!FactoryReset, Owner!Crash, Owner!Join
<1>2. [Owner!Next]_(Owner!vars)
      => [Stage = "kept" => Stage' \in {"kept", "dead"}]_(Owner!vars)
  BY <1>1
<1> QED
  BY <1>2, Enrols, PTL DEF EnrolsAsPromised, Owner!Spec
=============================================================================
