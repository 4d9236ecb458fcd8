---------------------------- MODULE UartLinkProofs ----------------------------
(***************************************************************************)
(* Proofs about UartLink, for any number of calls and attempts and any     *)
(* length of the two queues.                                               *)
(***************************************************************************)
EXTENDS UartLink, TLAPS

-----------------------------------------------------------------------------
(* Queues.                                                                 *)

LEMMA AppendFacts ==
  ASSUME NEW S, NEW s \in Seq(S), NEW e \in S
  PROVE  /\ Append(s, e) \in Seq(S) /\ Len(s) \in Nat
         /\ Len(Append(s, e)) = Len(s) + 1
         /\ \A i \in 1..(Len(s) + 1) :
              \/ i \in 1..Len(s) /\ Append(s, e)[i] = s[i]
              \/ i = Len(s) + 1 /\ Append(s, e)[i] = e
OBVIOUS

LEMMA TailFacts ==
  ASSUME NEW S, NEW s \in Seq(S), s # <<>>
  PROVE  /\ Tail(s) \in Seq(S) /\ Len(s) \in Nat \ {0} /\ Len(Tail(s)) = Len(s) - 1
         /\ Head(s) = s[1] /\ s[1] \in S
         /\ \A i \in 1..Len(Tail(s)) : i + 1 \in 1..Len(s) /\ Tail(s)[i] = s[i + 1]
OBVIOUS

LEMMA PutFacts ==
  ASSUME NEW S, NEW q \in Seq(S), NEW e \in S, NEW len \in Nat, Len(q) <= len
  PROVE  /\ Put(q, e, len) \in Seq(S) /\ Len(Put(q, e, len)) <= len
         /\ \A i \in 1..Len(Put(q, e, len)) :
              \/ i \in 1..Len(q) /\ Put(q, e, len)[i] = q[i]
              \/ i = Len(q) + 1 /\ Put(q, e, len)[i] = e
BY AppendFacts DEF Put

-----------------------------------------------------------------------------
(* The caller: an answer it has kept from an earlier attempt is no good,   *)
(* and an attempt is left as long as it is about to send.                  *)

Calling ==
  /\ pc # "idle" => request > 0 /\ ~frame.intact
  /\ pc = "send" => send_times < ResendTimes

Base == TypeOK /\ Calling

LEMMA FrameTypes ==
  /\ ~NoFrame.intact
  /\ \A f \in Frames \cup {NoFrame} : f.req \in 0..MaxCalls /\ f.intact \in BOOLEAN
  /\ [op |-> "event", req |-> 0, seq |-> 0, intact |-> TRUE] \in Frames
  /\ \A n \in 0..MaxCalls, intact \in BOOLEAN, seq \in {0, 1} :
       [op |-> "ack", req |-> n, seq |-> seq, intact |-> intact] \in Frames
<1>1. 0 \in 0..MaxCalls
  BY UartAssumption
<1>2. NoFrame.intact = FALSE /\ NoFrame.req = 0
  BY DEF NoFrame
<1>3. \A f \in Frames : f.req \in 0..MaxCalls /\ f.intact \in BOOLEAN
  BY DEF Frames
<1>4. [op |-> "event", req |-> 0, seq |-> 0, intact |-> TRUE] \in Frames
  BY <1>1 DEF Frames
<1>5. \A n \in 0..MaxCalls, intact \in BOOLEAN, seq \in {0, 1} :
       [op |-> "ack", req |-> n, seq |-> seq, intact |-> intact] \in Frames
  BY DEF Frames
<1> QED
  BY <1>1, <1>2, <1>3, <1>4, <1>5

LEMMA InitBase == Init => Base
BY UartAssumption DEF Init, Base, TypeOK, Calling, NoFrame

LEMMA JudgeBase ==
  ASSUME Base, NEW received \in Frames \cup {NoFrame}, Judge(received), pc = "wait",
         uart_rsp_q' \in Seq(Frames), Len(uart_rsp_q') <= RspQueueLen
  PROVE  Base'
<1>1. received.req \in 0..MaxCalls /\ received.intact \in BOOLEAN
  BY FrameTypes
<1>2. TypeOK'
  BY <1>1 DEF Base, TypeOK, Judge
<1>3. Calling'
  BY <1>1, UartAssumption DEF Base, Calling, TypeOK, Judge, AttemptsLeft
<1> QED BY <1>2, <1>3 DEF Base

LEMMA StepBase ==
  ASSUME Base, [Next]_vars
  PROVE  Base'
<1>0. /\ TypeOK /\ Calling
      /\ peer \in Seq(1..MaxCalls) /\ xQueueCusUart \in Seq(Frames) /\ uart_rsp_q \in Seq(Frames)
  BY DEF Base, TypeOK
<1>1. CASE Call
  <2>1. TypeOK'
    BY <1>0, <1>1, UartAssumption DEF Call, TypeOK
  <2>2. Calling'
    BY <1>0, <1>1, UartAssumption, FrameTypes DEF Call, TypeOK, Calling
  <2> QED BY <2>1, <2>2 DEF Base
<1>2. CASE Send
  <2>1. request \in 1..MaxCalls
    BY <1>0, <1>2 DEF Send, TypeOK, Calling
  <2>2. peer' \in Seq(1..MaxCalls)
    <3>1. Append(peer, request) \in Seq(1..MaxCalls)
      BY <1>0, <2>1, AppendFacts
    <3> QED
      BY <1>0, <1>2, <3>1 DEF Send
  <2>3. TypeOK'
    BY <1>0, <1>2, <2>2, UartAssumption DEF Send, TypeOK, Calling
  <2>4. Calling'
    BY <1>0, <1>2 DEF Send, Calling
  <2> QED BY <2>3, <2>4 DEF Base
<1>3. CASE Receive
  <2>1. /\ Head(uart_rsp_q) \in Frames /\ uart_rsp_q' \in Seq(Frames)
        /\ Len(uart_rsp_q') <= RspQueueLen
    BY <1>0, <1>3, TailFacts, UartAssumption DEF Receive, TypeOK
  <2> QED
    BY <1>3, <2>1, JudgeBase DEF Receive
<1>4. CASE Timeout
  BY <1>0, <1>4, JudgeBase DEF Timeout, TypeOK
<1>5. CASE RxProcess
  <2>1. /\ Head(xQueueCusUart) \in Frames /\ xQueueCusUart' \in Seq(Frames)
        /\ Len(xQueueCusUart') <= UartQueueLen
    BY <1>0, <1>5, TailFacts, UartAssumption DEF RxProcess, TypeOK
  <2>2. uart_rsp_q' \in Seq(Frames) /\ Len(uart_rsp_q') <= RspQueueLen
    BY <1>0, <1>5, <2>1, PutFacts, UartAssumption DEF RxProcess, TypeOK
  <2> QED
    BY <1>0, <1>5, <2>1, <2>2 DEF RxProcess, caller, Base, TypeOK, Calling
<1>6. ASSUME NEW received \in Frames, Interrupt(received)
      PROVE  xQueueCusUart' \in Seq(Frames) /\ Len(xQueueCusUart') <= UartQueueLen
  BY <1>0, <1>6, PutFacts, UartAssumption DEF Interrupt, TypeOK
<1>7. CASE PeerAnswers
  <2>1. Head(peer) \in 0..MaxCalls /\ peer' \in Seq(1..MaxCalls)
    <3>1. peer # <<>> /\ peer' = Tail(peer)
      BY <1>7 DEF PeerAnswers
    <3>2. Tail(peer) \in Seq(1..MaxCalls) /\ Head(peer) \in 1..MaxCalls
      <4> DEFINE S == 1..MaxCalls
      <4>1. peer \in Seq(S)
        BY <1>0
      <4> HIDE DEF S
      <4>2. Tail(peer) \in Seq(S) /\ Head(peer) \in S
        BY <3>1, <4>1, TailFacts
      <4> QED BY <4>2 DEF S
    <3> QED
      BY <3>1, <3>2, UartAssumption
  <2>2. xQueueCusUart' \in Seq(Frames) /\ Len(xQueueCusUart') <= UartQueueLen
    BY <1>0, <1>6, <1>7, <2>1, FrameTypes DEF PeerAnswers, TypeOK
  <2> QED
    BY <1>0, <1>7, <2>1, <2>2 DEF PeerAnswers, caller, Base, TypeOK, Calling
<1>8. CASE PeerEvent
  <2>1. xQueueCusUart' \in Seq(Frames) /\ Len(xQueueCusUart') <= UartQueueLen
    BY <1>6, <1>8, FrameTypes DEF PeerEvent
  <2> QED
    BY <1>0, <1>8, <2>1 DEF PeerEvent, caller, Base, TypeOK, Calling
<1>9. CASE UNCHANGED vars
  BY <1>0, <1>9 DEF vars, caller, Base, TypeOK, Calling
<1> QED
  BY <1>1, <1>2, <1>3, <1>4, <1>5, <1>7, <1>8, <1>9 DEF Next

\* Every variable keeps its type, and no queue outgrows its length.
THEOREM UartTyped == Spec => []TypeOK
<1>1. Base => TypeOK
  BY DEF Base
<1> QED
  BY <1>1, InitBase, StepBase, PTL DEF Spec
-----------------------------------------------------------------------------
(* A microcontroller that is in time: the wait ends only when nothing is   *)
(* under way any more, so that one answer at most is, to the last request. *)

NoAck(queue) == \A i \in 1..Len(queue) : queue[i].op # "ack"

Nothing  == peer = <<>> /\ NoAck(xQueueCusUart) /\ uart_rsp_q = <<>>
AtPeer   == /\ Len(peer) = 1 /\ peer[1] = request
            /\ NoAck(xQueueCusUart) /\ uart_rsp_q = <<>>
InQueue  == /\ peer = <<>> /\ uart_rsp_q = <<>>
            /\ \E i \in 1..Len(xQueueCusUart) :
                  /\ xQueueCusUart[i].req = request
                  /\ \A j \in 1..Len(xQueueCusUart) : j # i => xQueueCusUart[j].op # "ack"
ForCaller == /\ peer = <<>> /\ NoAck(xQueueCusUart)
             /\ Len(uart_rsp_q) = 1 /\ uart_rsp_q[1].req = request

OneInFlight == timely => Nothing \/ (pc = "wait" /\ (AtPeer \/ InQueue \/ ForCaller))

LEMMA StepInFlight ==
  ASSUME Base, OneInFlight, [Next]_vars
  PROVE  OneInFlight'
<1>0. /\ Calling /\ timely \in BOOLEAN
      /\ peer \in Seq(1..MaxCalls) /\ xQueueCusUart \in Seq(Frames) /\ uart_rsp_q \in Seq(Frames)
      /\ Len(uart_rsp_q) <= RspQueueLen /\ Len(xQueueCusUart) <= UartQueueLen
  BY DEF Base, TypeOK
<1>1. SUFFICES ASSUME timely' PROVE OneInFlight'
  BY DEF OneInFlight
<1>2. timely
  BY <1>1 DEF Next, Call, Send, Receive, Timeout, Judge, RxProcess, PeerAnswers, PeerEvent, vars
<1> USE <1>2 DEF OneInFlight
<1>3. CASE Call
  BY <1>3 DEF Call, Nothing
<1>4. CASE Send
  <2>1. Nothing
    BY <1>4 DEF Send
  <2>2. pc' = "wait" /\ UNCHANGED <<request, xQueueCusUart, uart_rsp_q>>
    BY <1>4 DEF Send
  <2>3. CASE peer' = peer
    BY <2>1, <2>2, <2>3 DEF Nothing
  <2>4. CASE peer' = Append(peer, request)
    <3>1. Len(peer') = 1 /\ peer'[1] = request
      BY <2>1, <2>4 DEF Nothing
    <3> QED
      BY <2>1, <2>2, <3>1 DEF Nothing, AtPeer
  <2> QED
    BY <1>4, <2>3, <2>4 DEF Send
<1>5. CASE Receive
  <2>1. ForCaller
    BY <1>5 DEF Receive, Nothing, AtPeer, InQueue
  <2>2. uart_rsp_q' = <<>>
    BY <1>0, <1>5, <2>1 DEF Receive, ForCaller
  <2> QED
    BY <1>5, <2>1, <2>2 DEF Receive, Judge, ForCaller, Nothing
<1>6. CASE Timeout
  BY <1>0, <1>6 DEF Timeout, Judge, OnItsWay, Nothing, NoAck
<1>7. CASE RxProcess
  <2> DEFINE received == Head(xQueueCusUart)
  <2>1. /\ xQueueCusUart' = Tail(xQueueCusUart) /\ UNCHANGED <<pc, request, peer>>
        /\ uart_rsp_q' = IF received.op = "ack" /\ received.seq = uart_msg_seq
                         THEN Put(uart_rsp_q, received, RspQueueLen) ELSE uart_rsp_q
    BY <1>7 DEF RxProcess, caller
  <2>2. /\ received = xQueueCusUart[1] /\ 1 \in 1..Len(xQueueCusUart) /\ received \in Frames
        /\ \A i \in 1..Len(xQueueCusUart') :
             i + 1 \in 1..Len(xQueueCusUart) /\ xQueueCusUart'[i] = xQueueCusUart[i + 1]
    BY <1>0, <1>7, <2>1, TailFacts DEF RxProcess
  <2>3. Len(xQueueCusUart') = Len(xQueueCusUart) - 1 /\ Len(xQueueCusUart) \in Nat
    BY <1>0, <1>7, <2>1, TailFacts DEF RxProcess
  <2> HIDE DEF received
  <2>4. CASE NoAck(xQueueCusUart)
    <3>1. NoAck(xQueueCusUart') /\ uart_rsp_q' = uart_rsp_q
      BY <2>1, <2>2, <2>4 DEF NoAck
    <3> QED
      BY <2>1, <2>2, <2>4, <3>1 DEF Nothing, AtPeer, InQueue, ForCaller, NoAck
  <2>5. CASE InQueue /\ pc = "wait"
    <3>1. PICK i \in 1..Len(xQueueCusUart) :
                  /\ xQueueCusUart[i].req = request
                  /\ \A j \in 1..Len(xQueueCusUart) : j # i => xQueueCusUart[j].op # "ack"
      BY <2>5 DEF InQueue
    <3>2. CASE i = 1
      <4>1. NoAck(xQueueCusUart')
        <5> SUFFICES ASSUME NEW j \in 1..Len(xQueueCusUart')
                     PROVE  xQueueCusUart'[j].op # "ack"
          BY DEF NoAck
        <5>1. j + 1 \in 1..Len(xQueueCusUart) /\ j + 1 # 1
          BY <2>2
        <5> QED BY <2>2, <3>1, <3>2, <5>1
      <4>2. uart_rsp_q' = <<>> \/ (Len(uart_rsp_q') = 1 /\ uart_rsp_q'[1] = received)
        BY <2>1, <2>5 DEF InQueue, Put
      <4> QED
        BY <2>1, <2>2, <2>5, <3>1, <3>2, <4>1, <4>2 DEF InQueue, Nothing, ForCaller
    <3>3. CASE i # 1
      <4>1. uart_rsp_q' = uart_rsp_q
        BY <2>1, <2>2, <3>1, <3>3
      <4>2. i - 1 \in 1..Len(xQueueCusUart')
        BY <2>3, <3>1, <3>3
      <4>3. xQueueCusUart'[i - 1].req = request
        BY <2>2, <3>1, <4>2
      <4>4. ASSUME NEW j \in 1..Len(xQueueCusUart'), j # i - 1
            PROVE  xQueueCusUart'[j].op # "ack"
        <5>1. j + 1 # i /\ j + 1 \in 1..Len(xQueueCusUart)
          BY <2>2, <3>1, <4>4
        <5> QED BY <2>2, <3>1, <5>1
      <4> QED
        BY <2>1, <2>5, <4>1, <4>2, <4>3, <4>4 DEF InQueue
    <3> QED BY <3>2, <3>3
  <2> QED
    BY <2>4, <2>5 DEF Nothing, AtPeer, ForCaller
<1>8. CASE PeerAnswers
  <2>1. AtPeer /\ pc = "wait"
    BY <1>8 DEF PeerAnswers, Nothing, InQueue, ForCaller
  <2>2. peer' = <<>> /\ Head(peer) = request /\ UNCHANGED <<pc, request, uart_rsp_q>>
    BY <1>0, <1>8, <2>1 DEF PeerAnswers, AtPeer, caller
  <2>3. CASE xQueueCusUart' = xQueueCusUart
    BY <2>1, <2>2, <2>3 DEF AtPeer, Nothing
  <2>4. ASSUME NEW f \in Frames, f.req = request, Interrupt(f)
        PROVE  InQueue' \/ Nothing'
    <3>1. CASE Len(xQueueCusUart) < UartQueueLen
      <4> DEFINE l == Len(xQueueCusUart)
      <4>1. /\ xQueueCusUart' = Append(xQueueCusUart, f) /\ l \in Nat
            /\ Len(xQueueCusUart') = l + 1
            /\ \A i \in 1..(l + 1) : \/ i \in 1..l /\ xQueueCusUart'[i] = xQueueCusUart[i]
                                     \/ i = l + 1 /\ xQueueCusUart'[i] = f
        BY <1>0, <2>4, <3>1, AppendFacts DEF Interrupt, Put
      <4>2. NoAck(xQueueCusUart)
        BY <2>1 DEF AtPeer
      <4> HIDE DEF l
      <4>3. \A j \in 1..Len(xQueueCusUart') : j # l + 1 => xQueueCusUart'[j].op # "ack"
        BY <4>1, <4>2 DEF NoAck, l
      <4>4. l + 1 \in 1..Len(xQueueCusUart') /\ xQueueCusUart'[l + 1] = f
        BY <4>1
      <4> QED
        BY <2>1, <2>2, <2>4, <4>3, <4>4 DEF InQueue, AtPeer
    <3>2. CASE ~(Len(xQueueCusUart) < UartQueueLen)
      BY <2>1, <2>2, <2>4, <3>2 DEF Interrupt, Put, AtPeer, Nothing
    <3> QED BY <3>1, <3>2
  <2>5. Head(peer) \in 0..MaxCalls
    <3>1. request \in 0..MaxCalls
      BY DEF Base, TypeOK
    <3> QED BY <2>2, <3>1
  <2> QED
    BY <1>8, <2>1, <2>2, <2>3, <2>4, <2>5, FrameTypes DEF PeerAnswers
<1>9. CASE PeerEvent
  <2> DEFINE f == [op |-> "event", req |-> 0, seq |-> 0, intact |-> TRUE]
             l == Len(xQueueCusUart)
  <2>1. f \in Frames /\ f.op = "event" /\ l \in Nat
    BY <1>0, FrameTypes
  <2>2. UNCHANGED <<pc, request, peer, uart_rsp_q>> /\ xQueueCusUart' = Put(xQueueCusUart, f, UartQueueLen)
    BY <1>9 DEF PeerEvent, Interrupt, caller
  <2> HIDE DEF f
  <2>3. /\ \A i \in 1..Len(xQueueCusUart') :
             (i \in 1..l /\ xQueueCusUart'[i] = xQueueCusUart[i]) \/ xQueueCusUart'[i] = f
        /\ \A i \in 1..l : i \in 1..Len(xQueueCusUart') /\ xQueueCusUart'[i] = xQueueCusUart[i]
    <3>1. CASE l < UartQueueLen
      BY <1>0, <2>1, <2>2, <3>1, AppendFacts DEF Put
    <3>2. CASE ~(l < UartQueueLen)
      BY <2>2, <3>2 DEF Put
    <3> QED BY <3>1, <3>2
  <2> HIDE DEF l
  <2>4. NoAck(xQueueCusUart) => NoAck(xQueueCusUart')
    BY <2>1, <2>3 DEF NoAck, l
  <2>5. InQueue => InQueue'
    BY <2>1, <2>2, <2>3 DEF InQueue, l
  <2> QED
    BY <2>2, <2>4, <2>5 DEF Nothing, AtPeer, ForCaller
<1>10. CASE UNCHANGED vars
  BY <1>10 DEF vars, caller, Nothing, AtPeer, InQueue, ForCaller
<1> QED
  BY <1>3, <1>4, <1>5, <1>6, <1>7, <1>8, <1>9, <1>10 DEF Next

\* With a microcontroller that answers in time or not at all, a successful call
\* returns the answer to its own request, whatever is lost, damaged or dropped.
THEOREM TimelyMatched == Spec => []TimelyAnswersOwnRequest
<1>1. Init => OneInFlight /\ TimelyAnswersOwnRequest
  BY DEF Init, OneInFlight, Nothing, NoAck, TimelyAnswersOwnRequest, AnswersOwnRequest
<1>2. ASSUME Base, OneInFlight, TimelyAnswersOwnRequest, [Next]_vars
      PROVE  TimelyAnswersOwnRequest'
  <2> USE <1>2 DEF TimelyAnswersOwnRequest, AnswersOwnRequest
  <2>1. CASE Receive
    <3>1. Head(uart_rsp_q) = uart_rsp_q[1] /\ Head(uart_rsp_q).intact \in BOOLEAN
      BY <2>1, TailFacts, FrameTypes DEF Receive, Base, TypeOK
    <3>2. timely => uart_rsp_q[1].req = request
      BY <2>1 DEF Receive, OneInFlight, Nothing, AtPeer, InQueue, ForCaller
    <3> QED
      BY <2>1, <3>1, <3>2 DEF Receive, Judge
  <2>2. CASE Timeout
    BY <2>2 DEF Timeout, Judge, Base, Calling
  <2>3. CASE Call \/ Send
    BY <2>3 DEF Call, Send
  <2>4. CASE UNCHANGED <<caller, timely>>
    BY <2>4 DEF caller
  <2> QED
    BY <2>1, <2>2, <2>3, <2>4 DEF Next, RxProcess, PeerAnswers, PeerEvent, vars
<1> QED
  BY <1>1, <1>2, InitBase, StepBase, StepInFlight, PTL DEF Spec
-----------------------------------------------------------------------------
(* Even a microcontroller that is late answers in turn: what is under way  *)
(* is in the order of the requests, and so are the three places it is in.  *)

\* Numbers, and the numbers of the answers among some frames.
Sorted(s) == \A i, j \in 1..Len(s) : i <= j => s[i] <= s[j]
Within(s, low, high) == \A i \in 1..Len(s) : low <= s[i] /\ s[i] <= high

AcksSorted(q) == \A i, j \in 1..Len(q) :
                   i <= j /\ q[i].op = "ack" /\ q[j].op = "ack" => q[i].req <= q[j].req
AcksWithin(q, low, high) ==
  \A i \in 1..Len(q) : q[i].op = "ack" => low <= q[i].req /\ q[i].req <= high

LEMMA SortedTail ==
  ASSUME NEW s \in Seq(Nat), s # <<>>, Sorted(s), NEW high \in Nat, NEW low \in Nat,
         Within(s, low, high)
  PROVE  /\ Sorted(Tail(s)) /\ Within(Tail(s), s[1], high)
         /\ low <= s[1] /\ s[1] <= high /\ s[1] \in Nat
<1>1. /\ Len(s) \in Nat \ {0} /\ s[1] \in Nat /\ Len(Tail(s)) = Len(s) - 1
      /\ \A i \in 1..Len(Tail(s)) : i + 1 \in 1..Len(s) /\ Tail(s)[i] = s[i + 1]
  BY TailFacts
<1>2. Sorted(Tail(s))
  <2> SUFFICES ASSUME NEW i \in 1..Len(Tail(s)), NEW j \in 1..Len(Tail(s)), i <= j
               PROVE  Tail(s)[i] <= Tail(s)[j]
    BY DEF Sorted
  <2>1. i + 1 \in 1..Len(s) /\ j + 1 \in 1..Len(s) /\ i + 1 <= j + 1
    BY <1>1
  <2>2. s[i + 1] <= s[j + 1]
    BY <2>1 DEF Sorted
  <2> QED BY <1>1, <2>2
<1>3. Within(Tail(s), s[1], high)
  <2> SUFFICES ASSUME NEW i \in 1..Len(Tail(s))
               PROVE  s[1] <= Tail(s)[i] /\ Tail(s)[i] <= high
    BY DEF Within
  <2>1. i + 1 \in 1..Len(s) /\ 1 \in 1..Len(s) /\ 1 <= i + 1
    BY <1>1
  <2>2. s[1] <= s[i + 1] /\ s[i + 1] <= high
    BY <2>1 DEF Sorted, Within
  <2> QED BY <1>1, <2>2
<1>4. low <= s[1] /\ s[1] <= high
  BY <1>1 DEF Within
<1> QED BY <1>1, <1>2, <1>3, <1>4

LEMMA SortedAppend ==
  ASSUME NEW s \in Seq(Nat), Sorted(s), NEW high \in Nat, NEW low \in Nat, low <= high,
         Within(s, low, high)
  PROVE  Sorted(Append(s, high)) /\ Within(Append(s, high), low, high)
<1> DEFINE t == Append(s, high)
           l == Len(s)
<1>1. /\ l \in Nat /\ Len(t) = l + 1
      /\ \A i \in 1..(l + 1) : (i \in 1..l /\ t[i] = s[i]) \/ (i = l + 1 /\ t[i] = high)
  BY AppendFacts
<1>2. \A i \in 1..l : low <= s[i] /\ s[i] <= high
  BY DEF Within
<1>3. \A i, j \in 1..l : i <= j => s[i] <= s[j]
  BY DEF Sorted
<1> HIDE DEF t, l
<1>4. Sorted(t)
  <2> SUFFICES ASSUME NEW i \in 1..Len(t), NEW j \in 1..Len(t), i <= j PROVE t[i] <= t[j]
    BY DEF Sorted
  <2>1. CASE j = l + 1
    BY <1>1, <1>2, <2>1
  <2>2. CASE j # l + 1
    BY <1>1, <1>3, <2>2
  <2> QED BY <2>1, <2>2
<1>5. Within(t, low, high)
  <2> SUFFICES ASSUME NEW i \in 1..Len(t) PROVE low <= t[i] /\ t[i] <= high
    BY DEF Within
  <2>1. (i \in 1..l /\ t[i] = s[i]) \/ (i = l + 1 /\ t[i] = high)
    BY <1>1
  <2> QED BY <1>2, <2>1
<1> QED BY <1>4, <1>5 DEF t

LEMMA AcksTail ==
  ASSUME NEW q \in Seq(Frames), q # <<>>, AcksSorted(q), NEW high, NEW low,
         AcksWithin(q, low, high)
  PROVE  /\ AcksSorted(Tail(q)) /\ AcksWithin(Tail(q), low, high)
         /\ q[1].op = "ack" => /\ AcksWithin(Tail(q), q[1].req, high)
                               /\ low <= q[1].req /\ q[1].req <= high
<1>1. /\ Len(q) \in Nat \ {0}
      /\ \A i \in 1..Len(Tail(q)) : i + 1 \in 1..Len(q) /\ Tail(q)[i] = q[i + 1]
      /\ Len(Tail(q)) = Len(q) - 1
  BY TailFacts
<1>2. AcksSorted(Tail(q))
  <2> SUFFICES ASSUME NEW i \in 1..Len(Tail(q)), NEW j \in 1..Len(Tail(q)),
                      i <= j, Tail(q)[i].op = "ack", Tail(q)[j].op = "ack"
               PROVE  Tail(q)[i].req <= Tail(q)[j].req
    BY DEF AcksSorted
  <2>1. i + 1 \in 1..Len(q) /\ j + 1 \in 1..Len(q) /\ i + 1 <= j + 1
    BY <1>1
  <2>2. q[i + 1].req <= q[j + 1].req
    BY <1>1, <2>1 DEF AcksSorted
  <2> QED BY <1>1, <2>2
<1>3. AcksWithin(Tail(q), low, high)
  BY <1>1 DEF AcksWithin
<1>4. ASSUME q[1].op = "ack"
      PROVE  /\ AcksWithin(Tail(q), q[1].req, high)
             /\ low <= q[1].req /\ q[1].req <= high
  <2>1. ASSUME NEW i \in 1..Len(Tail(q)), Tail(q)[i].op = "ack"
        PROVE  q[1].req <= Tail(q)[i].req /\ Tail(q)[i].req <= high
    <3>1. i + 1 \in 1..Len(q) /\ 1 \in 1..Len(q) /\ 1 <= i + 1 /\ Tail(q)[i] = q[i + 1]
      BY <1>1
    <3>2. q[1].req <= q[i + 1].req /\ q[i + 1].req <= high
      BY <1>4, <2>1, <3>1 DEF AcksSorted, AcksWithin
    <3> QED BY <3>1, <3>2
  <2>2. low <= q[1].req /\ q[1].req <= high
    BY <1>1, <1>4 DEF AcksWithin
  <2> QED BY <2>1, <2>2 DEF AcksWithin
<1> QED BY <1>2, <1>3, <1>4

LEMMA AcksPut ==
  ASSUME NEW q \in Seq(Frames), AcksSorted(q), NEW f \in Frames,
         NEW high \in Nat, NEW low \in Nat, NEW top \in Nat,
         AcksWithin(q, low, high), high <= top,
         f.op = "ack" => low <= f.req /\ high <= f.req /\ f.req <= top, f.req \in Nat,
         NEW len \in Nat, Len(q) <= len
  PROVE  AcksSorted(Put(q, f, len)) /\ AcksWithin(Put(q, f, len), low, top)
<1> DEFINE t == Put(q, f, len)
           l == Len(q)
<1>1. /\ l \in Nat
      /\ \A i \in 1..Len(t) : (i \in 1..l /\ t[i] = q[i]) \/ (i = l + 1 /\ t[i] = f)
      /\ Len(t) \in Nat /\ Len(t) <= l + 1
  BY PutFacts, AppendFacts DEF Put
<1>2. \A i \in 1..l : q[i].op = "ack" => low <= q[i].req /\ q[i].req <= high
  BY DEF AcksWithin
<1>3. \A i, j \in 1..l : i <= j /\ q[i].op = "ack" /\ q[j].op = "ack" => q[i].req <= q[j].req
  BY DEF AcksSorted
<1>4. \A i \in 1..l : q[i].req \in Nat
  BY FrameTypes, UartAssumption
<1> HIDE DEF t, l
<1>5. AcksSorted(t)
  <2> SUFFICES ASSUME NEW i \in 1..Len(t), NEW j \in 1..Len(t), i <= j,
                      t[i].op = "ack", t[j].op = "ack"
               PROVE  t[i].req <= t[j].req
    BY DEF AcksSorted
  <2>i. (i \in 1..l /\ t[i] = q[i]) \/ (i = l + 1 /\ t[i] = f)
    BY <1>1
  <2>j. (j \in 1..l /\ t[j] = q[j]) \/ (j = l + 1 /\ t[j] = f)
    BY <1>1
  <2>1. CASE j \in 1..l /\ t[j] = q[j]
    <3>1. i \in 1..l /\ t[i] = q[i]
      BY <1>1, <2>1, <2>i
    <3> QED BY <1>3, <2>1, <3>1
  <2>2. CASE j = l + 1 /\ t[j] = f /\ i \in 1..l /\ t[i] = q[i]
    <3>1. q[i].req <= high /\ q[i].req \in Nat
      BY <1>2, <1>4, <2>2
    <3>2. high <= f.req
      BY <2>2
    <3>3. \A a, b, c \in Nat : a <= b /\ b <= c => a <= c
      OBVIOUS
    <3>4. q[i].req <= f.req
      BY <3>1, <3>2, <3>3, Zenon
    <3> QED BY <2>2, <3>4
  <2>3. CASE t[j] = f /\ t[i] = f
    BY <2>3
  <2> QED BY <2>1, <2>2, <2>3, <2>i, <2>j
<1>6. AcksWithin(t, low, top)
  <2> SUFFICES ASSUME NEW i \in 1..Len(t), t[i].op = "ack"
               PROVE  low <= t[i].req /\ t[i].req <= top
    BY DEF AcksWithin
  <2>i. (i \in 1..l /\ t[i] = q[i]) \/ t[i] = f
    BY <1>1
  <2>1. CASE i \in 1..l /\ t[i] = q[i]
    <3>1. low <= q[i].req /\ q[i].req <= high /\ q[i].req \in Nat
      BY <1>2, <1>4, <2>1
    <3> QED BY <2>1, <3>1
  <2>2. CASE t[i] = f
    BY <2>2
  <2> QED BY <2>1, <2>2, <2>i
<1> QED BY <1>5, <1>6 DEF t

\* The marks between the three places: no answer for the caller is above m1, and
\* every request that the microcontroller still has is at or above m2.
OnlyAcks(q) == \A i \in 1..Len(q) : q[i].op = "ack"
OrderedAt(m1, m2) ==
  /\ answer <= m1 /\ m1 <= m2 /\ m2 <= request
  /\ OnlyAcks(uart_rsp_q) /\ AcksSorted(uart_rsp_q) /\ AcksWithin(uart_rsp_q, answer, m1)
  /\ AcksSorted(xQueueCusUart) /\ AcksWithin(xQueueCusUart, m1, m2)
  /\ Sorted(peer) /\ Within(peer, m2, request)
Ordered == \E m1, m2 \in Nat : OrderedAt(m1, m2)

LEMMA AcksWiden ==
  ASSUME NEW q \in Seq(Frames), NEW low \in Nat, NEW high \in Nat, NEW top \in Nat,
         AcksWithin(q, low, high), high <= top
  PROVE  AcksWithin(q, low, top)
<1>1. \A i \in 1..Len(q) : q[i].req \in Nat
  BY FrameTypes, UartAssumption
<1> QED BY <1>1 DEF AcksWithin

LEMMA WithinWiden ==
  ASSUME NEW s \in Seq(Nat), NEW low \in Nat, NEW high \in Nat, NEW top \in Nat,
         Within(s, low, high), high <= top
  PROVE  Within(s, low, top)
<1>1. \A i \in 1..Len(s) : s[i] \in Nat
  OBVIOUS
<1> QED BY <1>1 DEF Within

LEMMA InitOrdered == Init => Ordered
<1> SUFFICES ASSUME Init PROVE OrderedAt(0, 0)
  BY DEF Ordered
<1> QED
  BY DEF Init, OrderedAt, OnlyAcks, AcksSorted, AcksWithin, Sorted, Within

\* A step keeps the order, and the answer it may consume is no older than the last.
LEMMA StepOrdered ==
  ASSUME Base, Ordered, [Next]_vars
  PROVE  Ordered' /\ answer' >= answer
<1>0. /\ Calling /\ request \in Nat /\ answer \in Nat /\ peer \in Seq(Nat)
      /\ xQueueCusUart \in Seq(Frames) /\ uart_rsp_q \in Seq(Frames)
      /\ Len(uart_rsp_q) <= RspQueueLen /\ Len(xQueueCusUart) <= UartQueueLen
      /\ UartQueueLen \in Nat /\ RspQueueLen \in Nat
  <2>1. peer \in Seq(1..MaxCalls) /\ 1..MaxCalls \subseteq Nat
    BY UartAssumption DEF Base, TypeOK
  <2> QED
    BY <2>1, UartAssumption DEF Base, TypeOK
<1>f. \A f \in Frames : f.req \in Nat
  BY FrameTypes, UartAssumption
<1> PICK m1 \in Nat, m2 \in Nat : OrderedAt(m1, m2)
  BY DEF Ordered
<1> USE DEF OrderedAt
<1>1. CASE Call
  <2>1. request' = request + 1 /\ UNCHANGED <<answer, peer, xQueueCusUart, uart_rsp_q>>
    BY <1>1 DEF Call
  <2>2. Within(peer', m2, request')
    BY <1>0, <2>1, WithinWiden
  <2>3. OrderedAt(m1, m2)'
    BY <1>0, <2>1, <2>2
  <2> QED BY <1>0, <2>1, <2>3 DEF Ordered
<1>2. CASE Send
  <2>1. /\ UNCHANGED <<request, answer, xQueueCusUart, uart_rsp_q>>
        /\ peer' = peer \/ peer' = Append(peer, request)
    BY <1>2 DEF Send
  <2>2. Sorted(peer') /\ Within(peer', m2, request')
    BY <1>0, <2>1, SortedAppend
  <2>3. OrderedAt(m1, m2)'
    BY <2>1, <2>2
  <2> QED BY <1>0, <2>1, <2>3 DEF Ordered
<1>3. CASE Receive
  <2>1. /\ UNCHANGED <<request, peer, xQueueCusUart>> /\ uart_rsp_q # <<>>
        /\ uart_rsp_q' = Tail(uart_rsp_q)
        /\ answer' = Head(uart_rsp_q).req \/ answer' = answer
    BY <1>3 DEF Receive, Judge
  <2>2. /\ Head(uart_rsp_q) = uart_rsp_q[1] /\ uart_rsp_q[1].op = "ack"
        /\ uart_rsp_q[1].req \in Nat /\ OnlyAcks(uart_rsp_q')
    BY <1>0, <1>f, <2>1, TailFacts DEF OnlyAcks
  <2>3. /\ AcksSorted(uart_rsp_q') /\ AcksWithin(uart_rsp_q', answer, m1)
        /\ AcksWithin(uart_rsp_q', uart_rsp_q[1].req, m1)
        /\ answer <= uart_rsp_q[1].req /\ uart_rsp_q[1].req <= m1
    BY <1>0, <2>1, <2>2, AcksTail
  <2>4. OrderedAt(m1, m2)' /\ answer' >= answer
    BY <1>0, <2>1, <2>2, <2>3
  <2> QED BY <2>4 DEF Ordered
<1>4. CASE Timeout
  <2>1. UNCHANGED <<request, peer, xQueueCusUart, uart_rsp_q, answer>>
    BY <1>0, <1>4 DEF Timeout, Judge, Calling
  <2>2. OrderedAt(m1, m2)'
    BY <2>1
  <2> QED BY <1>0, <2>1, <2>2 DEF Ordered
<1>5. CASE RxProcess
  <2> DEFINE received == Head(xQueueCusUart)
  <2>1. /\ UNCHANGED <<request, answer, peer>> /\ xQueueCusUart # <<>>
        /\ xQueueCusUart' = Tail(xQueueCusUart)
        /\ uart_rsp_q' = IF received.op = "ack" /\ received.seq = uart_msg_seq
                         THEN Put(uart_rsp_q, received, RspQueueLen) ELSE uart_rsp_q
    BY <1>5 DEF RxProcess, caller
  <2>2. received = xQueueCusUart[1] /\ received \in Frames /\ received.req \in Nat
    BY <1>0, <1>f, <2>1, TailFacts
  <2> HIDE DEF received
  <2>3. AcksSorted(xQueueCusUart') /\ AcksWithin(xQueueCusUart', m1, m2)
    BY <1>0, <2>1, AcksTail
  <2>4. CASE received.op = "ack" /\ received.seq = uart_msg_seq
    <3>k. PICK k \in Nat : k = received.req
      BY <2>2
    <3>1. /\ AcksWithin(xQueueCusUart', k, m2)
          /\ m1 <= k /\ k <= m2
      BY <1>0, <2>1, <2>2, <2>4, <3>k, AcksTail
    <3>2. uart_rsp_q' = Put(uart_rsp_q, received, RspQueueLen)
      BY <2>1, <2>4
    <3>3. AcksSorted(uart_rsp_q') /\ AcksWithin(uart_rsp_q', answer, k)
      <4>1. answer <= k
        BY <1>0, <3>1
      <4>2. /\ AcksSorted(uart_rsp_q) /\ AcksWithin(uart_rsp_q, answer, m1)
            /\ received \in Frames /\ received.req = k /\ received.req \in Nat
            /\ m1 <= k /\ Len(uart_rsp_q) <= RspQueueLen
        BY <1>0, <2>2, <3>k, <3>1
      <4>3. answer <= received.req /\ m1 <= received.req /\ received.req <= k
        BY <3>k, <3>1, <4>1
      <4>4. AcksSorted(Put(uart_rsp_q, received, RspQueueLen))
            /\ AcksWithin(Put(uart_rsp_q, received, RspQueueLen), answer, k)
        <5> HIDE DEF OrderedAt
        <5> QED BY <1>0, <4>2, <4>3, AcksPut, Zenon
      <4> QED
        BY <3>2, <4>4
    <3>4. OnlyAcks(uart_rsp_q')
      <4>1. /\ uart_rsp_q \in Seq(Frames) /\ received \in Frames
            /\ Len(uart_rsp_q) <= RspQueueLen /\ RspQueueLen \in Nat
        BY <1>0, <2>2, UartAssumption
      <4>2. \A i \in 1..Len(uart_rsp_q') :
              \/ i \in 1..Len(uart_rsp_q) /\ uart_rsp_q'[i] = uart_rsp_q[i]
              \/ uart_rsp_q'[i] = received
        <5> HIDE DEF OrderedAt
        <5> QED BY <3>2, <4>1, PutFacts
      <4>3. OnlyAcks(uart_rsp_q)
        BY <1>0
      <4> QED
        BY <2>4, <4>2, <4>3 DEF OnlyAcks
    <3>5. OrderedAt(k, m2)'
      BY <1>0, <2>1, <2>2, <2>3, <3>1, <3>3, <3>4
    <3> QED BY <1>0, <2>1, <3>5 DEF Ordered
  <2>5. CASE ~(received.op = "ack" /\ received.seq = uart_msg_seq)
    <3>1. OrderedAt(m1, m2)'
      BY <2>1, <2>3, <2>5
    <3> QED BY <1>0, <2>1, <3>1 DEF Ordered
  <2> QED BY <2>4, <2>5
<1>6. CASE PeerAnswers
  <2>1. UNCHANGED <<request, answer, uart_rsp_q>> /\ peer # <<>> /\ peer' = Tail(peer)
    BY <1>6 DEF PeerAnswers, caller
  <2>n. PICK n \in Nat : n = peer[1]
    BY <1>0, <2>1, TailFacts
  <2>2. /\ Sorted(peer') /\ Within(peer', n, request)
        /\ m2 <= n /\ n <= request /\ Head(peer) = n
    BY <1>0, <2>1, <2>n, SortedTail, TailFacts
  <2>3. AcksSorted(xQueueCusUart') /\ AcksWithin(xQueueCusUart', m1, n)
    <3>1. CASE xQueueCusUart' = xQueueCusUart
      BY <1>0, <2>2, <3>1, AcksWiden
    <3>2. ASSUME NEW intact \in BOOLEAN, NEW seq \in {0, 1},
                 Interrupt([op |-> "ack", req |-> Head(peer), seq |-> seq, intact |-> intact])
          PROVE  AcksSorted(xQueueCusUart') /\ AcksWithin(xQueueCusUart', m1, n)
      <4> DEFINE f == [op |-> "ack", req |-> Head(peer), seq |-> seq, intact |-> intact]
      <4>1. n \in 0..MaxCalls
        <5>1. Head(peer) \in 1..MaxCalls
          BY <2>1, TailFacts DEF Base, TypeOK
        <5> QED BY <2>2, <5>1
      <4>2. f \in Frames /\ f.req = n
        BY <2>2, <4>1, FrameTypes
      <4>3. xQueueCusUart' = Put(xQueueCusUart, f, UartQueueLen)
        BY <3>2 DEF Interrupt
      <4> HIDE DEF f
      <4>4. /\ AcksSorted(xQueueCusUart) /\ AcksWithin(xQueueCusUart, m1, m2)
            /\ m2 <= n /\ f \in Frames /\ f.req \in Nat
            /\ m1 <= f.req /\ m2 <= f.req /\ f.req <= n
        BY <2>2, <4>2
      <4>5. AcksSorted(Put(xQueueCusUart, f, UartQueueLen))
            /\ AcksWithin(Put(xQueueCusUart, f, UartQueueLen), m1, n)
        <5> HIDE DEF OrderedAt
        <5> QED BY <1>0, <4>4, AcksPut, Zenon
      <4> QED
        BY <4>3, <4>5
    <3> QED BY <1>6, <3>1, <3>2 DEF PeerAnswers
  <2>4. OrderedAt(m1, n)'
    BY <1>0, <2>1, <2>2, <2>3
  <2> QED BY <1>0, <2>1, <2>2, <2>4 DEF Ordered
<1>7. CASE PeerEvent
  <2> DEFINE f == [op |-> "event", req |-> 0, seq |-> 0, intact |-> TRUE]
  <2>1. /\ UNCHANGED <<request, answer, peer, uart_rsp_q>>
        /\ xQueueCusUart' = Put(xQueueCusUart, f, UartQueueLen)
    BY <1>7 DEF PeerEvent, Interrupt, caller
  <2>2. f \in Frames /\ f.op # "ack" /\ f.req \in Nat
    BY <1>f, FrameTypes
  <2> HIDE DEF f
  <2>3. AcksSorted(xQueueCusUart') /\ AcksWithin(xQueueCusUart', m1, m2)
    BY <1>0, <2>1, <2>2, AcksPut
  <2>4. OrderedAt(m1, m2)'
    BY <2>1, <2>3
  <2> QED BY <1>0, <2>1, <2>4 DEF Ordered
<1>8. CASE UNCHANGED vars
  <2>1. OrderedAt(m1, m2)' /\ answer' = answer
    BY <1>8 DEF vars, caller
  <2> QED BY <1>0, <2>1 DEF Ordered
<1> QED
  BY <1>1, <1>2, <1>3, <1>4, <1>5, <1>6, <1>7, <1>8 DEF Next

\* However late the answers, calls consume them in the order of the requests.
THEOREM AnswersKeepOrder == Spec => AnswersInOrder
<1>1. ASSUME Base, Ordered, [Next]_vars
      PROVE  [answer' >= answer]_vars
  BY <1>1, StepOrdered
<1> QED
  BY <1>1, InitBase, StepBase, InitOrdered, StepOrdered, PTL DEF Spec, AnswersInOrder
=============================================================================
