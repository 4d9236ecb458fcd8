------------------------------- MODULE UartLink -------------------------------
(***************************************************************************)
(* Requests to the microcontroller on UART0 (user_uart/user_uart.c): a     *)
(* caller of uart_tx_with_rsp sends a frame, waits for the answer that     *)
(* user_uart_task passes on through uart_rsp_q, and sends it once more     *)
(* when none comes or it is no good.  Each request has a number here that  *)
(* the frames on the wire do not carry: UART_SEQ is always 0.              *)
(***************************************************************************)
EXTENDS Naturals, Sequences

CONSTANTS
  MaxCalls,      \* bound: requests made in a run
  ResendTimes,   \* MSG_RESEND_TIMES
  UartQueueLen,  \* CUS_UART0_QUEUE_LENGTH: length of xQueueCusUart
  RspQueueLen    \* length of uart_rsp_q

ASSUME UartAssumption == /\ ResendTimes \in Nat \ {0}
                         /\ UartQueueLen \in Nat \ {0} /\ RspQueueLen \in Nat \ {0}
                         /\ MaxCalls \in Nat

VARIABLES
  pc,          \* where the caller is in uart_tx_with_rsp, or "idle"
  request,     \* number of the request last made
  send_times,
  frame,       \* uartptrData, the answer last received in this call, or NoFrame
  ret,         \* what the last call returned
  answer,      \* the request that the last OP_OK answered
  peer,        \* requests the microcontroller has received and not yet answered
  timely,      \* whether it always answers within the 500 ticks, or not at all
  xQueueCusUart,  \* frames from the interrupt handler to user_uart_task
  uart_rsp_q      \* answers from user_uart_task to the caller

caller == <<pc, request, send_times, frame, ret, answer>>
vars == <<caller, peer, timely, xQueueCusUart, uart_rsp_q>>

uart_msg_seq == 0
NoFrame == [op |-> "none", req |-> 0, seq |-> 0, intact |-> FALSE]
Frames == [op : {"ack", "event"}, req : 0..MaxCalls, seq : {0, 1}, intact : BOOLEAN]

PutFirst(queue, element, len) ==                             \* mutant: wrong end
  IF Len(queue) < len THEN <<element>> \o queue ELSE queue

\* A queue send with no waiting: the element is dropped when the queue is full.
Put(queue, element, len) == IF Len(queue) < len THEN Append(queue, element) ELSE queue

-----------------------------------------------------------------------------
\* uart_tx_with_rsp

Call == /\ pc = "idle"
        /\ request < MaxCalls
        /\ request' = request + 1
        /\ pc' = "send"
        /\ send_times' = 0
        /\ frame' = NoFrame
        /\ UNCHANGED <<ret, answer, peer, timely, xQueueCusUart, uart_rsp_q>>

\* Mutant: the attempt is not counted.
SendUncounted == /\ pc = "send"
                 /\ pc' = "wait"
                 /\ peer' \in {peer, Append(peer, request)}
                 /\ UNCHANGED <<request, send_times, frame, ret, answer, timely,
                                xQueueCusUart, uart_rsp_q>>

\* uart0_write_data; line noise may lose the request.
Send == /\ pc = "send"
        /\ pc' = "wait"
        /\ send_times' = send_times + 1
        /\ peer' \in {peer, Append(peer, request)}
        /\ UNCHANGED <<request, frame, ret, answer, timely, xQueueCusUart, uart_rsp_q>>

OnceMore == send_times <= ResendTimes    \* mutant: one attempt too many
AttemptsLeft == send_times < ResendTimes

\* The loop's verdict on what uartptrData holds after the wait.
Judge(received) ==
  /\ frame' = received
  /\ \/ /\ received.intact
        /\ pc' = "idle"
        /\ ret' = "OP_OK"
        /\ answer' = received.req
     \/ /\ ~received.intact
        /\ pc' = IF AttemptsLeft THEN "send" ELSE "idle"
        /\ ret' = "OP_FAIL"
        /\ UNCHANGED answer
  /\ UNCHANGED <<request, send_times, peer, timely, xQueueCusUart>>

\* Mutant: the answer stays in the queue.
Peek == /\ pc = "wait"
        /\ uart_rsp_q # <<>>
        /\ UNCHANGED uart_rsp_q
        /\ Judge(Head(uart_rsp_q))

Receive == /\ pc = "wait"
           /\ uart_rsp_q # <<>>
           /\ uart_rsp_q' = Tail(uart_rsp_q)
           /\ Judge(Head(uart_rsp_q))

OnItsWay == \/ peer # <<>>
            \/ \E i \in 1..Len(xQueueCusUart) : xQueueCusUart[i].op = "ack"

\* The wait times out and uartptrData keeps what an earlier wait left in it.
Timeout == /\ pc = "wait"
           /\ uart_rsp_q = <<>>
           /\ timely => ~OnItsWay
           /\ UNCHANGED uart_rsp_q
           /\ Judge(frame)

-----------------------------------------------------------------------------
\* user_uart_task and hnt_uart_rx_process: an answer with the right sequence
\* number goes to the caller, everything else to the event handler or nowhere.
RxProcess ==
  /\ xQueueCusUart # <<>>
  /\ xQueueCusUart' = Tail(xQueueCusUart)
  /\ LET received == Head(xQueueCusUart)
     IN  uart_rsp_q' = IF received.op = "ack" /\ received.seq = uart_msg_seq
                       THEN Put(uart_rsp_q, received, RspQueueLen)
                       ELSE uart_rsp_q
  /\ UNCHANGED <<caller, peer, timely>>

\* uart0_rx_intr_handler: a frame has come in.  Its loop could post the same bytes
\* again if a second frame ended before the handler does; at 115200 baud a frame and
\* the two byte times of silence that end it take far longer than the handler.
Interrupt(received) == xQueueCusUart' = Put(xQueueCusUart, received, UartQueueLen)

\* The microcontroller answers a request, echoing its sequence number, or
\* ignores it; noise may damage the answer, its sequence number included.
PeerAnswers ==
  /\ peer # <<>>
  /\ peer' = Tail(peer)
  /\ \/ \E intact \in BOOLEAN, seq \in {0, 1} :
          /\ intact => seq = uart_msg_seq
          /\ Interrupt([op |-> "ack", req |-> Head(peer), seq |-> seq, intact |-> intact])
     \/ UNCHANGED xQueueCusUart
  /\ UNCHANGED <<caller, timely, uart_rsp_q>>

PeerEvent ==
  /\ Interrupt([op |-> "event", req |-> 0, seq |-> 0, intact |-> TRUE])
  /\ UNCHANGED <<caller, peer, timely, uart_rsp_q>>

-----------------------------------------------------------------------------
Init == /\ pc = "idle" /\ request = 0 /\ send_times = 0
        /\ frame = NoFrame /\ ret = "OP_OK" /\ answer = 0
        /\ peer = <<>> /\ timely \in BOOLEAN
        /\ xQueueCusUart = <<>> /\ uart_rsp_q = <<>>

Next == Call \/ Send \/ Receive \/ Timeout \/ RxProcess \/ PeerAnswers \/ PeerEvent

Spec == Init /\ [][Next]_vars

\* The tasks run, and a wait ends.
FairSpec == /\ Spec
            /\ WF_vars(Send) /\ WF_vars(Receive \/ Timeout)
            /\ WF_vars(RxProcess) /\ WF_vars(PeerAnswers)

-----------------------------------------------------------------------------
\* Type invariant of the caller, the two queues and the microcontroller.
TypeOK == /\ pc \in {"idle", "send", "wait"}
          /\ request \in 0..MaxCalls /\ answer \in 0..MaxCalls
          /\ send_times \in 0..ResendTimes
          /\ frame \in Frames \cup {NoFrame}
          /\ ret \in {"OP_OK", "OP_FAIL"}
          /\ peer \in Seq(1..MaxCalls) /\ timely \in BOOLEAN
          /\ xQueueCusUart \in Seq(Frames) /\ Len(xQueueCusUart) <= UartQueueLen
          /\ uart_rsp_q \in Seq(Frames) /\ Len(uart_rsp_q) <= RspQueueLen

\* The answer that a successful call returns is the answer to that call's
\* request.  The sequence number is there to see to it ("seq %02x not correct,
\* should be %02x", user_uart.c:76).
AnswersOwnRequest == pc = "idle" /\ ret = "OP_OK" => answer = request

\* With a microcontroller that answers within the wait or not at all, every
\* successful call does return the answer to its own request (uart_tx_with_rsp),
\* whatever frames are lost, damaged or dropped at a full queue.  (Noise that makes
\* an answer out of an event is not considered.)
TimelyAnswersOwnRequest == timely => AnswersOwnRequest

\* Even when answers come late, they are consumed in the order of the requests:
\* a call may get an earlier answer, never one older than its predecessor got.
AnswersInOrder == [][answer' >= answer]_vars

\* A call always returns (uart_tx_with_rsp): a lost, late or damaged answer and
\* a flood of events cost it no more than its bounded number of waits.
CallReturns == pc # "idle" ~> pc = "idle"
=============================================================================
