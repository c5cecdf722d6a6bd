-------------------------- MODULE CmdServer_proofs --------------------------
(***************************************************************************)
(* Proofs about the command server and its socket protocol: about          *)
(* CmdServer, for every set of clients, in every mode but the one in which *)
(* stop_acq is asked of a Simulink model; and about FrameStream, for every *)
(* length of the reply and every way TCP cuts it.                          *)
(***************************************************************************)
EXTENDS CmdInvariant, FrameStream, SequenceTheorems, TLAPS

LEMMA AnswerTypes ==
  /\ NoAnswer \in Answers /\ Failed \in Answers
  /\ \A call \in Clients \X Nat : call \in Answers
  BY DEF Answers

\* What Append and Tail do, position by position.
LEMMA AppendFacts ==
  ASSUME NEW S, NEW s \in Seq(S), NEW x \in S
  PROVE  /\ Append(s, x) \in Seq(S) /\ Len(Append(s, x)) = Len(s) + 1
         /\ Len(s) \in Nat /\ Append(s, x) # << >>
         /\ \A i \in 1 .. Len(s) : Append(s, x)[i] = s[i]
         /\ Append(s, x)[Len(s) + 1] = x
  OBVIOUS

LEMMA TailFacts ==
  ASSUME NEW S, NEW s \in Seq(S), s # << >>
  PROVE  /\ Tail(s) \in Seq(S) /\ Len(Tail(s)) = Len(s) - 1
         /\ Len(s) \in Nat \ {0} /\ Head(s) = s[1] /\ Head(s) \in S
         /\ \A i \in 1 .. Len(s) - 1 : Tail(s)[i] = s[i + 1]
  OBVIOUS

LEMMA HeadAppend ==
  ASSUME NEW S, NEW s \in Seq(S), NEW x \in S
  PROVE  Head(Append(s, x)) = IF s = << >> THEN x ELSE Head(s)
<1>1. Head(Append(s, x)) = Append(s, x)[1]
  BY AppendFacts, TailFacts
<1>2. CASE s = << >>
  <2>1. Len(s) = 0
    BY <1>2
  <2>2. QED
    BY <1>1, <1>2, <2>1, AppendFacts
<1>3. CASE s # << >>
  BY <1>1, <1>3, AppendFacts, TailFacts
<1>4. QED
  BY <1>2, <1>3

LEMMA InitInv == Init => ServerInv
<1> SUFFICES ASSUME Init PROVE ServerInv
  OBVIOUS
<1>1. TypeOK
  <2>1. asks \in [Clients -> Commands \cup {None}] /\ answer \in [Clients -> Answers]
    BY AnswerTypes DEF Init
  <2>2. inbox \in [Clients -> Seq(Answers)] /\ backlog \in Seq(Clients)
    BY DEF Init
  <2>3. QED
    BY <2>1, <2>2, AnswerTypes DEF Init, TypeOK
<1>2. Threads /\ Queue /\ Current /\ Received /\ Handshake
  BY DEF Init, Threads, Queue, Current, Received, Handshake, Serving
<1>3. Replies
  BY DEF Init, Replies
<1>4. QED
  BY <1>1, <1>2, <1>3 DEF ServerInv

\* The call in hand, and the client it belongs to.
LEMMA CallerType ==
  ASSUME TypeOK, Threads, pc \in Serving \cup {"close"}
  PROVE  Caller \in Clients /\ conn = << Caller, conn[2] >> /\ conn[2] \in Nat
  BY DEF TypeOK, Threads, Caller

LEMMA OpenInv ==
  ASSUME ServerInv, NEW c \in Clients, NEW k \in Commands, Open(c, k)
  PROVE  ServerInv'
<1> USE DEF Open, ServerInv, TypeOK, serverVars
<1>1. TypeOK'
  <2>1. calls' \in [Clients -> Nat] /\ executed' \in [Clients -> {0, 1}]
    OBVIOUS
  <2>2. asks' \in [Clients -> Commands \cup {None}]
    OBVIOUS
  <2>3. /\ client' \in [Clients -> {"quiet", "connected", "sent", "gone"}]
        /\ link' \in [Clients -> {"none", "open", "reset", "shut"}]
        /\ answer' \in [Clients -> Answers]
    BY AnswerTypes
  <2>4. inbox' \in [Clients -> Seq(Answers)]
    <3>1. << >> \in Seq(Answers) /\ inbox \in [Clients -> Seq(Answers)]
      OBVIOUS
    <3>2. inbox' = inbox \/ inbox' = [inbox EXCEPT ![c] = << >>]
      OBVIOUS
    <3>3. QED
      BY ONLY <3>1, <3>2
  <2>5. backlog' \in Seq(Clients)
    <3>1. backlog \in Seq(Clients) /\ (backlog' = backlog \/ backlog' = Append(backlog, c))
      OBVIOUS
    <3>2. QED
      BY ONLY <3>1, c \in Clients, AppendFacts
  <2>6. QED
    BY <2>1, <2>2, <2>3, <2>4, <2>5
<1>2. pc \in Serving => c # Caller
  BY DEF Current
<1>3. Caller' = Caller
  BY DEF Caller
<1>4. pc \in Serving \cup {"close"} => Caller \in Clients /\ conn # Call(c)'
  BY CallerType DEF Threads, Call
<1>5. Threads'
  BY <1>3, <1>4 DEF Threads, Serving
<1>6. Queue'
  <2> HIDE DEF ServerInv, TypeOK
  <2>1. CASE ~listening
    BY <2>1 DEF ServerInv, Threads, Queue, Serving, Call
  <2>2. CASE listening
    <3>1. /\ backlog \in Seq(Clients) /\ backlog' = Append(backlog, c)
          /\ pc' = pc /\ conn' = conn /\ calls' = [calls EXCEPT ![c] = @ + 1]
      BY <2>2 DEF ServerInv, TypeOK
    <3>2. /\ client'[c] = "connected" /\ link'[c] = "open" /\ executed'[c] = 0
          /\ inbox'[c] = << >>
          /\ \A d \in Clients \ {c} :
               /\ client'[d] = client[d] /\ link'[d] = link[d]
               /\ executed'[d] = executed[d] /\ inbox'[d] = inbox[d]
               /\ calls'[d] = calls[d]
      BY <2>2 DEF ServerInv, TypeOK, Call
    <3>3. ASSUME NEW i \in 1 .. Len(backlog)
          PROVE  backlog'[i] = backlog[i] /\ backlog[i] \in Clients \ {c}
      <4>1. backlog[i] \in Clients
        BY <3>1, ElementOfSeq
      <4>2. backlog[i] # c
        BY DEF ServerInv, Queue
      <4>3. QED
        BY <3>1, <4>1, <4>2, AppendFacts
    <3>4. Len(backlog') = Len(backlog) + 1 /\ backlog'[Len(backlog')] = c /\ Len(backlog) \in Nat
      BY <3>1, AppendFacts
    <3>5. ASSUME NEW i \in 1 .. Len(backlog')
          PROVE  /\ client'[backlog'[i]] # "quiet" /\ link'[backlog'[i]] = "open"
                 /\ executed'[backlog'[i]] = 0 /\ inbox'[backlog'[i]] = << >>
                 /\ pc \in Serving \cup {"close"} => conn # << backlog'[i], calls'[backlog'[i]] >>
      <4>1. CASE i = Len(backlog')
        BY <3>2, <3>4, <4>1, <1>4 DEF Call
      <4>2. CASE i \in 1 .. Len(backlog)
        BY <3>2, <3>3, <4>2 DEF ServerInv, Queue, Call
      <4>3. QED
        BY <3>4, <4>1, <4>2
    <3>6. \A i, j \in 1 .. Len(backlog') : backlog'[i] = backlog'[j] => i = j
      BY <3>3, <3>4 DEF ServerInv, Queue
    <3>7. QED
      BY <3>1, <3>5, <3>6 DEF Queue, Call, Serving
  <2>3. QED
    BY <2>1, <2>2
<1>7. Current'
  BY <1>2, <1>3, <1>4 DEF Current, Call, Serving
<1>8. Received'
  BY <1>3, <1>4 DEF Received, Call, Serving
<1>9. Handshake'
  BY <1>3 DEF Handshake
<1>10. Replies'
  BY DEF Replies, Threads, Call
<1>11. QED
  BY <1>1, <1>5, <1>6, <1>7, <1>8, <1>9, <1>10

LEMMA SendInv ==
  ASSUME ServerInv, NEW c \in Clients, Send(c)
  PROVE  ServerInv'
<1> USE DEF Send, serverVars
<1>1. TypeOK'
  BY DEF ServerInv, TypeOK
<1>2. Caller' = Caller /\ \A d \in Clients : Call(d)' = Call(d)
  BY DEF Caller, Call
<1>3. pc \in Serving \cup {"close"} => Caller \in Clients
  BY CallerType DEF ServerInv
<1>4. Threads' /\ Handshake'
  BY <1>2 DEF ServerInv, Threads, Handshake, Serving
<1>5. Queue'
  BY <1>2, ElementOfSeq DEF ServerInv, TypeOK, Queue, Serving, Call
<1>6. Current'
  BY <1>2, <1>3 DEF ServerInv, TypeOK, Current, Serving, Call
<1>7. Received' /\ Replies'
  BY <1>2, <1>3 DEF ServerInv, TypeOK, Received, Replies, Serving, Current, Call
<1>8. QED
  BY <1>1, <1>4, <1>5, <1>6, <1>7 DEF ServerInv

\* The call of a client that is answered, or fails, is not in hand or waiting.
LEMMA EndInv ==
  ASSUME ServerInv, NEW c \in Clients, client[c] \in {"connected", "sent"},
         pc \in Serving => c # Caller,
         \A i \in 1 .. Len(backlog) : backlog[i] # c,
         pc # "exited" => ~wire[c],
         client' = [client EXCEPT ![c] = "quiet"],
         NEW reply \in Answers, answer' = [answer EXCEPT ![c] = reply],
         UNCHANGED << asks, calls, socketVars, serverVars, go, main, executed >>
  PROVE  ServerInv'
<1> USE DEF serverVars, socketVars
<1>1. TypeOK'
  BY DEF ServerInv, TypeOK
<1>2. Caller' = Caller /\ \A d \in Clients : Call(d)' = Call(d)
  BY DEF Caller, Call
<1>3. pc \in Serving \cup {"close"} => Caller \in Clients
  BY CallerType DEF ServerInv
<1>4. Threads' /\ Handshake'
  BY <1>2 DEF ServerInv, Threads, Handshake, Serving
<1>5. Queue'
  BY <1>2, ElementOfSeq DEF ServerInv, TypeOK, Queue, Serving, Call
<1>6. Current'
  BY <1>2, <1>3 DEF ServerInv, TypeOK, Current, Serving, Call
<1>7. Received' /\ Replies'
  BY <1>2, <1>3 DEF ServerInv, TypeOK, Received, Replies, Serving, Current, Call
<1>8. QED
  BY <1>1, <1>4, <1>5, <1>6, <1>7 DEF ServerInv

LEMMA FailsInv ==
  ASSUME ServerInv, NEW c \in Clients, SendFails(c) \/ ReceiveFails(c)
  PROVE  ServerInv'
<1>1. client[c] \in {"connected", "sent"} /\ link[c] = "shut" /\ Fails(c)
  BY DEF SendFails, ReceiveFails
<1>2. /\ pc \in Serving => c # Caller
      /\ \A i \in 1 .. Len(backlog) : backlog[i] # c
      /\ pc # "exited" => ~wire[c]
  BY <1>1 DEF ServerInv, Current, Queue, Replies
<1>3. QED
  BY <1>1, <1>2, EndInv, AnswerTypes DEF Fails

LEMMA ReceiveInv ==
  ASSUME ServerInv, NEW c \in Clients, Receive(c)
  PROVE  ServerInv'
<1>1. inbox[c] \in Seq(Answers)
  BY DEF ServerInv, TypeOK
<1>2. Len(inbox[c]) \in {1, 2} /\ inbox[c] # << >> /\ (asks[c] = "get_data" => Len(inbox[c]) = 2)
  BY <1>1, EmptySeq DEF Receive, Complete
<1>3. Head(inbox[c]) \in Answers
  BY <1>1, <1>2, TailFacts
<1>4. /\ pc \in Serving => c # Caller
      /\ \A i \in 1 .. Len(backlog) : backlog[i] # c
      /\ ~wire[c]
  BY <1>2 DEF ServerInv, Current, Queue, Replies, Receive
<1>5. QED
  BY <1>3, <1>4, EndInv DEF Receive

LEMMA HangUpInv ==
  ASSUME ServerInv, NEW c \in Clients, HangUp(c)
  PROVE  ServerInv'
<1> USE DEF HangUp, serverVars, socketVars
<1>1. TypeOK'
  BY DEF ServerInv, TypeOK
<1>2. Caller' = Caller /\ \A d \in Clients : Call(d)' = Call(d)
  BY DEF Caller, Call
<1>3. pc \in Serving \cup {"close"} => Caller \in Clients
  BY CallerType DEF ServerInv
<1>4. Threads' /\ Handshake'
  BY <1>2 DEF ServerInv, Threads, Handshake, Serving
<1>5. Queue'
  BY <1>2, ElementOfSeq DEF ServerInv, TypeOK, Queue, Serving, Call
<1>6. Current'
  BY <1>2, <1>3 DEF ServerInv, TypeOK, Current, Serving, Call
<1>7. Received' /\ Replies'
  BY <1>2, <1>3 DEF ServerInv, TypeOK, Received, Replies, Serving, Current, Call
<1>8. QED
  BY <1>1, <1>4, <1>5, <1>6, <1>7 DEF ServerInv

\* The call in hand is not in the backlog.
LEMMA NotWaiting ==
  ASSUME ServerInv, pc \in Serving
  PROVE  /\ Caller \in Clients /\ conn = Call(Caller)
         /\ \A i \in 1 .. Len(backlog) : backlog[i] # Caller /\ backlog[i] \in Clients
  BY CallerType, ElementOfSeq DEF ServerInv, TypeOK, Queue, Current

LEMMA ServerOpensInv ==
  ASSUME ServerInv, ServerOpens
  PROVE  ServerInv'
<1> USE DEF ServerOpens, clientVars
<1>1. TypeOK'
  BY DEF ServerInv, TypeOK
<1>2. Threads' /\ Queue' /\ Current' /\ Received' /\ Handshake'
  BY EmptySeq DEF ServerInv, Threads, Queue, Current, Received, Handshake, Serving, Call, Caller
<1>3. Replies'
  BY DEF ServerInv, Replies, Call
<1>4. QED
  BY <1>1, <1>2, <1>3 DEF ServerInv

LEMMA OpenFailsInv ==
  ASSUME ServerInv, OpenFails
  PROVE  ServerInv'
<1> USE DEF OpenFails, clientVars, socketVars
<1>1. TypeOK'
  BY DEF ServerInv, TypeOK
<1>2. Threads' /\ Queue' /\ Current' /\ Received' /\ Handshake'
  BY EmptySeq DEF ServerInv, Threads, Queue, Current, Received, Handshake, Serving, Call, Caller
<1>3. Replies'
  BY DEF ServerInv, Replies, Call
<1>4. QED
  BY <1>1, <1>2, <1>3 DEF ServerInv

LEMMA AcceptInv ==
  ASSUME ServerInv, Accept
  PROVE  ServerInv'
<1> USE DEF Accept, clientVars
<1> DEFINE first == Head(backlog)
<1>1. /\ backlog \in Seq(Clients) /\ Len(backlog) \in Nat \ {0} /\ first = backlog[1]
      /\ first \in Clients /\ Tail(backlog) \in Seq(Clients)
      /\ Len(backlog') = Len(backlog) - 1
      /\ \A i \in 1 .. Len(backlog') : backlog'[i] = backlog[i + 1]
  BY TailFacts DEF ServerInv, TypeOK
<1>2. Caller' = first /\ conn' = << first, calls[first] >> /\ calls[first] \in Nat
  BY <1>1 DEF Caller, Call, ServerInv, TypeOK
<1>3. /\ client[first] # "quiet" /\ link[first] = "open" /\ executed[first] = 0
      /\ inbox[first] = << >> /\ delayed # 1
  BY <1>1 DEF ServerInv, Queue, Handshake
<1>4. TypeOK'
  BY <1>1, <1>2 DEF ServerInv, TypeOK
<1>5. Threads'
  BY <1>1, <1>2, ServerAssumption DEF ServerInv, Threads, Serving
<1>6. Queue'
  <2>1. ASSUME NEW i \in 1 .. Len(backlog')
        PROVE  /\ client[backlog'[i]] # "quiet" /\ link[backlog'[i]] = "open"
               /\ executed[backlog'[i]] = 0 /\ inbox[backlog'[i]] = << >>
               /\ conn' # << backlog'[i], calls'[backlog'[i]] >>
    <3>1. i + 1 \in 1 .. Len(backlog) /\ i + 1 # 1 /\ 1 \in 1 .. Len(backlog)
      BY <1>1
    <3>2. backlog'[i] # first
      BY <3>1, <1>1 DEF ServerInv, Queue
    <3>3. QED
      BY <3>1, <3>2, <1>1, <1>2 DEF ServerInv, Queue
  <2>2. \A i, j \in 1 .. Len(backlog') : backlog'[i] = backlog'[j] => i = j
    <3>1. \A i \in 1 .. Len(backlog') : i + 1 \in 1 .. Len(backlog) /\ i \in Int
      BY <1>1
    <3>2. QED
      BY <3>1, <1>1 DEF ServerInv, Queue
  <2>3. QED
    BY <2>1, <2>2 DEF Queue, Call
<1>7. Current' /\ Received' /\ Handshake'
  BY <1>2, <1>3 DEF Current, Received, Handshake, Serving, Call
<1>8. Replies'
  BY DEF ServerInv, Replies, Call
<1>9. QED
  BY <1>4, <1>5, <1>6, <1>7, <1>8 DEF ServerInv

LEMMA ReadInv ==
  ASSUME ServerInv, Read
  PROVE  ServerInv'
<1> USE DEF Read, clientVars
<1>1. Caller' = Caller /\ \A d \in Clients : Call(d)' = Call(d)
  BY DEF Caller, Call
<1>2. /\ Caller \in Clients /\ conn = Call(Caller)
      /\ \A i \in 1 .. Len(backlog) : backlog[i] # Caller /\ backlog[i] \in Clients
  BY NotWaiting DEF Serving
<1>3. TypeOK'
  BY <1>2 DEF ServerInv, TypeOK
<1>4. Threads' /\ Queue' /\ Handshake'
  BY <1>1, <1>2 DEF ServerInv, Threads, Queue, Handshake, Serving, Call
<1>5. Current'
  BY <1>1, <1>2 DEF ServerInv, Current, Serving, Call
<1>6. Received' /\ Replies'
  BY <1>1, <1>2 DEF ServerInv, TypeOK, Received, Replies, Serving, Call
<1>7. QED
  BY <1>3, <1>4, <1>5, <1>6 DEF ServerInv

LEMMA ReadFailsInv ==
  ASSUME ServerInv, ReadFails
  PROVE  ServerInv'
<1> USE DEF ReadFails, clientVars, socketVars
<1>1. TypeOK'
  BY DEF ServerInv, TypeOK
<1>2. Threads' /\ Queue' /\ Current' /\ Received' /\ Handshake' /\ Replies'
  BY DEF ServerInv, Threads, Queue, Current, Received, Handshake, Replies, Serving, Call, Caller
<1>3. QED
  BY <1>1, <1>2 DEF ServerInv

LEMMA PerformInv ==
  ASSUME AllExecuted, ServerInv, Perform
  PROVE  ServerInv'
<1> USE DEF Perform, clientVars, socketVars
<1>1. Caller' = Caller /\ \A d \in Clients : Call(d)' = Call(d)
  BY DEF Caller, Call
<1>2. /\ Caller \in Clients /\ conn = Call(Caller) /\ conn \in Clients \X Nat
      /\ \A i \in 1 .. Len(backlog) : backlog[i] # Caller /\ backlog[i] \in Clients
  BY NotWaiting DEF Serving, Call, ServerInv, TypeOK
<1>3. Execute
  <2>1. asks[Caller] \in Commands \cup {None}
    BY <1>2 DEF ServerInv, TypeOK
  <2>2. ~(asks[Caller] = "stop_acq" /\ IsSimulink)
    BY <2>1, ServerAssumption DEF AllExecuted
  <2>3. QED
    BY <2>2
<1>4. /\ executed[Caller] = 0 /\ executed \in [Clients -> {0, 1}]
      /\ retval' = conn /\ executed' = [executed EXCEPT ![Caller] = 1]
  <2>1. executed[Caller] = 0 /\ executed \in [Clients -> {0, 1}]
    BY DEF ServerInv, TypeOK, Current, Serving
  <2>2. QED
    BY <1>2, <1>3, <2>1 DEF Execute
<1>5. TypeOK'
  <2>1. run' \in {0, 1} /\ go' \in {-1, 0}
    BY DEF ServerInv, TypeOK
  <2>2. retval' \in Answers /\ executed' \in [Clients -> {0, 1}]
    BY <1>2, <1>4, AnswerTypes
  <2>3. QED
    BY <2>1, <2>2 DEF ServerInv, TypeOK
<1>6. Threads' /\ Queue' /\ Handshake'
  BY <1>1, <1>2, <1>4 DEF ServerInv, Threads, Queue, Handshake, Serving, Call
<1>7. Current'
  BY <1>1, <1>2, <1>4 DEF ServerInv, Current, Handshake, Serving, Call
<1>8. Received' /\ Replies'
  BY <1>1, <1>2, <1>4 DEF ServerInv, Received, Replies, Serving, Call
<1>9. QED
  BY <1>5, <1>6, <1>7, <1>8 DEF ServerInv

LEMMA DelayInv ==
  ASSUME ServerInv, Delay
  PROVE  ServerInv'
<1> USE DEF Delay, clientVars, socketVars
<1>1. Caller' = Caller /\ \A d \in Clients : Call(d)' = Call(d)
  BY DEF Caller, Call
<1>2. TypeOK'
  BY DEF ServerInv, TypeOK
<1>3. Threads' /\ Queue' /\ Handshake'
  BY <1>1 DEF ServerInv, Threads, Queue, Current, Handshake, Serving, Call
<1>4. Current' /\ Received' /\ Replies'
  BY <1>1 DEF ServerInv, Current, Received, Replies, Serving, Call
<1>5. QED
  BY <1>2, <1>3, <1>4 DEF ServerInv

LEMMA AwaitInv ==
  ASSUME ServerInv, Await
  PROVE  ServerInv'
<1> USE DEF Await, clientVars, socketVars
<1>1. Caller' = Caller /\ \A d \in Clients : Call(d)' = Call(d)
  BY DEF Caller, Call
<1>2. TypeOK'
  BY DEF ServerInv, TypeOK
<1>3. Threads' /\ Queue' /\ Handshake'
  BY <1>1 DEF ServerInv, Threads, Queue, Current, Handshake, Serving, Call
<1>4. Current' /\ Received' /\ Replies'
  BY <1>1 DEF ServerInv, Current, Received, Replies, Serving, Call
<1>5. QED
  BY <1>2, <1>3, <1>4 DEF ServerInv

\* Both parts of a reply go to the client in hand and carry its result.
LEMMA SendToInv ==
  ASSUME ServerInv, pc \in {"write", "write_data"}, SendTo(Caller, retval),
         pc' = "close" \/ (pc' = "write_data" /\ pc = "write" /\ asks[Caller] = "get_data"),
         UNCHANGED << clientVars, wire, backlog, listening, conn, delayed, retval,
                      run, go, main, executed >>
  PROVE  ServerInv'
<1> USE DEF clientVars
<1>1. Caller' = Caller /\ \A d \in Clients : Call(d)' = Call(d)
  BY DEF Caller, Call
<1>2. /\ Caller \in Clients /\ conn = Call(Caller)
      /\ \A i \in 1 .. Len(backlog) : backlog[i] # Caller /\ backlog[i] \in Clients
  BY NotWaiting DEF Serving
<1>3. /\ inbox[Caller] \in Seq(Answers) /\ retval = Call(Caller) /\ retval \in Answers
      /\ executed[Caller] = 1 /\ ~wire[Caller] /\ client[Caller] \notin {"quiet", "connected"}
      /\ pc = "write" => inbox[Caller] = << >>
      /\ delayed # 1
  BY <1>2 DEF ServerInv, TypeOK, Current, Received, Handshake, Serving
<1>4. \/ /\ client[Caller] = "gone" /\ inbox' = inbox
         /\ link' = [link EXCEPT ![Caller] = "reset"]
      \/ /\ inbox' = [inbox EXCEPT ![Caller] = Append(inbox[Caller], retval)]
         /\ link' = link
  BY DEF SendTo
<1>5. /\ Append(inbox[Caller], retval) \in Seq(Answers)
      /\ Append(inbox[Caller], retval) # << >>
      /\ Len(Append(inbox[Caller], retval)) = Len(inbox[Caller]) + 1
      /\ Head(Append(inbox[Caller], retval)) = Call(Caller)
  <2>1. inbox[Caller] # << >> => Head(inbox[Caller]) = Call(Caller)
    BY <1>2, <1>3 DEF ServerInv, Replies
  <2>2. QED
    BY <1>3, <2>1, AppendFacts, HeadAppend
<1>6. /\ inbox' \in [Clients -> Seq(Answers)]
      /\ \A d \in Clients \ {Caller} : inbox'[d] = inbox[d] /\ link'[d] = link[d]
      /\ inbox'[Caller] = inbox[Caller] \/ inbox'[Caller] = Append(inbox[Caller], retval)
      /\ link' \in [Clients -> {"none", "open", "reset", "shut"}]
  <2>1. /\ inbox \in [Clients -> Seq(Answers)]
        /\ link \in [Clients -> {"none", "open", "reset", "shut"}]
    BY DEF ServerInv, TypeOK
  <2>2. QED
    BY ONLY <2>1, <1>2, <1>4, <1>5
<1>7. TypeOK'
  BY <1>6 DEF ServerInv, TypeOK
<1>8. Threads' /\ Handshake'
  BY <1>1, <1>3 DEF ServerInv, Threads, Handshake, Serving
<1>9. Queue'
  BY <1>1, <1>2, <1>6 DEF ServerInv, Queue, Serving, Call
<1>10. Current'
  <2>1. pc' = "write_data" => Len(inbox'[Caller]) <= 1
    BY <1>3, <1>5, <1>6, EmptySeq
  <2>2. link'[Caller] = "open" \/ (link'[Caller] = "reset" /\ client[Caller] = "gone")
    BY <1>2, <1>4 DEF ServerInv, TypeOK, Current, Serving
  <2>3. QED
    BY <1>1, <1>2, <1>3, <2>1, <2>2 DEF Current, Serving, Call
<1>11. Received'
  BY <1>1, <1>2, <1>3 DEF Received, Serving, Call
<1>12. Replies'
  <2>1. Replies /\ client' = client /\ wire' = wire /\ executed' = executed
    BY DEF ServerInv
  <2>2. pc # "exited"
    OBVIOUS
  <2>3. ASSUME NEW c \in Clients
        PROVE  /\ client[c] = "connected" => ~wire[c] /\ inbox'[c] = << >>
               /\ client[c] = "quiet" \/ link'[c] = "shut" => ~wire[c]
               /\ client[c] # "quiet" /\ inbox'[c] # << >> =>
                    ~wire[c] /\ executed[c] = 1 /\ Head(inbox'[c]) = Call(c)
    <3>1. CASE c = Caller
      <4>1. inbox'[c] # << >> => Head(inbox'[c]) = Call(c)
        BY <1>5, <1>6, <2>1, <1>3, <3>1 DEF Replies
      <4>2. QED
        BY <1>3, <3>1, <4>1
    <3>2. CASE c # Caller
      <4>1. inbox'[c] = inbox[c] /\ link'[c] = link[c]
        BY <1>6, <3>2
      <4>2. QED
        BY <2>1, <2>2, <4>1 DEF Replies
    <3>3. QED
      BY <3>1, <3>2
  <2>4. QED
    BY <1>1, <2>1, <2>3 DEF Replies
<1>13. QED
  BY <1>7, <1>8, <1>9, <1>10, <1>11, <1>12 DEF ServerInv

LEMMA WritesInv ==
  ASSUME ServerInv, Write \/ WriteData
  PROVE  ServerInv'
  BY SendToInv DEF Write, WriteData

LEMMA CloseInv ==
  ASSUME ServerInv, Close
  PROVE  ServerInv'
<1> USE DEF Close, clientVars
<1>1. \A d \in Clients : Call(d)' = Call(d)
  BY DEF Call
<1>2. \A d \in Closing : d \in Clients /\ ~wire[d] /\ client[d] # "connected"
  BY DEF ServerInv, Received, Closing, Serving, Caller, Call
<1>3. \A d \in Clients : link'[d] = link[d] \/ link'[d] = "shut"
  BY DEF Shut
<1>4. TypeOK'
  <2>1. link' \in [Clients -> {"none", "open", "reset", "shut"}]
    BY DEF Shut, ServerInv, TypeOK
  <2>2. QED
    BY <2>1, EmptySeq DEF ServerInv, TypeOK
<1>5. Threads' /\ Current' /\ Received' /\ Handshake'
  <2>1. pc' \in {"accept", "exited"} /\ delayed' # 1
    OBVIOUS
  <2>2. Threads'
    BY <2>1 DEF ServerInv, Threads, Serving
  <2>3. Current' /\ Received' /\ Handshake'
    BY <2>1 DEF Current, Received, Handshake, Serving
  <2>4. QED
    BY <2>2, <2>3
<1>6. CASE run = 1
  <2>1. \A d \in Clients \ Closing : link'[d] = link[d]
    BY <1>6 DEF Shut
  <2>2. \A i \in 1 .. Len(backlog) : backlog[i] \in Clients \ Closing
    BY ElementOfSeq DEF ServerInv, TypeOK, Queue, Closing
  <2>3. Queue'
    BY <1>1, <1>6, <2>1, <2>2 DEF ServerInv, Queue, Serving
  <2>4. Replies'
    BY <1>1, <1>2, <1>6, <2>1 DEF ServerInv, Replies
  <2>5. QED
    BY <1>4, <1>5, <2>3, <2>4 DEF ServerInv
<1>7. CASE run # 1
  <2>1. Queue' /\ Replies'
    BY <1>1, <1>7, EmptySeq DEF ServerInv, Queue, Replies
  <2>2. QED
    BY <1>4, <1>5, <2>1 DEF ServerInv
<1>8. QED
  BY <1>6, <1>7

LEMMA ExitInv ==
  ASSUME ServerInv, Exit
  PROVE  ServerInv'
<1> USE DEF Exit, clientVars
<1>1. \A d \in Clients : Call(d)' = Call(d)
  BY DEF Call
<1>2. TypeOK'
  <2>1. link' \in [Clients -> {"none", "open", "reset", "shut"}]
    BY DEF Shut, ServerInv, TypeOK
  <2>2. QED
    BY <2>1, EmptySeq DEF ServerInv, TypeOK
<1>3. Threads' /\ Queue' /\ Current' /\ Received' /\ Handshake' /\ Replies'
  BY <1>1, EmptySeq DEF ServerInv, Threads, Queue, Current, Received, Handshake,
                        Replies, Serving, Caller
<1>4. QED
  BY <1>2, <1>3 DEF ServerInv

LEMMA StartsInv ==
  ASSUME ServerInv, DevicesStart \/ ModelEnds
  PROVE  ServerInv'
<1> USE DEF DevicesStart, ModelEnds, clientVars, socketVars, serverVars
<1>1. Caller' = Caller /\ \A d \in Clients : Call(d)' = Call(d)
  BY DEF Caller, Call
<1>2. TypeOK'
  BY DEF ServerInv, TypeOK
<1>3. Threads' /\ Queue' /\ Current' /\ Received' /\ Handshake' /\ Replies'
  BY <1>1 DEF ServerInv, Threads, Queue, Current, Received, Handshake, Replies, Serving, Call
<1>4. QED
  BY <1>2, <1>3 DEF ServerInv

LEMMA TickInv ==
  ASSUME ServerInv, Tick
  PROVE  ServerInv'
<1> USE DEF Tick, clientVars, socketVars
<1>1. Caller' = Caller /\ \A d \in Clients : Call(d)' = Call(d)
  BY DEF Caller, Call
<1>2. main' \in {"run", "stopped"} /\ main = "run"
  OBVIOUS
<1>3. CASE delayed = 1
  <2>1. pc = "wait" /\ executed[Caller] = 0
    BY <1>2, <1>3 DEF ServerInv, Handshake
  <2>2. /\ Caller \in Clients /\ conn = Call(Caller)
        /\ \A i \in 1 .. Len(backlog) : backlog[i] # Caller /\ backlog[i] \in Clients
    BY <2>1, NotWaiting DEF Serving
  <2>3. /\ retval' = conn /\ delayed' = 0 /\ executed' = [executed EXCEPT ![Caller] = 1]
        /\ executed' \in [Clients -> {0, 1}]
    <3>1. executed \in [Clients -> {0, 1}]
      BY DEF ServerInv, TypeOK
    <3>2. QED
      BY <1>3, <2>1, <2>2, <3>1 DEF Execute
  <2>4. TypeOK'
    <3>1. retval' \in Answers
      BY <2>1, <2>2, <2>3, AnswerTypes DEF ServerInv, TypeOK, Call
    <3>2. QED
      BY <1>2, <2>3, <3>1 DEF ServerInv, TypeOK
  <2>5. Threads' /\ Queue' /\ Handshake'
    BY <1>1, <1>2, <2>1, <2>2, <2>3 DEF ServerInv, Threads, Queue, Handshake, Serving, Call
  <2>6. Current' /\ Received' /\ Replies'
    BY <1>1, <2>1, <2>2, <2>3 DEF ServerInv, TypeOK, Current, Received, Replies, Serving, Call
  <2>7. QED
    BY <2>4, <2>5, <2>6 DEF ServerInv
<1>4. CASE delayed # 1
  <2>1. TypeOK'
    BY <1>2, <1>4 DEF ServerInv, TypeOK
  <2>2. Threads' /\ Queue' /\ Current' /\ Received' /\ Handshake' /\ Replies'
    BY <1>1, <1>2, <1>4 DEF ServerInv, Threads, Queue, Current, Received, Handshake,
                            Replies, Serving, Call
  <2>3. QED
    BY <2>1, <2>2 DEF ServerInv
<1>5. QED
  BY <1>3, <1>4

LEMMA StepInv ==
  ASSUME AllExecuted, ServerInv, [Next]_vars
  PROVE  ServerInv'
<1>1. ASSUME NEW c \in Clients, Client(c) \/ HangUp(c)
      PROVE  ServerInv'
  BY <1>1, OpenInv, SendInv, FailsInv, ReceiveInv, HangUpInv DEF Client
<1>2. CASE Server \/ OpenFails
  BY <1>2, ServerOpensInv, OpenFailsInv, AcceptInv, ReadInv, ReadFailsInv, PerformInv,
     DelayInv, AwaitInv, WritesInv, CloseInv DEF Server
<1>3. CASE Main \/ DevicesFail \/ BrokenPipe
  BY <1>3, StartsInv, TickInv, ExitInv DEF Main, ProcessExit, DevicesFail, BrokenPipe
<1>4. CASE UNCHANGED vars
  <2>1. TypeOK' /\ Threads' /\ Queue'
    BY <1>4 DEF vars, clientVars, socketVars, serverVars, ServerInv, TypeOK, Threads,
                Queue, Caller, Call
  <2>2. Current' /\ Received' /\ Handshake' /\ Replies'
    BY <1>4 DEF vars, clientVars, socketVars, serverVars, ServerInv, Current, Received,
                Handshake, Replies, Caller, Call
  <2>3. QED
    BY <2>1, <2>2 DEF ServerInv
<1>5. QED
  BY <1>1, <1>2, <1>3, <1>4 DEF Next, Ended

\* The server's, the clients' and the callback's view of the call in hand agree
\* whatever they interleave: shm_thread, tde_gate_cmd_wait and tde_timer_fun.
THEOREM ServerInvariant ==
  ASSUME AllExecuted
  PROVE  Spec => []ServerInv
<1>1. Init => ServerInv
  BY InitInv
<1>2. ServerInv /\ [Next]_vars => ServerInv'
  BY AllExecuted, StepInv
<1>3. QED
  BY <1>1, <1>2, PTL DEF Spec

\* No call is executed twice, and the variables have their types.
THEOREM TypeCorrect ==
  ASSUME AllExecuted
  PROVE  Spec => []TypeOK
<1>1. ServerInv => TypeOK
  BY DEF ServerInv
<1>2. QED
  BY AllExecuted, <1>1, ServerInvariant, PTL

\* The callback executes a command only while the server waits for this one.
THEOREM NoCommandStrays ==
  ASSUME AllExecuted
  PROVE  Spec => []NoStrayCommand
<1>1. ServerInv => NoStrayCommand
  BY DEF ServerInv, Handshake, NoStrayCommand
<1>2. QED
  BY AllExecuted, <1>1, ServerInvariant, PTL

----------------------------------------------------------------------------
(* CmdServer implements CmdService. *)

LEMMA ServiceInit == Init => Service!Init
  BY DEF Init, Service!Init

\* Steps that leave calls, answers and executions alone are not seen outside.
LEMMA Unseen ==
  ASSUME TypeOK, UNCHANGED << calls, answer, executed >>,
         \/ UNCHANGED client
         \/ \E c \in Clients : /\ client[c] = "connected"
                              /\ client' = [client EXCEPT ![c] = "sent"]
  PROVE  UNCHANGED Service!vars
  BY DEF TypeOK, Service!vars

LEMMA ExecuteServes ==
  ASSUME ServerInv, pc \in Serving, executed[Caller] = 0, Execute, UNCHANGED clientVars
  PROVE  Service!Next
<1>1. Caller \in Clients /\ client[Caller] # "quiet"
  BY NotWaiting DEF ServerInv, Current
<1>2. Service!Serve(Caller)
  BY <1>1 DEF Service!Serve, Execute, clientVars, ServerInv, TypeOK
<1>3. QED
  BY <1>1, <1>2 DEF Service!Next

LEMMA ClientServes ==
  ASSUME ServerInv, NEW c \in Clients, Client(c) \/ HangUp(c)
  PROVE  [Service!Next]_Service!vars
<1>1. client \in [Clients -> {"quiet", "connected", "sent", "gone"}]
  BY DEF ServerInv, TypeOK
<1>2. ASSUME NEW k \in Commands, Open(c, k), listening
      PROVE  Service!Ask(c)
  BY <1>1, <1>2 DEF Open, Service!Ask, Service!Begin
<1>3. ASSUME NEW k \in Commands, Open(c, k), ~listening
      PROVE  Service!Refuse(c)
  BY <1>1, <1>3 DEF Open, Service!Refuse, Service!Begin
<1>4. CASE Send(c)
  BY <1>4, Unseen DEF Send, ServerInv
<1>5. CASE SendFails(c) \/ ReceiveFails(c)
  <2>1. Service!Fail(c)
    BY <1>1, <1>5 DEF SendFails, ReceiveFails, Fails, Service!Fail
  <2>2. QED
    BY <2>1 DEF Service!Next
<1>6. CASE Receive(c)
  <2>1. inbox[c] # << >>
    BY <1>6, EmptySeq DEF Receive, Complete, ServerInv, TypeOK
  <2>2. executed[c] = 1 /\ Head(inbox[c]) = Call(c)
    BY <1>6, <2>1 DEF Receive, ServerInv, Replies
  <2>3. Service!Reply(c)
    BY <1>1, <1>6, <2>2 DEF Receive, Call, Service!Reply, Service!Result
  <2>4. QED
    BY <2>3 DEF Service!Next
<1>7. CASE HangUp(c)
  <2>1. Service!BreakOff(c)
    BY <1>1, <1>7 DEF HangUp, Service!BreakOff
  <2>2. QED
    BY <2>1 DEF Service!Next
<1>8. QED
  BY <1>2, <1>3, <1>4, <1>5, <1>6, <1>7 DEF Client, Service!Next

LEMMA StepServes ==
  ASSUME AllExecuted, ServerInv, [Next]_vars
  PROVE  [Service!Next]_Service!vars
<1>1. ASSUME NEW c \in Clients, Client(c) \/ HangUp(c)
      PROVE  [Service!Next]_Service!vars
  BY <1>1, ClientServes
<1>2. CASE Perform
  <2>1. pc \in Serving /\ executed[Caller] = 0 /\ Caller \in Clients
    BY <1>2, NotWaiting DEF Perform, ServerInv, Current, Serving
  <2>2. Execute
    BY <1>2, <2>1, ServerAssumption DEF Perform, AllExecuted, ServerInv, TypeOK
  <2>3. QED
    BY <1>2, <2>1, <2>2, ExecuteServes DEF Perform
<1>3. CASE Tick /\ delayed = 1
  <2>1. pc = "wait" /\ executed[Caller] = 0
    BY <1>3 DEF Tick, ServerInv, Handshake
  <2>2. QED
    BY <1>3, <2>1, ExecuteServes DEF Tick, Serving
<1>4. CASE UNCHANGED << clientVars, executed >>
  BY <1>4, Unseen DEF clientVars, ServerInv
<1>5. CASE Server \/ OpenFails
  BY <1>2, <1>4, <1>5 DEF Server, OpenFails, ServerOpens, Accept, Read, ReadFails, Delay,
     Await, Write, WriteData, Close
<1>6. CASE Main \/ DevicesFail \/ BrokenPipe
  BY <1>3, <1>4, <1>6 DEF Main, DevicesStart, ModelEnds, Tick, ProcessExit, DevicesFail,
     BrokenPipe, Exit, clientVars
<1>7. CASE UNCHANGED vars
  BY <1>4, <1>7 DEF vars
<1>8. QED
  BY <1>1, <1>5, <1>6, <1>7 DEF Next, Ended

\* Whatever clients and threads do, each call is executed at most once, while it
\* is under way, and answered with its own result or an error.
THEOREM CallsAreServed ==
  ASSUME AllExecuted
  PROVE  Spec => ServesCalls
<1>1. Init => Service!Init
  BY ServiceInit
<1>2. ServerInv /\ [Next]_vars => [Service!Next]_Service!vars
  BY AllExecuted, StepServes
<1>3. QED
  BY AllExecuted, <1>1, <1>2, ServerInvariant, PTL DEF Spec, ServesCalls, Service!Spec

----------------------------------------------------------------------------
(***************************************************************************)
(* The exchange over the socket: what the client has read and what is on   *)
(* its way are, one behind the other, what the server has written for this *)
(* call so far; and a read that ended has at least what it asked for.      *)
(***************************************************************************)
Pieces == {"shm", "data"} \X Nat

\* Concatenation, opaque where only its laws are needed.
s ++ t == s \o t

Reply == Message("shm", FsHead) ++
         (IF fsCall = "data" THEN Message("data", FsData) ELSE << >>)

Written == CASE fsServer = "read" -> << >>
             [] fsServer = "write data" -> Message("shm", FsHead)
             [] OTHER -> Reply

StreamTypes ==
  /\ fsShm \in Seq(Pieces) /\ fsBuf \in Seq(Pieces) /\ fsDown \in Seq(Pieces)
  /\ fsCall \in {"plain", "data"}
  /\ fsServer = "write data" => fsCall = "data"

InPlace == fsClient # "idle" => (fsShm ++ fsBuf) ++ fsDown = Written

ReadSoFar ==
  /\ fsClient = "read head" => fsBuf = << >>
  /\ fsClient = "read data" => fsCall = "data" /\ Len(fsShm) >= FsHead
  /\ fsClient \in {"close", "done"} =>
       /\ Len(fsShm) >= FsHead
       /\ IF fsCall = "data" THEN Len(fsBuf) >= FsData ELSE fsBuf = << >>

StreamInv == StreamTypes /\ InPlace /\ ReadSoFar

\* A message is as long as it says, and a recv takes off the front what it keeps.
LEMMA MessageType ==
  ASSUME NEW kind \in {"shm", "data"}, NEW n \in Nat
  PROVE  Message(kind, n) \in Seq(Pieces) /\ Len(Message(kind, n)) = n
BY DEF Message, Pieces

LEMMA RecvSplits ==
  ASSUME NEW S, NEW s \in Seq(S), NEW len, NEW n \in Recv(s, len)
  PROVE  /\ Taken(s, n) \in Seq(S) /\ Dropped(s, n) \in Seq(S)
         /\ Taken(s, n) ++ Dropped(s, n) = s
<1>1. n \in 1 .. Len(s) /\ Len(s) \in Nat
  BY DEF Recv
<1>2. Taken(s, n) \in Seq(S) /\ Dropped(s, n) \in Seq(S)
  BY <1>1 DEF Taken, Dropped
<1>3. Taken(s, n) ++ Dropped(s, n) = SubSeq(s, 1, Len(s))
  BY <1>1, ConcatAdjacentSubSeq DEF Taken, Dropped, ++
<1> QED
  BY <1>2, <1>3, SubSeqFull

LEMMA Joined ==
  ASSUME NEW S, NEW s \in Seq(S), NEW t \in Seq(S)
  PROVE  /\ s ++ t \in Seq(S) /\ Len(s ++ t) = Len(s) + Len(t)
         /\ s ++ << >> = s /\ << >> ++ s = s
BY ConcatProperties, ConcatEmptySeq DEF ++

LEMMA Regroup ==
  ASSUME NEW S, NEW s \in Seq(S), NEW t \in Seq(S), NEW u \in Seq(S)
  PROVE  (s ++ t) ++ u = s ++ (t ++ u)
BY ConcatAssociative DEF ++

LEMMA Behind ==
  ASSUME NEW S, NEW a \in Seq(S), NEW b \in Seq(S), NEW c \in Seq(S), NEW d \in Seq(S)
  PROVE  (a ++ b) ++ (c ++ d) = ((a ++ b) ++ c) ++ d
<1>1. a ++ b \in Seq(S)
  BY Joined
<1> QED
  BY <1>1, Regroup

\* Whichever buffer takes them, the pieces stay in order.
LEMMA TakenInOrder ==
  ASSUME NEW S, NEW a \in Seq(S), NEW b \in Seq(S), NEW down \in Seq(S),
         NEW len, NEW n \in Recv(down, len)
  PROVE  (a ++ (b ++ Taken(down, n))) ++ Dropped(down, n) = (a ++ b) ++ down
<1>1. /\ Taken(down, n) \in Seq(S) /\ Dropped(down, n) \in Seq(S)
      /\ Taken(down, n) ++ Dropped(down, n) = down
  BY RecvSplits
<1>2. a ++ b \in Seq(S)
  BY Joined
<1>3. a ++ (b ++ Taken(down, n)) = (a ++ b) ++ Taken(down, n)
  BY <1>1, Regroup
<1>4. ((a ++ b) ++ Taken(down, n)) ++ Dropped(down, n) =
        (a ++ b) ++ (Taken(down, n) ++ Dropped(down, n))
  BY <1>1, <1>2, Regroup
<1> QED
  BY <1>1, <1>3, <1>4

LEMMA InitStream == FsInit => StreamInv
<1> SUFFICES ASSUME FsInit PROVE StreamInv
  OBVIOUS
<1> QED
  BY EmptySeq DEF FsInit, StreamInv, StreamTypes, InPlace, ReadSoFar

\* What is written goes behind what has been.
WritesOn(m) ==
  /\ fsDown' = fsDown ++ m /\ Written' = Written ++ m
  /\ fsServer' = "write data" => fsCall = "data"
  /\ UNCHANGED << fsCall, fsClient, fsShm, fsBuf >>

LEMMA WriteInv ==
  ASSUME StreamInv, NEW m \in Seq(Pieces), WritesOn(m)
  PROVE  StreamInv'
<1>1. fsShm \in Seq(Pieces) /\ fsBuf \in Seq(Pieces) /\ fsDown \in Seq(Pieces)
  BY DEF StreamInv, StreamTypes
<1>2. fsDown ++ m \in Seq(Pieces)
  BY <1>1, Joined
<1>3. (fsShm ++ fsBuf) ++ (fsDown ++ m) = ((fsShm ++ fsBuf) ++ fsDown) ++ m
  BY <1>1, Behind
<1>4. StreamTypes' /\ ReadSoFar'
  BY <1>2 DEF WritesOn, StreamInv, StreamTypes, ReadSoFar
<1>5. InPlace'
  BY <1>3 DEF WritesOn, StreamInv, InPlace
<1> QED
  BY <1>4, <1>5 DEF StreamInv

LEMMA StepStream == StreamInv /\ [FsNext]_fsVars => StreamInv'
<1> SUFFICES ASSUME StreamInv, [FsNext]_fsVars PROVE StreamInv'
  OBVIOUS
<1>1. StreamTypes /\ InPlace /\ ReadSoFar
  BY DEF StreamInv
<1>2. ASSUME NEW call \in {"plain", "data"}, FsRequest(call) PROVE StreamInv'
  <2>1. << >> \in Seq(Pieces) /\ (<< >> ++ << >>) ++ << >> = << >>
    BY EmptySeq, Joined
  <2>2. Written' = << >>
    BY <1>2 DEF FsRequest, Written
  <2>3. InPlace'
    BY <1>2, <2>1, <2>2 DEF FsRequest, InPlace
  <2>4. StreamTypes' /\ ReadSoFar'
    BY <1>2, <2>1 DEF FsRequest, StreamTypes, ReadSoFar
  <2> QED
    BY <2>3, <2>4 DEF StreamInv
<1>3. CASE FsServerRead
  BY <1>1, <1>3
  DEF FsServerRead, StreamInv, StreamTypes, InPlace, ReadSoFar, Written, Reply
<1>4. CASE FsReply
  <2> DEFINE m == Message("shm", FsHead)
  <2>1. m \in Seq(Pieces)
    BY MessageType, StreamAssumption
  <2>2. Written = << >> /\ Written' = m
    <3>1. fsCall' = fsCall /\ fsCall \in {"plain", "data"}
      BY <1>1, <1>4 DEF FsReply, StreamTypes
    <3>2. CASE fsCall = "data"
      BY <1>4, <3>1, <3>2 DEF FsReply, Written
    <3>3. CASE fsCall # "data"
      BY <1>4, <2>1, <3>1, <3>3, Joined DEF FsReply, Written, Reply
    <3> QED
      BY <3>2, <3>3
  <2>3. << >> ++ m = m
    BY <2>1, EmptySeq, Joined
  <2> HIDE DEF m
  <2>4. fsDown' = fsDown ++ m
    BY <1>4 DEF FsReply, m, ++
  <2>5. /\ fsServer' = "write data" => fsCall = "data"
        /\ UNCHANGED << fsCall, fsClient, fsShm, fsBuf >>
    BY <1>4 DEF FsReply
  <2> QED
    BY <2>1, <2>2, <2>3, <2>4, <2>5, WriteInv DEF WritesOn
<1>5. CASE FsReplyData
  <2>1. Message("data", FsData) \in Seq(Pieces)
    BY MessageType, StreamAssumption
  <2>2. Written' = Written ++ Message("data", FsData)
    BY <1>1, <1>5 DEF FsReplyData, StreamTypes, Written, Reply
  <2>3. fsDown' = fsDown ++ Message("data", FsData)
    BY <1>5 DEF FsReplyData, ++
  <2>4. /\ fsServer' = "write data" => fsCall = "data"
        /\ UNCHANGED << fsCall, fsClient, fsShm, fsBuf >>
    BY <1>5 DEF FsReplyData
  <2> QED
    BY <2>1, <2>2, <2>3, <2>4, WriteInv DEF WritesOn
<1>6. CASE FsClose
  BY <1>1, <1>6
  DEF FsClose, StreamInv, StreamTypes, InPlace, ReadSoFar, Written, Reply
<1>7. CASE FsReadHead
  <2>1. PICK n \in Recv(fsDown, FsHead) :
          fsShm' = fsShm ++ Taken(fsDown, n) /\ fsDown' = Dropped(fsDown, n)
    BY <1>7 DEF FsReadHead, ++
  <2>2. /\ fsClient = "read head" /\ fsBuf = << >>
        /\ UNCHANGED << fsCall, fsClient, fsServer, fsBuf >>
    BY <1>1, <1>7 DEF FsReadHead, ReadSoFar
  <2>3. fsShm \in Seq(Pieces) /\ << >> \in Seq(Pieces) /\ fsDown \in Seq(Pieces)
    BY <1>1, EmptySeq DEF StreamTypes
  <2>4. fsShm' \in Seq(Pieces) /\ fsDown' \in Seq(Pieces)
    BY <2>1, <2>3, RecvSplits, Joined
  <2>5. (fsShm ++ Taken(fsDown, n)) ++ Dropped(fsDown, n) = fsShm ++ fsDown
    <3>1. Taken(fsDown, n) \in Seq(Pieces) /\ Dropped(fsDown, n) \in Seq(Pieces)
          /\ Taken(fsDown, n) ++ Dropped(fsDown, n) = fsDown
      BY <2>3, RecvSplits
    <3> QED
      BY <2>3, <3>1, Regroup
  <2>6. fsShm' ++ << >> = fsShm' /\ fsShm ++ << >> = fsShm
    BY <2>3, <2>4, Joined
  <2>7. (fsShm' ++ fsBuf') ++ fsDown' = (fsShm ++ fsBuf) ++ fsDown
    BY <2>1, <2>2, <2>5, <2>6
  <2>8. Written' = Written
    BY <2>2 DEF Written, Reply
  <2> QED
    BY <1>1, <2>2, <2>4, <2>7, <2>8
    DEF StreamInv, StreamTypes, InPlace, ReadSoFar
<1>8. CASE FsHeadRead
  BY <1>1, <1>8
  DEF FsHeadRead, Enough, StreamInv, StreamTypes, InPlace, ReadSoFar, Written, Reply
<1>9. CASE FsReadData
  <2>1. PICK n \in Recv(fsDown, FsData) :
          fsBuf' = fsBuf ++ Taken(fsDown, n) /\ fsDown' = Dropped(fsDown, n)
    BY <1>9 DEF FsReadData, ++
  <2>2. /\ fsClient = "read data"
        /\ UNCHANGED << fsCall, fsClient, fsServer, fsShm >>
    BY <1>9 DEF FsReadData
  <2>3. fsShm \in Seq(Pieces) /\ fsBuf \in Seq(Pieces) /\ fsDown \in Seq(Pieces)
    BY <1>1 DEF StreamTypes
  <2>4. fsBuf' \in Seq(Pieces) /\ fsDown' \in Seq(Pieces)
    BY <2>1, <2>3, RecvSplits, Joined
  <2>5. (fsShm ++ (fsBuf ++ Taken(fsDown, n))) ++ Dropped(fsDown, n) =
          (fsShm ++ fsBuf) ++ fsDown
    BY <2>3, TakenInOrder
  <2>6. Written' = Written
    BY <2>2 DEF Written, Reply
  <2> QED
    BY <1>1, <2>1, <2>2, <2>4, <2>5, <2>6
    DEF StreamInv, StreamTypes, InPlace, ReadSoFar
<1>10. CASE FsDataRead
  BY <1>1, <1>10
  DEF FsDataRead, Enough, StreamInv, StreamTypes, InPlace, ReadSoFar, Written, Reply
<1>11. CASE FsDisconnected
  BY <1>1, <1>11
  DEF FsDisconnected, StreamInv, StreamTypes, InPlace, ReadSoFar, Written, Reply
<1>12. CASE FsHangUp
  BY <1>1, <1>12
  DEF FsHangUp, StreamInv, StreamTypes, InPlace, ReadSoFar, Written, Reply
<1>13. CASE UNCHANGED fsVars
  BY <1>1, <1>13
  DEF fsVars, StreamInv, StreamTypes, InPlace, ReadSoFar, Written, Reply
<1> QED
  BY <1>2, <1>3, <1>4, <1>5, <1>6, <1>7, <1>8, <1>9, <1>10, <1>11, <1>12, <1>13
  DEF FsNext

\* Of two ways to divide a sequence, neither of which has a shorter part, both are the
\* same.
LEMMA SplitsAlike ==
  ASSUME NEW S, NEW a \in Seq(S), NEW b \in Seq(S), NEW c \in Seq(S), NEW d \in Seq(S),
         a ++ b = c ++ d, Len(a) >= Len(c), Len(b) >= Len(d)
  PROVE  a = c /\ b = d
<1>1. Len(a) + Len(b) = Len(c) + Len(d) /\ Len(a) \in Nat /\ Len(b) \in Nat
      /\ Len(c) \in Nat /\ Len(d) \in Nat
  <2>1. Len(a ++ b) = Len(a) + Len(b) /\ Len(c ++ d) = Len(c) + Len(d)
    BY Joined
  <2> QED
    BY <2>1
<1>2. Len(a) = Len(c) /\ Len(b) = Len(d)
  BY <1>1
<1>3. \A i \in 1 .. Len(a) + Len(b) :
        /\ (a ++ b)[i] = IF i <= Len(a) THEN a[i] ELSE b[i - Len(a)]
        /\ (c ++ d)[i] = IF i <= Len(c) THEN c[i] ELSE d[i - Len(c)]
  BY <1>2, ConcatProperties DEF ++
<1>4. \A i \in 1 .. Len(a) : a[i] = c[i]
  BY <1>1, <1>2, <1>3
<1>5. \A i \in 1 .. Len(b) : b[i] = d[i]
  <2> SUFFICES ASSUME NEW i \in 1 .. Len(b) PROVE b[i] = d[i]
    OBVIOUS
  <2>1. Len(a) + i \in 1 .. Len(a) + Len(b) /\ ~(Len(a) + i <= Len(a))
        /\ (Len(a) + i) - Len(a) = i
    BY <1>1
  <2> QED
    BY <1>2, <1>3, <2>1
<1> QED
  BY <1>2, <1>4, <1>5, SeqEqual

\* A read that has taken enough has taken its message and no more.
LEMMA ReadWhole == StreamInv => ReplyWhole
<1> DEFINE head == Message("shm", FsHead)
           data == IF fsCall = "data" THEN Message("data", FsData) ELSE << >>
<1> SUFFICES ASSUME StreamInv, fsClient = "done" PROVE fsShm = head /\ fsBuf = data
  BY DEF ReplyWhole
<1>1. /\ fsShm \in Seq(Pieces) /\ fsBuf \in Seq(Pieces) /\ fsDown \in Seq(Pieces)
      /\ (fsShm ++ fsBuf) ++ fsDown = Written
  BY DEF StreamInv, StreamTypes, InPlace
<1>2. head \in Seq(Pieces) /\ data \in Seq(Pieces) /\ << >> \in Seq(Pieces)
      /\ Len(head) = FsHead /\ Len(data) = (IF fsCall = "data" THEN FsData ELSE 0)
  BY MessageType, StreamAssumption, EmptySeq
<1>3. Len(fsShm) >= Len(head) /\ Len(fsBuf) >= Len(data)
  BY <1>2, EmptySeq DEF StreamInv, ReadSoFar
<1>4. Written \in {<< >>, head, head ++ data}
  BY DEF Written, Reply
<1> HIDE DEF head, data
<1>5. head \in Seq(Pieces) /\ data \in Seq(Pieces) /\ Len(head) \in Nat \ {0}
  BY <1>2, StreamAssumption
<1>6. Len(head ++ data) = Len(head) + Len(data) /\ Len(<< >>) = 0 /\ Len(data) \in Nat
      /\ head ++ << >> = head
  BY <1>5, EmptySeq, Joined
<1>7. Len(Written) = (Len(fsShm) + Len(fsBuf)) + Len(fsDown)
      /\ Len(fsShm) \in Nat /\ Len(fsBuf) \in Nat /\ Len(fsDown) \in Nat
  <2>1. fsShm ++ fsBuf \in Seq(Pieces) /\ Len(fsShm ++ fsBuf) = Len(fsShm) + Len(fsBuf)
    BY <1>1, Joined
  <2>2. Len((fsShm ++ fsBuf) ++ fsDown) = Len(fsShm ++ fsBuf) + Len(fsDown)
    BY <1>1, <2>1, Joined
  <2> QED
    BY <1>1, <2>1, <2>2
<1>8. Len(fsDown) = 0 /\ Len(Written) = Len(head) + Len(data)
  BY <1>3, <1>4, <1>5, <1>6, <1>7
<1>9. fsShm ++ fsBuf = Written
  <2>1. fsDown = << >>
    BY <1>1, <1>8, EmptySeq
  <2>2. fsShm ++ fsBuf \in Seq(Pieces)
    BY <1>1, Joined
  <2> QED
    BY <1>1, <2>1, <2>2, Joined
<1>10. Written = head ++ data
  <2>1. CASE Written = << >>
    BY <1>5, <1>6, <1>8, <2>1
  <2>2. CASE Written = head
    <3>1. data = << >>
      BY <1>5, <1>6, <1>8, <2>2, EmptySeq
    <3> QED
      BY <1>6, <2>2, <3>1
  <2> QED
    BY <1>4, <2>1, <2>2
<1> QED
  BY <1>1, <1>3, <1>5, <1>9, <1>10, SplitsAlike

(***************************************************************************)
(* A call that succeeds for the client gave it the whole reply and nothing *)
(* else, however TCP cut it and although each recv of incomm_client_read   *)
(* asks for the whole length again: pieces of the data that the first read *)
(* took would be missing for the second.                                   *)
(***************************************************************************)
THEOREM RepliesAreWhole == FsSpec => []ReplyWhole
<1>1. FsSpec => []StreamInv
  BY InitStream, StepStream, PTL DEF FsSpec
<1> QED
  BY <1>1, ReadWhole, PTL
====
