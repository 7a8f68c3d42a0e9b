------------------------ MODULE LogServiceProofs ------------------------
(***************************************************************************)
(* What holds of the logging server for any number of clients and          *)
(* datagrams: its log file holds what it received.                         *)
(***************************************************************************)
EXTENDS LogService, SequenceTheorems, TLAPS

\* FileFaithful is inductive together with the types.
IInv == SvcTypeOK /\ FileFaithful

USE DEF DEBUG, WARNING, ERROR, CRITICAL, LOG_LEVEL, Sockets

Packets == [from : Sockets, data : Contents]
Texts   == Contents \ {Blank}

\* What the two programs put in a buffer is a content of it.
LEMMA ContentTypes ==
    /\ Blank \in Contents
    /\ \A n \in 1..MaxCalls : Record(n) \in Contents
    /\ \A l \in LOG_LEVEL : Command(l) \in Contents
BY DEF Contents, Blank, Record, Command

\* A queue of a type stays one.
LEMMA EnqueueType ==
    ASSUME NEW S, NEW queue \in Seq(S), NEW x \in S
    PROVE  Enqueue(queue, x) \in Seq(S)
BY DEF Enqueue

\* Appending to a sequence and concatenating one element are the same.
LEMMA AppendOne ==
    ASSUME NEW S, NEW seq \in Seq(S), NEW x \in S
    PROVE  /\ Append(seq, x) = seq \o <<x>>
           /\ seq \o <<>> = seq
           /\ Append(seq, x) \o <<>> = seq \o <<x>>
BY AppendProperties

\* The server starts with nothing received and nothing written.
LEMMA InitEstablishes == SvcInit => IInv
<1> SUFFICES ASSUME SvcInit PROVE IInv
    OBVIOUS
<1>1. SvcTypeOK
  <2>1. inbox \in [Sockets -> Seq(Contents)] /\ toServer \in Seq(Packets)
    BY DEF SvcInit
  <2>2. logFile \in Seq(Texts) /\ received \in Seq(Texts)
    BY DEF SvcInit, Init
  <2>3. TypeOK
    BY <2>2, ContentTypes DEF SvcInit, Init, TypeOK, Texts
  <2>4. sent \in 0..MaxCalls
    BY BoundsAssumption DEF SvcInit, BoundsAssumption
  <2>5. spoiled \in BOOLEAN
    BY DEF SvcInit
  <2> QED BY <2>1, <2>2, <2>3, <2>4, <2>5 DEF SvcTypeOK, Packets, Texts
<1>2. FileFaithful
  <2>1. Pending = <<>> /\ logFile = <<>> /\ received = <<>>
    BY DEF SvcInit, Init, Pending
  <2>2. logFile \in Seq(Texts)
    BY <2>1
  <2> QED BY <2>1, <2>2, ConcatEmptySeq DEF FileFaithful
<1> QED BY <1>1, <1>2 DEF IInv

-----------------------------------------------------------------------------
(* The main thread.                                                        *)

\* A step of the main thread, or SIGINT, keeps the types (LogServer.cpp:112-255).
LEMMA MainTypes ==
    ASSUME SvcTypeOK, MainStep \/ SigInt
    PROVE  TypeOK' /\ toServer' = toServer /\ inbox' \in [Sockets -> Seq(Contents)]
<1> USE DEF SvcTypeOK, TypeOK, Goto, flags, recvVars, fileVars, mainVars
<1>1. CASE Menu
  BY <1>1 DEF Menu
<1>2. ASSUME NEW choice \in Choices, Select(choice)
      PROVE  TypeOK' /\ toServer' = toServer /\ inbox' = inbox
  <2>1. /\ cinOk' \in BOOLEAN /\ isWorking' \in BOOLEAN /\ inputWorking' \in BOOLEAN
        /\ mpc' \in {"setlevel", "dump", "loop"}
    BY <1>2 DEF Select
  <2>2. UNCHANGED <<buf, client_address, level, recvVars, fileVars, toServer, inbox>>
    BY <1>2 DEF Select
  <2> QED BY <2>1, <2>2
<1>3. ASSUME NEW choice \in Choices, SetLevel(choice)
      PROVE  TypeOK' /\ toServer' = toServer /\ inbox' = inbox
  BY <1>3 DEF SetLevel, Extraction, Named
<1>4. CASE SendMemset
  BY <1>4, ContentTypes DEF SendMemset
<1>5. CASE SendSprintf
  <2>1. buf' \in Contents
    BY <1>5, ContentTypes DEF SendSprintf
  <2> QED BY <1>5, <2>1 DEF SendSprintf
<1>6. CASE SendSendto
  <2>1. inbox' \in [Sockets -> Seq(Contents)]
    <3>1. \A s \in Sockets : Enqueue(inbox[s], buf) \in Seq(Contents)
      BY EnqueueType
    <3> QED BY <1>6, <3>1 DEF SendSendto
  <2> QED BY <1>6, <2>1 DEF SendSendto
<1>7. CASE Dump
  BY <1>7 DEF Dump
<1>8. CASE SigInt
  <2>1. cinOk' \in BOOLEAN /\ isWorking' \in BOOLEAN /\ inputWorking' \in BOOLEAN
    BY <1>8 DEF SigInt
  <2>2. UNCHANGED <<buf, client_address, mpc, level, recvVars, fileVars, toServer, inbox>>
    BY <1>8 DEF SigInt
  <2> QED BY <2>1, <2>2
<1> QED BY <1>1, <1>2, <1>3, <1>4, <1>5, <1>6, <1>7, <1>8 DEF MainStep

\* The main thread touches neither the receive thread's state nor the file.
LEMMA MainLeaves ==
    ASSUME MainStep \/ SigInt
    PROVE  UNCHANGED <<rpc, message, logFile>>
BY DEF MainStep, SigInt, Menu, Select, SetLevel, SendMemset, SendSprintf, SendSendto, Dump,
       recvVars, fileVars

\* A step of the main thread, or SIGINT, leaves the file faithful, or spoils the
\* text that was received (LogServer.cpp:112-255).
LEMMA MainFaithful ==
    ASSUME IInv, MainStep \/ SigInt, Remember
    PROVE  FileFaithful' /\ received' = received
<1>1. UNCHANGED <<rpc, message, logFile>>
  BY MainLeaves
<1>2. received' = received
  BY <1>1 DEF Remember
<1>3. CASE buf' = buf
  BY <1>1, <1>2, <1>3 DEF Remember, IInv, FileFaithful, Pending
<1>4. CASE buf' # buf /\ rpc = "copy"
  BY <1>2, <1>4 DEF Remember, FileFaithful
<1>5. CASE buf' # buf /\ rpc # "copy"
  BY <1>1, <1>2, <1>5 DEF Remember, IInv, FileFaithful, Pending
<1> QED BY <1>2, <1>3, <1>4, <1>5

-----------------------------------------------------------------------------
(* The receive thread.                                                     *)

\* A received datagram is typed, and its queue stays so (LogServer.cpp:278).
LEMMA ReceiveGets ==
    ASSUME SvcTypeOK, Receive
    PROVE  /\ buf' \in Contents
           /\ client_address' \in Sockets
           /\ toServer' \in Seq(Packets)
<1>1. toServer \in Seq(Packets) /\ toServer # <<>>
  BY DEF SvcTypeOK, Receive, Packets
<1>2. Head(toServer) \in Packets /\ Tail(toServer) \in Seq(Packets)
  BY <1>1
<1> QED BY <1>2 DEF Receive, Packets

\* A step of the receive thread keeps the types (LogServer.cpp:264-292).
LEMMA ReceiverTypes ==
    ASSUME SvcTypeOK, ReceiverStep
    PROVE  TypeOK' /\ toServer' \in Seq(Packets) /\ inbox' = inbox
<1> USE DEF SvcTypeOK, TypeOK, Packets, flags, recvVars, fileVars, mainVars
<1>1. CASE Poll
  BY <1>1, ContentTypes DEF Poll
<1>2. CASE OpenFile
  BY <1>2 DEF OpenFile
<1>3. CASE Receive
  BY <1>3, ReceiveGets DEF Receive
<1>4. CASE ReceiveNothing
  BY <1>4 DEF ReceiveNothing
<1>5. CASE Copy
  BY <1>5 DEF Copy
<1>6. CASE Write
  <2>1. logFile' \in Seq(Texts)
    BY <1>6 DEF Write, Texts
  <2> QED BY <1>6, <2>1, ContentTypes DEF Write, Texts
<1>7. CASE WriteToNull
  BY <1>7 DEF WriteToNull, Goto
<1> QED BY <1>1, <1>2, <1>3, <1>4, <1>5, <1>6, <1>7 DEF ReceiverStep

\* A step of the receive thread moves a text on, from the socket to the file,
\* and neither loses nor repeats it (LogServer.cpp:271-291).
LEMMA ReceiverFaithful ==
    ASSUME IInv, ReceiverStep, Remember
    PROVE  FileFaithful' /\ received' \in Seq(Texts)
<1>0. /\ logFile \in Seq(Texts) /\ received \in Seq(Texts)
      /\ buf \in Contents /\ message \in Contents
  BY DEF IInv, SvcTypeOK, TypeOK, Texts
<1> USE DEF fileVars, Remember, FileFaithful
<1>1. CASE Poll
  BY <1>0, <1>1 DEF Poll, Pending, IInv
<1>2. CASE OpenFile
  BY <1>0, <1>2 DEF OpenFile, Pending, IInv
<1>3. CASE Receive
  <2>1. Pending = <<>> /\ logFile' = logFile /\ spoiled' = spoiled
    BY <1>3 DEF Receive, Pending, IInv, SvcTypeOK
  <2>2. ~spoiled => logFile = received
    BY <1>0, <2>1, AppendOne DEF IInv
  <2>3. CASE buf' = Blank
    <3>1. Pending' = <<>> /\ received' = received
      BY <1>3, <2>3 DEF Receive, Pending
    <3> QED BY <1>0, <2>1, <2>2, <3>1, AppendOne
  <2>4. CASE buf' # Blank
    <3>1. Pending' = <<buf'>> /\ received' = Append(received, buf')
      BY <1>3, <2>4 DEF Receive, Pending
    <3>2. buf' \in Texts
      BY <1>3, <2>4, ReceiveGets DEF IInv, Texts
    <3>3. received' \in Seq(Texts) /\ received' = received \o <<buf'>>
      BY <1>0, <3>1, <3>2, AppendOne
    <3> QED BY <2>1, <2>2, <3>1, <3>3
  <2> QED BY <2>3, <2>4
<1>4. CASE ReceiveNothing
  BY <1>0, <1>4 DEF ReceiveNothing, Pending, IInv
<1>5. CASE Copy
  BY <1>0, <1>5 DEF Copy, Pending, IInv
<1>6. CASE Write
  <2>1. Pending' = <<>> /\ received' = received /\ spoiled' = spoiled
    BY <1>6 DEF Write, Pending, IInv, SvcTypeOK
  <2>2. logFile' \o <<>> = logFile \o Pending
    <3>1. CASE message = Blank
      BY <1>6, <3>1 DEF Write, Pending
    <3>2. CASE message # Blank
      <4>1. message \in Texts
        BY <1>0, <3>2 DEF Texts
      <4>2. logFile' = Append(logFile, message) /\ Pending = <<message>>
        BY <1>6, <3>2 DEF Write, Pending
      <4> QED BY <1>0, <4>1, <4>2, AppendOne
    <3> QED BY <3>1, <3>2
  <2> QED BY <1>0, <2>1, <2>2 DEF IInv
<1>7. CASE WriteToNull
  BY <1>0, <1>7 DEF WriteToNull, recvVars, Pending, IInv
<1> QED BY <1>1, <1>2, <1>3, <1>4, <1>5, <1>6, <1>7 DEF ReceiverStep

-----------------------------------------------------------------------------
\* A step of the server.
LEMMA ServePreserves == IInv /\ Serve => IInv'
<1> SUFFICES ASSUME IInv, Serve PROVE IInv'
    OBVIOUS
<1>1. Step /\ Remember /\ sent' = sent /\ SvcTypeOK
  BY DEF IInv, Serve
<1>2. spoiled' \in BOOLEAN
  BY <1>1 DEF Remember, SvcTypeOK
<1>3. CASE MainStep \/ SigInt
  BY <1>1, <1>2, <1>3, MainTypes, MainFaithful DEF IInv, SvcTypeOK
<1>4. CASE ReceiverStep
  BY <1>1, <1>2, <1>4, ReceiverTypes, ReceiverFaithful DEF IInv, SvcTypeOK, Packets, Texts
<1> QED BY <1>1, <1>3, <1>4 DEF Step

\* A step of a client.
LEMMA ClientPreserves ==
    ASSUME NEW s \in Sockets, IInv, ClientSends(s) \/ ClientReceives(s)
    PROVE  IInv'
<1> USE DEF flags, recvVars, fileVars, mainVars
<1>1. FileFaithful'
  BY DEF ClientSends, ClientReceives, IInv, FileFaithful, Pending
<1>2. CASE ClientSends(s)
  <2>1. PICK content \in {Blank, Record(sent')} :
            toServer' = Enqueue(toServer, [from |-> s, data |-> content])
    BY <1>2 DEF ClientSends
  <2>2. sent' \in 1..MaxCalls
    BY <1>2, BoundsAssumption DEF ClientSends, IInv, SvcTypeOK, BoundsAssumption
  <2>3. content \in Contents
    BY <2>1, <2>2, ContentTypes
  <2>4. [from |-> s, data |-> content] \in Packets
    BY <2>3 DEF Packets
  <2>5. toServer' \in Seq(Packets)
    BY <2>1, <2>4, EnqueueType DEF IInv, SvcTypeOK, Packets
  <2>6. UNCHANGED <<flags, buf, client_address, mainVars, recvVars, fileVars, inbox,
                    received, spoiled>>
    BY <1>2 DEF ClientSends
  <2>7. TypeOK'
    BY <2>6 DEF IInv, SvcTypeOK, TypeOK
  <2> QED BY <1>1, <2>2, <2>5, <2>6, <2>7 DEF IInv, SvcTypeOK, Packets
<1>3. CASE ClientReceives(s)
  <2>1. Tail(inbox[s]) \in Seq(Contents)
    <3>1. inbox[s] # <<>>
      BY <1>3 DEF ClientReceives
    <3>2. inbox[s] \in Seq(Contents)
      BY DEF IInv, SvcTypeOK
    <3> QED BY <3>1, <3>2, HeadTailProperties
  <2>2. inbox' \in [Sockets -> Seq(Contents)]
    BY <1>3, <2>1 DEF ClientReceives, IInv, SvcTypeOK
  <2>3. UNCHANGED <<flags, buf, client_address, mainVars, recvVars, fileVars, toServer, sent,
                    received, spoiled>>
    BY <1>3 DEF ClientReceives
  <2>4. TypeOK'
    BY <2>3 DEF IInv, SvcTypeOK, TypeOK
  <2> QED BY <1>1, <2>2, <2>3, <2>4 DEF IInv, SvcTypeOK
<1> QED BY <1>2, <1>3

\* A step that changes nothing.
LEMMA StutterPreserves == IInv /\ UNCHANGED svcVars => IInv'
BY DEF svcVars, vars, flags, mainVars, recvVars, fileVars, IInv, SvcTypeOK, TypeOK,
       FileFaithful, Pending

\* The invariant holds of every behaviour.
THEOREM Invariance == SvcSpec => []IInv
<1>1. IInv /\ [SvcNext]_svcVars => IInv'
  BY ServePreserves, ClientPreserves, StutterPreserves DEF SvcNext
<1> QED BY <1>1, InitEstablishes, PTL DEF SvcSpec, SvcSafetySpec

\* Every variable of the server keeps its type.
THEOREM TypeCorrect == SvcSpec => []SvcTypeOK
<1> QED BY Invariance, PTL DEF IInv

\* The log file is what was received, in order and without repetition, as
\* long as the menu never wrote the buffer between the recvfrom and the copy
\* (LogServer.cpp:213-219, 271-291).
THEOREM FileIsFaithful == SvcSpec => []FileFaithful
<1> QED BY Invariance, PTL DEF IInv
=============================================================================
