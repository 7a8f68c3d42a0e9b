------------------------- MODULE NetMonitorProofs -------------------------
(***************************************************************************)
(* What holds of the network monitor and its clients for any number of     *)
(* interfaces: every safety property that is model-checked for two.        *)
(***************************************************************************)
EXTENDS NetMonitor, SequenceTheorems, TLAPS

USE NAssumption DEF NAssumption, Clients, NoClient

Has(s, message) == \E k \in DOMAIN s : s[k] = message

\* Where a client is when it reads, or will never write again.
Reading == {"stats", "wait", "done"}

\* Where the server is until all clients are started.
Starting == {"fork", "bind", "listen", "accept", "ready", "monitoring"}

Flags ==
    /\ interrupted => ~isWorking
    /\ mpc \in {"quit", "answer", "exited"} => ~isWorking

\* The server forks its clients in turn.
Forking == mpc = "fork" => \A c \in Clients : c >= idx => cpc[c] = "unborn"

\* A client connects once, and has one connection.
Arrivals ==
    /\ \A j, k \in DOMAIN pending : pending[j] = pending[k] => j = k
    /\ \A c \in Clients :
          /\ Arrived(c) \/ Accepted(c) => cpc[c] \notin {"unborn", "connect"}
          /\ Arrived(c) => ~Accepted(c)
    /\ \A j, k \in Clients :
          connectedFDs[j] = connectedFDs[k] /\ connectedFDs[j] # NoClient => j = k

\* A client that was not yet asked to monitor has said at most that it is ready.
Before == {"unborn", "connect", "opendir", "ready"}
Unasked(c) == cpc[c] \in {"unborn", "connect"} \/ Arrived(c) \/ (mpc = "ready" /\ retRecv = c)
Fresh ==
    \A c \in Clients : Unasked(c) =>
        /\ toCli[c] = <<>>
        /\ cpc[c] \in Before \cup Reading
        /\ cpc[c] \in Before => toSrv[c] = <<>>
        /\ Len(toSrv[c]) <= 1 /\ ~Has(toSrv[c], "LinkDown")

\* Until SIGINT the two sides of a connection take turns, but for a link that
\* goes down right after monitoring began.
Exchange(c) ==
    \/ toSrv[c] = <<>> /\ toCli[c] = <<>>
    \/ toSrv[c] = <<>> /\ Len(toCli[c]) = 1 /\ cpc[c] \in Reading
    \/ toSrv[c] # <<>> /\ Len(toSrv[c]) <= 2 /\ toCli[c] = <<>> /\ cpc[c] \in Reading
    \/ /\ Len(toSrv[c]) = 1 /\ Head(toSrv[c]) = "Monitoring"
       /\ toCli[c] = <<>> /\ cpc[c] = "display"
Alternation == isWorking => \A c \in Clients : Exchange(c)

\* A client whose report the server may still hear waits for the answer,
\* although SIGINT may have put the server ahead of it.
ReportWaits ==
    \A c \in Clients : mpc \in {"monitoring", "loop"} /\ c = retRecv =>
        /\ Has(toSrv[c], "LinkDown") => cpc[c] \in Reading
        /\ Has(toCli[c], "Monitor") => cpc[c] # "display" /\ ~Has(toSrv[c], "LinkDown")

\* While clients are started none is told to set its link up, which may remove
\* the path.
NoRepairYet == mpc \in Starting => \A c \in Clients : ~Has(toCli[c], "SetLinkUp")
PathThere ==
    /\ mpc = "listen" => path # "absent" \/ GaveUp
    /\ mpc \in {"accept", "ready", "monitoring"} => path = "listening" \/ GaveUp

\* What is on a connection, or may come of it: a command leads to at most two
\* messages, and a client that starts or displays has one more to send.
Owed(c) == IF cpc[c] \in Before \cup {"display"} THEN 1 ELSE 0
Load(c) == Len(toSrv[c]) + Len(toCli[c]) + Len(toCli[c]) + Owed(c)
Told(c) ==
    \E k \in Clients : connectedFDs[k] = c /\ (k < idx \/ (mpc = "answer" /\ k = idx))
Loads ==
    \A c \in Clients :
        /\ mpc = "monitoring" /\ retRecv = c => Load(c) <= 3
        /\ mpc \in Starting \cup {"loop"} => Load(c) <= 5
        /\ mpc \in {"quit", "answer"} /\ ~Told(c) => Load(c) <= 7
        /\ Load(c) <= 9

IInv ==
    /\ TypeOK
    /\ Flags /\ Forking /\ Arrivals /\ Fresh /\ Alternation /\ ReportWaits
    /\ NoRepairYet /\ PathThere /\ RepairExpected /\ Loads

-----------------------------------------------------------------------------
(* Sequences of messages.                                                  *)

\* A message behind the others is there, and nothing else is new.
LEMMA AppendHas ==
    ASSUME NEW s \in Seq(Messages), NEW x \in Messages, NEW message
    PROVE  Has(Append(s, x), message) <=> Has(s, message) \/ message = x
<1>1. /\ Len(Append(s, x)) = Len(s) + 1 /\ Append(s, x) \in Seq(Messages)
      /\ \A k \in 1..Len(s) : Append(s, x)[k] = s[k]
      /\ Append(s, x)[Len(s) + 1] = x
  BY AppendProperties
<1>2. DOMAIN Append(s, x) = 1..(Len(s) + 1) /\ DOMAIN s = 1..Len(s) /\ Len(s) \in Nat
  BY <1>1, LenProperties
<1> QED BY <1>1, <1>2 DEF Has

\* The head of what has arrived is in it; nothing is in nothing.
LEMMA HeadHas ==
    /\ \A s \in Seq(Messages) : s # <<>> => Has(s, Head(s)) /\ Head(s) \in Messages
    /\ \A message : ~Has(<<>>, message)
<1>1. ASSUME NEW s \in Seq(Messages), s # <<>> PROVE Has(s, Head(s)) /\ Head(s) \in Messages
  BY <1>1 DEF Has
<1>2. ASSUME NEW message PROVE ~Has(<<>>, message)
  BY DEF Has
<1> QED BY <1>1, <1>2

\* A message more: the length and the head.
LEMMA Appended ==
    ASSUME NEW s \in Seq(Messages), NEW x \in Messages
    PROVE  /\ Append(s, x) \in Seq(Messages) /\ Append(s, x) # <<>>
           /\ Len(s) \in Nat /\ Len(Append(s, x)) = Len(s) + 1
           /\ Head(Append(s, x)) = IF s = <<>> THEN x ELSE Head(s)
BY AppendProperties, HeadTailAppend, LenProperties

\* Only nothing has no length.
LEMMA Lengths ==
    /\ \A s \in Seq(Messages) :
          Len(s) \in Nat /\ (s # <<>> => Len(s) > 0) /\ (s = <<>> => Len(s) = 0)
    /\ Len(<<>>) = 0
<1>1. ASSUME NEW s \in Seq(Messages)
      PROVE  Len(s) \in Nat /\ (s # <<>> => Len(s) > 0) /\ (s = <<>> => Len(s) = 0)
  BY EmptySeq, LenProperties
<1>2. Len(<<>>) = 0
  OBVIOUS
<1> QED BY <1>1, <1>2

-----------------------------------------------------------------------------
(* What one step does to one connection.                                   *)

Moves(c, from, to) == cpc[c] = from /\ cpc'[c] = to
Untouched(c) == toSrv'[c] = toSrv[c] /\ toCli'[c] = toCli[c]
Sends(c, message) == toSrv'[c] = Append(toSrv[c], message)
Answers(c, command, message) ==
    /\ toCli[c] # <<>> /\ Head(toCli[c]) = command
    /\ toCli'[c] = <<>> /\ Sends(c, message)

ClientEffect(c) ==
    /\ \A d \in Clients \ {c} : cpc'[d] = cpc[d] /\ Untouched(d)
    /\ \/ path' = path
       \/ toCli[c] # <<>> /\ Head(toCli[c]) = "SetLinkUp"
       \/ Moves(c, "connect", "done") /\ pending' = pending
    /\ \/ pending' = pending
       \/ pending' = Append(pending, c) /\ Moves(c, "connect", "opendir")
    /\ \/ /\ cpc'[c] = "done" /\ cpc[c] # "unborn"
          /\ toSrv'[c] = toSrv[c] /\ toCli'[c] \in {toCli[c], <<>>}
       \/ /\ Untouched(c)
          /\ \/ cpc'[c] = cpc[c]
             \/ Moves(c, "connect", "opendir") \/ Moves(c, "opendir", "ready")
             \/ Moves(c, "stats", "wait")
       \/ Moves(c, "ready", "stats") /\ Sends(c, "Ready") /\ toCli'[c] = toCli[c]
       \/ Moves(c, "display", "stats") /\ Sends(c, "LinkDown") /\ toCli'[c] = toCli[c]
       \/ Moves(c, "wait", "display") /\ Answers(c, "Monitor", "Monitoring")
       \/ Moves(c, "wait", "stats") /\ Answers(c, "SetLinkUp", "LinkUp")
       \/ Moves(c, "wait", "done") /\ Answers(c, "ShutDown", "Done")
       \/ Moves(c, "wait", "stats") /\ toCli'[c] = <<>> /\ toSrv'[c] = toSrv[c]

ClientActs(c) == (ClientStep(c) \/ LinkChanges(c)) /\ UNCHANGED serverVars

\* A step of a client is one of those (intfMonitor.cpp:133-282).
LEMMA ClientDoes ==
    ASSUME TypeOK, NEW c \in Clients, ClientActs(c)
    PROVE  ClientEffect(c) /\ UNCHANGED <<serverVars, srvClosed>>
<1> USE DEF TypeOK, ClientTypeOK, ClientActs, ClientEffect, Untouched, Moves, Sends, Answers,
            netVars, Goto, Exit, SendAndGoto, Receives, Drained, Messages, Nothing
<1>1. CASE Connect(c)
  BY <1>1 DEF Connect
<1>2. CASE OpenDir(c)
  BY <1>2 DEF OpenDir
<1>3. CASE SendReady(c)
  BY <1>3 DEF SendReady
<1>4. CASE ReadStats(c)
  BY <1>4 DEF ReadStats
<1>5. CASE Monitor(c)
  BY <1>5 DEF Monitor
<1>6. CASE ReportDown(c)
  BY <1>6 DEF ReportDown
<1>7. CASE SetLinkUp(c)
  BY <1>7 DEF SetLinkUp
<1>8. CASE ShutDown(c)
  BY <1>8 DEF ShutDown
<1>9. CASE Unknown(c)
  BY <1>9 DEF Unknown
<1>10. CASE LinkChanges(c)
  BY <1>10 DEF LinkChanges
<1> QED BY <1>1, <1>2, <1>3, <1>4, <1>5, <1>6, <1>7, <1>8, <1>9, <1>10 DEF ClientStep

Tells(c, message) ==
    /\ c \in Clients /\ cpc[c] # "done"
    /\ toCli'[c] = Append(toCli[c], message)
    /\ \A d \in Clients \ {c} : toCli'[d] = toCli[d]
TellEffect(c, message, place) ==
    \/ mpc' = place /\ path' = path /\ Tells(c, message)
    \/ mpc' = place /\ path' = path /\ toCli' = toCli
    \/ mpc' = "killed" /\ toCli' = toCli
HearEffect(c) ==
    /\ interrupted' = FALSE
    /\ \A d \in Clients : toSrv'[d] = IF d = c /\ ~interrupted THEN <<>> ELSE toSrv[d]
Comes(c, message) ==
    /\ ~interrupted /\ c \in Clients /\ toSrv[c] # <<>>
    /\ message = Head(toSrv[c])
Silent(c) == interrupted \/ c = NoClient \/ cpc[c] = "done"

\* A message of the server arrives, or ends the server, or has no addressee
\* (netMonitor.cpp:80-88).
LEMMA TellDoes ==
    ASSUME TypeOK, NEW c \in Clients \cup {NoClient}, NEW message, NEW place,
           TellAndGoto(c, message, place)
    PROVE  TellEffect(c, message, place)
BY DEF TypeOK, ClientTypeOK, TellAndGoto, Tells, TellEffect

\* What the server hears is what came first, or nothing; then nothing more
\* waits, unless a signal came (netMonitor.cpp:66-78).
LEMMA HearDoes ==
    ASSUME TypeOK, NEW c \in Clients \cup {NoClient}
    PROVE  /\ Taken(c) => HearEffect(c)
           /\ \A message : Heard(c, message) =>
                 Comes(c, message) \/ (message = Nothing /\ Silent(c))
<1>1. Taken(c) => HearEffect(c)
  BY DEF Taken, HearEffect
<1>2. ASSUME NEW message, Heard(c, message)
      PROVE  Comes(c, message) \/ (message = Nothing /\ Silent(c))
  BY <1>2 DEF Heard, Comes, Silent
<1> QED BY <1>1, <1>2

\* One client more is started (netMonitor.cpp:122-141).
LEMMA ForkDoes ==
    ASSUME TypeOK, Fork
    PROVE  /\ mpc = "fork" /\ cpc'[idx] = "connect"
           /\ \A c \in Clients \ {idx} : cpc'[c] = cpc[c]
           /\ (mpc' = "fork" /\ idx' = idx + 1) \/ mpc' = "bind"
           /\ UNCHANGED <<netVars, isWorking, interrupted, retRecv, connectedFDs>>
BY DEF Fork, Goto, NextTurn, TypeOK, ClientTypeOK

\* The handshake asks for monitoring (netMonitor.cpp:165-171).
LEMMA AwaitReadyDoes ==
    ASSUME TypeOK, AwaitReady
    PROVE  /\ mpc = "ready" /\ HearEffect(retRecv)
           /\ TellEffect(retRecv, "Monitor", "monitoring")
           /\ Silent(retRecv) \/ toSrv[retRecv] # <<>>
           /\ UNCHANGED <<pending, cpc, isWorking, idx, retRecv, connectedFDs>>
<1>1. retRecv \in Clients \cup {NoClient}
  BY DEF TypeOK
<1>2. Silent(retRecv) \/ toSrv[retRecv] # <<>>
  BY <1>1, HearDoes DEF AwaitReady, Comes
<1> QED BY <1>1, <1>2, HearDoes, TellDoes DEF AwaitReady, clientVars

\* Its end, for the better or not, leads to the next client or to the loop
\* (netMonitor.cpp:172-178).
LEMMA AwaitMonitoringDoes ==
    ASSUME TypeOK, AwaitMonitoring
    PROVE  /\ mpc = "monitoring" /\ HearEffect(retRecv)
           /\ \E place \in {"listen", "loop"} :
                 \/ mpc' = place /\ path' = path /\ toCli' = toCli
                 \/ /\ TellEffect(retRecv, "ShutDown", place)
                    /\ Silent(retRecv) \/ \E m \in Messages \ {"Monitoring"} : Comes(retRecv, m)
           /\ UNCHANGED <<pending, cpc, isWorking, retRecv, connectedFDs>>
<1>1. retRecv \in Clients \cup {NoClient}
  BY DEF TypeOK
<1>2. /\ mpc = "monitoring" /\ Taken(retRecv)
      /\ UNCHANGED <<pending, cpc, isWorking, retRecv, connectedFDs>>
  BY DEF AwaitMonitoring, clientVars
<1>3. PICK message \in Messages \cup {Nothing} :
         /\ Heard(retRecv, message)
         /\ \/ NextTurn("listen", "loop") /\ UNCHANGED <<path, srvClosed, toCli>>
            \/ /\ message # "Monitoring"
               /\ TellAndGoto(retRecv, "ShutDown", IF idx < N THEN "listen" ELSE "loop")
  BY DEF AwaitMonitoring
<1>4. CASE NextTurn("listen", "loop") /\ UNCHANGED <<path, srvClosed, toCli>>
  <2>1. mpc' \in {"listen", "loop"} /\ path' = path /\ toCli' = toCli
    BY <1>4 DEF NextTurn
  <2> QED BY <1>1, <1>2, <2>1, HearDoes
<1>5. CASE /\ message # "Monitoring"
           /\ TellAndGoto(retRecv, "ShutDown", IF idx < N THEN "listen" ELSE "loop")
  <2> DEFINE place == IF idx < N THEN "listen" ELSE "loop"
  <2>1. TellEffect(retRecv, "ShutDown", place)
    BY <1>1, <1>5, TellDoes, Zenon
  <2>2. Silent(retRecv) \/ (message \in Messages \ {"Monitoring"} /\ Comes(retRecv, message))
    <3>1. Heard(retRecv, message) /\ message # "Monitoring"
      BY <1>3, <1>5, Zenon
    <3>2. Comes(retRecv, message) => message \in Messages
      BY HeadHas DEF Comes, TypeOK, ClientTypeOK
    <3> QED BY <1>1, <3>1, <3>2, HearDoes
  <2>3. place \in {"listen", "loop"}
    OBVIOUS
  <2>4. HearEffect(retRecv)
    BY <1>1, <1>2, HearDoes
  <2> HIDE DEF place
  <2> QED BY <1>2, <2>1, <2>2, <2>3, <2>4
<1> QED BY <1>3, <1>4, <1>5

\* A report that came first is answered (netMonitor.cpp:181-191).
LEMMA ServeDoes ==
    ASSUME TypeOK, Serve
    PROVE  /\ mpc = "loop" /\ HearEffect(retRecv)
           /\ \/ mpc' = AfterMessage /\ path' = path /\ toCli' = toCli
              \/ /\ Comes(retRecv, "LinkDown")
                 /\ TellEffect(retRecv, "SetLinkUp", AfterMessage)
              \/ Comes(retRecv, "LinkUp") /\ TellEffect(retRecv, "Monitor", AfterMessage)
           /\ UNCHANGED <<pending, cpc, isWorking, idx, retRecv, connectedFDs>>
<1>1. retRecv \in Clients \cup {NoClient}
  BY DEF TypeOK
<1>2. /\ mpc = "loop" /\ Taken(retRecv)
      /\ UNCHANGED <<pending, cpc, isWorking, idx, retRecv, connectedFDs>>
  BY DEF Serve, clientVars
<1>3. PICK message \in Messages \cup {Nothing} :
         /\ Heard(retRecv, message)
         /\ \/ message = "LinkDown" /\ TellAndGoto(retRecv, "SetLinkUp", AfterMessage)
            \/ message = "LinkUp" /\ TellAndGoto(retRecv, "Monitor", AfterMessage)
            \/ mpc' = AfterMessage /\ UNCHANGED <<path, srvClosed, toCli>>
  BY DEF Serve
<1>4. message = Nothing \/ Comes(retRecv, message)
  <2>1. Heard(retRecv, message)
    BY <1>3, Zenon
  <2> QED BY <1>1, <2>1, HearDoes
<1>5. CASE message = "LinkDown" /\ TellAndGoto(retRecv, "SetLinkUp", AfterMessage)
  <2>1. Comes(retRecv, "LinkDown")
    BY <1>4, <1>5 DEF Nothing
  <2>2. TellEffect(retRecv, "SetLinkUp", AfterMessage)
    BY <1>1, <1>5, TellDoes
  <2> QED BY <1>1, <1>2, <2>1, <2>2, HearDoes
<1>6. CASE message = "LinkUp" /\ TellAndGoto(retRecv, "Monitor", AfterMessage)
  <2>1. Comes(retRecv, "LinkUp")
    BY <1>4, <1>6 DEF Nothing
  <2>2. TellEffect(retRecv, "Monitor", AfterMessage)
    BY <1>1, <1>6, TellDoes
  <2> QED BY <1>1, <1>2, <2>1, <2>2, HearDoes
<1>7. CASE mpc' = AfterMessage /\ UNCHANGED <<path, srvClosed, toCli>>
  BY <1>1, <1>2, <1>7, HearDoes
<1> QED BY <1>3, <1>5, <1>6, <1>7

\* The clients are told to end, one by one (netMonitor.cpp:193-197).
LEMMA QuitDoes ==
    ASSUME TypeOK, Quit
    PROVE  /\ mpc = "quit" /\ TellEffect(connectedFDs[idx], "ShutDown", "answer")
           /\ UNCHANGED <<pending, cpc, toSrv, isWorking, interrupted, idx, retRecv, connectedFDs>>
<1>1. connectedFDs[idx] \in Clients \cup {NoClient}
  BY DEF TypeOK
<1> QED BY <1>1, TellDoes DEF Quit, clientVars

\* The answer, whatever it is, makes it the next one's turn
\* (netMonitor.cpp:198-209).
LEMMA AwaitDoneDoes ==
    ASSUME TypeOK, AwaitDone
    PROVE  /\ mpc = "answer" /\ HearEffect(connectedFDs[idx])
           /\ \/ mpc' = "quit" /\ idx' = idx + 1
              \/ mpc' = "exited"
           /\ UNCHANGED <<pending, cpc, toCli, isWorking, retRecv, connectedFDs>>
<1>1. connectedFDs[idx] \in Clients \cup {NoClient}
  BY DEF TypeOK
<1> QED BY <1>1, HearDoes DEF AwaitDone, NextTurn, clientVars

\* ctrl-C ends clients, perhaps, and clears the flag (netMonitor.cpp:44-50).
LEMMA SigIntDoes ==
    ASSUME TypeOK, SigInt
    PROVE  /\ ~isWorking'
           /\ \A c \in Clients : cpc'[c] = cpc[c] \/ (cpc[c] # "unborn" /\ cpc'[c] = "done")
           /\ UNCHANGED <<pending, path, toSrv, toCli, mpc, idx, retRecv, connectedFDs>>
BY DEF TypeOK, ClientTypeOK, SigInt, netVars

-----------------------------------------------------------------------------
(* Types.                                                                  *)

\* A stream is one after a message more, or emptied.
LEMMA Streams ==
    ASSUME NEW f \in [Clients -> Seq(Messages)], NEW c \in Clients
    PROVE  /\ \A m \in Messages : [f EXCEPT ![c] = Append(@, m)] \in [Clients -> Seq(Messages)]
           /\ [f EXCEPT ![c] = <<>>] \in [Clients -> Seq(Messages)]
<1>1. ASSUME NEW m \in Messages
      PROVE  [f EXCEPT ![c] = Append(@, m)] \in [Clients -> Seq(Messages)]
  <2>1. Append(f[c], m) \in Seq(Messages)
    BY AppendProperties
  <2> QED BY <2>1
<1>2. [f EXCEPT ![c] = <<>>] \in [Clients -> Seq(Messages)]
  BY EmptySeq
<1> QED BY <1>1, <1>2

\* What a client sends, and where it goes.
LEMMA SendTypes ==
    ASSUME TypeOK, NEW c \in Clients, NEW m \in Messages,
           NEW place \in {"stats", "display", "done"}, SendAndGoto(c, m, place)
    PROVE  /\ toSrv' \in [Clients -> Seq(Messages)]
           /\ cpc' \in [Clients -> {"unborn", "connect", "opendir", "ready", "stats", "wait",
                                    "display", "done"}]
<1>1. toSrv' \in [Clients -> Seq(Messages)]
  <2>1. toSrv' = toSrv \/ toSrv' = [toSrv EXCEPT ![c] = Append(@, m)]
    BY DEF SendAndGoto
  <2>2. toSrv \in [Clients -> Seq(Messages)]
    BY DEF TypeOK, ClientTypeOK
  <2>3. [toSrv EXCEPT ![c] = Append(@, m)] \in [Clients -> Seq(Messages)]
    BY <2>2, Streams
  <2> QED BY <2>1, <2>2, <2>3
<1>2. cpc' \in [Clients -> {"unborn", "connect", "opendir", "ready", "stats", "wait",
                            "display", "done"}]
  BY DEF TypeOK, ClientTypeOK, SendAndGoto, Goto, Exit
<1> QED BY <1>1, <1>2

\* The clients keep the types.
LEMMA ClientTypes == ASSUME TypeOK, NEW c \in Clients, ClientActs(c) PROVE TypeOK'
<1> USE DEF TypeOK, ClientTypeOK, ClientActs, netVars, serverVars
<1>1. /\ "Ready" \in Messages /\ "LinkDown" \in Messages /\ "Monitoring" \in Messages
      /\ "LinkUp" \in Messages /\ "Done" \in Messages
  BY DEF Messages
<1>2. Drained(c) => toCli' \in [Clients -> Seq(Messages)]
  BY Streams DEF Drained
<1>3. CASE Connect(c)
  <2>1. Append(pending, c) \in Seq(Clients)
    BY AppendProperties
  <2> QED BY <1>3, <2>1 DEF Connect, Goto, Exit
<1>4. CASE OpenDir(c)
  BY <1>4 DEF OpenDir, Goto, Exit
<1>5. CASE SendReady(c)
  BY <1>1, <1>5, SendTypes DEF SendReady
<1>6. CASE ReadStats(c)
  BY <1>6 DEF ReadStats, Goto
<1>7. CASE Monitor(c)
  BY <1>1, <1>2, <1>7, SendTypes DEF Monitor
<1>8. CASE ReportDown(c)
  BY <1>1, <1>8, SendTypes DEF ReportDown
<1>9. CASE SetLinkUp(c)
  <2>1. CASE UNCHANGED toSrv /\ path' = "absent" /\ Exit(c) /\ UNCHANGED link
    BY <1>2, <1>9, <2>1 DEF SetLinkUp, Goto, Exit
  <2>2. CASE /\ link' \in {link, [link EXCEPT ![c] = "up"]}
             /\ SendAndGoto(c, "LinkUp", "stats") /\ UNCHANGED path
    <3>1. link' \in [Clients -> {"up", "down"}]
      BY <2>2
    <3> QED BY <1>1, <1>2, <1>9, <2>2, <3>1, SendTypes DEF SetLinkUp
  <2> QED BY <1>9, <2>1, <2>2 DEF SetLinkUp
<1>10. CASE ShutDown(c)
  BY <1>1, <1>2, <1>10, SendTypes DEF ShutDown
<1>11. CASE Unknown(c)
  BY <1>2, <1>11 DEF Unknown, Goto
<1>12. CASE LinkChanges(c)
  BY <1>12 DEF LinkChanges
<1> QED BY <1>3, <1>4, <1>5, <1>6, <1>7, <1>8, <1>9, <1>10, <1>11, <1>12 DEF ClientStep

\* Hearing and telling keep the types of the streams.
LEMMA HearTypes ==
    ASSUME TypeOK, NEW c, Taken(c)
    PROVE  toSrv' \in [Clients -> Seq(Messages)] /\ interrupted' \in BOOLEAN
BY EmptySeq DEF TypeOK, ClientTypeOK, Taken

\* A message told keeps the types of what it changes (netMonitor.cpp:80-88).
LEMMA TellTypes ==
    ASSUME TypeOK, NEW c \in Clients \cup {NoClient}, NEW message \in Messages, NEW place,
           TellAndGoto(c, message, place)
    PROVE  /\ toCli' \in [Clients -> Seq(Messages)]
           /\ mpc' \in {place, "killed"}
           /\ path' \in {"absent", "bound", "listening"}
           /\ srvClosed' \in SUBSET Clients
<1>1. toCli' = toCli \/ (c \in Clients /\ toCli' = [toCli EXCEPT ![c] = Append(@, message)])
  BY DEF TellAndGoto
<1>2. toCli' \in [Clients -> Seq(Messages)]
  <2>1. toCli \in [Clients -> Seq(Messages)]
    BY DEF TypeOK, ClientTypeOK
  <2>2. c \in Clients => [toCli EXCEPT ![c] = Append(@, message)] \in [Clients -> Seq(Messages)]
    BY <2>1, Streams
  <2> QED BY <1>1, <2>1, <2>2
<1>3. /\ mpc' \in {place, "killed"}
      /\ path' \in {"absent", "bound", "listening"}
      /\ srvClosed' \in SUBSET Clients
  BY DEF TypeOK, ClientTypeOK, TellAndGoto
<1> QED BY <1>2, <1>3

\* The loops stay within the clients.
LEMMA TurnTypes ==
    ASSUME TypeOK, NEW again, NEW after, NextTurn(again, after)
    PROVE  idx' \in Clients /\ mpc' \in {again, after}
BY DEF TypeOK, NextTurn

\* The server keeps the types, wherever SIGINT finds it.
LEMMA ServerTypes == ASSUME TypeOK, ServerStep \/ SigInt PROVE TypeOK'
<1> USE DEF TypeOK, ClientTypeOK, clientVars, netVars
<1>1. "Monitor" \in Messages /\ "ShutDown" \in Messages /\ "SetLinkUp" \in Messages
  BY DEF Messages
<1>2. CASE Fork
  BY <1>2, TurnTypes DEF Fork, Goto
<1>3. CASE Bind \/ Listen
  BY <1>3 DEF Bind, Listen
<1>4. CASE Accept
  <2>1. retRecv' \in Clients \cup {NoClient} /\ pending' \in Seq(Clients)
    <3>1. pending # <<>> => Head(pending) \in Clients /\ Tail(pending) \in Seq(Clients)
      BY HeadTailProperties
    <3>2. \/ pending # <<>> /\ retRecv' = Head(pending) /\ pending' = Tail(pending)
          \/ retRecv' = NoClient /\ pending' = pending
      BY <1>4 DEF Accept
    <3> QED BY <3>1, <3>2
  <2> QED BY <1>4, <2>1 DEF Accept
<1>5. CASE AwaitReady
  <2>1. Taken(retRecv) /\ TellAndGoto(retRecv, "Monitor", "monitoring")
    BY <1>5 DEF AwaitReady
  <2>2. UNCHANGED <<pending, clientVars, isWorking, idx, retRecv, connectedFDs>>
    BY <1>5 DEF AwaitReady
  <2> QED BY <1>1, <2>1, <2>2, HearTypes, TellTypes
<1>6. CASE AwaitMonitoring
  <2>1. Taken(retRecv) /\ UNCHANGED <<pending, clientVars, isWorking, retRecv, connectedFDs>>
    BY <1>6 DEF AwaitMonitoring
  <2>2. CASE NextTurn("listen", "loop") /\ UNCHANGED <<path, srvClosed, toCli>>
    <3>1. idx' \in Clients /\ mpc' \in {"listen", "loop"}
      BY <2>2, TurnTypes
    <3>2. toSrv' \in [Clients -> Seq(Messages)] /\ interrupted' \in BOOLEAN
      BY <2>1, HearTypes
    <3> QED BY <2>1, <2>2, <3>1, <3>2
  <2>3. CASE /\ TellAndGoto(retRecv, "ShutDown", IF idx < N THEN "listen" ELSE "loop")
             /\ idx' = IF idx < N THEN idx + 1 ELSE 1
    <3>1. /\ toCli' \in [Clients -> Seq(Messages)]
          /\ mpc' \in {IF idx < N THEN "listen" ELSE "loop", "killed"}
          /\ path' \in {"absent", "bound", "listening"} /\ srvClosed' \in SUBSET Clients
      BY <1>1, <2>3, TellTypes
    <3>2. toSrv' \in [Clients -> Seq(Messages)] /\ interrupted' \in BOOLEAN
      BY <2>1, HearTypes
    <3>3. idx' \in Clients
      <4>1. idx' = IF idx < N THEN idx + 1 ELSE 1
        BY <2>3, Zenon
      <4>2. idx \in Clients
        OBVIOUS
      <4> QED BY <4>1, <4>2
    <3> QED BY <2>1, <3>1, <3>2, <3>3
  <2> QED BY <1>6, <2>2, <2>3 DEF AwaitMonitoring
<1>7. CASE Serve
  <2>1. Taken(retRecv) /\ UNCHANGED <<pending, clientVars, isWorking, idx, retRecv, connectedFDs>>
    BY <1>7 DEF Serve
  <2>2. AfterMessage \in {"loop", "quit"}
    BY DEF AfterMessage
  <2>3. ASSUME NEW message \in Messages, TellAndGoto(retRecv, message, AfterMessage) PROVE TypeOK'
    BY <2>1, <2>2, <2>3, HearTypes, TellTypes
  <2>4. CASE mpc' = AfterMessage /\ UNCHANGED <<path, srvClosed, toCli>>
    BY <2>1, <2>2, <2>4, HearTypes
  <2> QED BY <1>1, <1>7, <2>3, <2>4 DEF Serve
<1>8. CASE Quit
  BY <1>1, <1>8, TellTypes DEF Quit
<1>9. CASE AwaitDone
  <2>1. /\ Taken(connectedFDs[idx]) /\ NextTurn("quit", "exited")
        /\ UNCHANGED <<pending, toCli, clientVars, isWorking, retRecv, connectedFDs>>
        /\ path' = IF idx = N THEN "absent" ELSE path
    BY <1>9 DEF AwaitDone
  <2>2. srvClosed' \in SUBSET Clients
    <3>1. PICK message \in Messages \cup {Nothing} :
             /\ Heard(connectedFDs[idx], message)
             /\ srvClosed' = IF idx = N THEN Clients
                             ELSE IF message = "Done" THEN srvClosed \cup {connectedFDs[idx]}
                             ELSE srvClosed
      BY <1>9 DEF AwaitDone
    <3>2. message = "Done" => connectedFDs[idx] \in Clients
      BY <3>1 DEF Heard, Nothing
    <3> QED BY <3>1, <3>2
  <2> QED BY <2>1, <2>2, HearTypes, TurnTypes
<1>10. CASE SigInt
  <2>1. cpc' = cpc \/ cpc' = [c \in Clients |-> IF cpc[c] = "unborn" THEN "unborn" ELSE "done"]
    BY <1>10 DEF SigInt
  <2>2. interrupted' \in BOOLEAN /\ isWorking' = FALSE
    BY <1>10 DEF SigInt
  <2>3. UNCHANGED <<netVars, operstate, link, mpc, idx, retRecv, connectedFDs>>
    BY <1>10 DEF SigInt
  <2> QED BY <2>1, <2>2, <2>3
<1> QED BY <1>2, <1>3, <1>4, <1>5, <1>6, <1>7, <1>8, <1>9, <1>10 DEF ServerStep

-----------------------------------------------------------------------------
(* The flags, the start, and who connects.                                 *)

\* Only ctrl-C interrupts, and the server leaves its loops only after it.
LEMMA FlagsKept == ASSUME IInv, Next PROVE Flags'
<1> USE DEF IInv, Flags, netVars, serverVars
<1>1. CASE Fork \/ Bind \/ Listen
  BY <1>1, ForkDoes DEF Bind, Listen
<1>2. CASE Accept
  BY <1>2 DEF Accept
<1>3. CASE AwaitReady
  BY <1>3, AwaitReadyDoes DEF HearEffect, TellEffect
<1>4. CASE AwaitMonitoring
  BY <1>4, AwaitMonitoringDoes DEF HearEffect, TellEffect
<1>5. CASE Serve
  <2>1. interrupted' = FALSE /\ isWorking' = isWorking
    BY <1>5, ServeDoes DEF HearEffect
  <2>2. mpc' = AfterMessage \/ mpc' = "killed"
    BY <1>5, ServeDoes DEF TellEffect
  <2> QED BY <2>1, <2>2 DEF AfterMessage
<1>6. CASE Quit
  <2>1. mpc = "quit" /\ UNCHANGED <<isWorking, interrupted>>
    BY <1>6, QuitDoes
  <2> QED BY <2>1
<1>7. CASE AwaitDone
  BY <1>7, AwaitDoneDoes DEF HearEffect
<1>8. CASE SigInt
  BY <1>8, SigIntDoes
<1>9. ASSUME NEW c \in Clients, ClientActs(c) PROVE Flags'
  BY <1>9, ClientDoes
<1> QED BY <1>1, <1>2, <1>3, <1>4, <1>5, <1>6, <1>7, <1>8, <1>9 DEF Next, ServerStep, ClientActs

\* Clients are unborn until it is their turn.
LEMMA ForkingKept == ASSUME IInv, Next PROVE Forking'
<1> USE DEF IInv, Forking, netVars, serverVars
<1>1. CASE Fork
  <2>1. idx \in Clients
    BY DEF TypeOK
  <2> QED BY <1>1, <2>1, ForkDoes
<1>2. CASE Bind \/ Listen \/ Accept \/ Quit \/ AwaitDone
  BY <1>2, QuitDoes, AwaitDoneDoes DEF Bind, Listen, Accept, TellEffect
<1>3. CASE AwaitReady \/ AwaitMonitoring
  BY <1>3, AwaitReadyDoes, AwaitMonitoringDoes DEF TellEffect
<1>4. CASE Serve
  BY <1>4, ServeDoes DEF TellEffect, AfterMessage
<1>5. CASE SigInt
  BY <1>5, SigIntDoes
<1>6. ASSUME NEW c \in Clients, ClientActs(c) PROVE Forking'
  BY <1>6, ClientDoes DEF ClientEffect, Moves
<1> QED BY <1>1, <1>2, <1>3, <1>4, <1>5, <1>6 DEF Next, ServerStep, ClientActs

\* The head of the backlog is in it, and the rest is what is behind it.
LEMMA BacklogHead ==
    ASSUME pending \in Seq(Clients), pending # <<>>
    PROVE  /\ Head(pending) \in Clients /\ Head(pending) = pending[1] /\ 1 \in DOMAIN pending
           /\ \A k \in DOMAIN Tail(pending) :
                 k + 1 \in DOMAIN pending /\ k \in Nat /\ Tail(pending)[k] = pending[k + 1]
<1>1. /\ Len(pending) \in Nat \ {0} /\ DOMAIN pending = 1..Len(pending)
      /\ Head(pending) \in Clients /\ Tail(pending) \in Seq(Clients)
      /\ Len(Tail(pending)) = Len(pending) - 1
      /\ \A k \in 1..Len(Tail(pending)) : Tail(pending)[k] = pending[k + 1]
  BY EmptySeq, LenProperties, HeadTailProperties
<1>2. DOMAIN Tail(pending) = 1..(Len(pending) - 1)
  BY <1>1, LenProperties
<1>3. Head(pending) = pending[1]
  OBVIOUS
<1> QED BY <1>1, <1>2, <1>3

\* A client behind the backlog.
LEMMA BacklogMore ==
    ASSUME pending \in Seq(Clients), NEW c \in Clients
    PROVE  /\ DOMAIN pending = 1..Len(pending) /\ Len(pending) \in Nat
           /\ DOMAIN Append(pending, c) = 1..(Len(pending) + 1)
           /\ Append(pending, c)[Len(pending) + 1] = c
           /\ \A k \in 1..Len(pending) : Append(pending, c)[k] = pending[k]
<1>1. /\ Append(pending, c) \in Seq(Clients)
      /\ Len(Append(pending, c)) = Len(pending) + 1
      /\ \A k \in 1..Len(pending) : Append(pending, c)[k] = pending[k]
      /\ Append(pending, c)[Len(pending) + 1] = c
  BY AppendProperties
<1>2. /\ DOMAIN pending = 1..Len(pending) /\ Len(pending) \in Nat
      /\ DOMAIN Append(pending, c) = 1..Len(Append(pending, c))
  BY <1>1, LenProperties
<1> QED BY <1>1, <1>2

\* Clients connect once and are accepted once (netMonitor.cpp:158-163,
\* intfMonitor.cpp:133-144).
LEMMA ArrivalsKept == ASSUME IInv, Next PROVE Arrivals'
<1> USE DEF IInv, Arrivals, Arrived, Accepted, netVars, serverVars
<1>1. pending \in Seq(Clients)
  BY DEF TypeOK, ClientTypeOK
<1>2. CASE Fork
  <2>1. idx \in Clients /\ cpc[idx] = "unborn"
    BY <1>2, ForkDoes DEF TypeOK, Forking
  <2> QED BY <1>2, <2>1, ForkDoes
<1>3. CASE Bind \/ Listen
  BY <1>3 DEF Bind, Listen, clientVars
<1>4. CASE Accept
  <2>1. cpc' = cpc /\ connectedFDs' = [connectedFDs EXCEPT ![idx] = retRecv']
    BY <1>4 DEF Accept, clientVars
  <2>2. idx \in Clients /\ connectedFDs \in [Clients -> Clients \cup {NoClient}]
    BY DEF TypeOK
  <2>3. CASE retRecv' = NoClient /\ pending' = pending
    BY <2>1, <2>2, <2>3
  <2>4. CASE pending # <<>> /\ retRecv' = Head(pending) /\ pending' = Tail(pending)
    <3>1. \A c \in Clients : Arrived(c)' => Arrived(c) /\ c # Head(pending)
      BY <1>1, <2>4, BacklogHead
    <3>2. \A j, k \in DOMAIN pending' : pending'[j] = pending'[k] => j = k
      BY <1>1, <2>4, BacklogHead
    <3>3. Head(pending) \in Clients /\ Arrived(Head(pending))
      BY <1>1, <2>4, BacklogHead
    <3>4. \A k \in Clients : connectedFDs[k] # Head(pending)
      BY <3>3
    <3>5. \A c \in Clients : Accepted(c)' => Accepted(c) \/ c = Head(pending)
      BY <2>1, <2>2, <2>4
    <3>6. \A c \in Clients :
             /\ Arrived(c)' \/ Accepted(c)' => cpc'[c] \notin {"unborn", "connect"}
             /\ Arrived(c)' => ~Accepted(c)'
      BY <2>1, <3>1, <3>3, <3>5
    <3>7. \A j, k \in Clients :
             connectedFDs'[j] = connectedFDs'[k] /\ connectedFDs'[j] # NoClient => j = k
      BY <2>1, <2>2, <2>4, <3>4
    <3> QED BY <3>2, <3>6, <3>7
  <2> QED BY <1>4, <2>3, <2>4 DEF Accept
<1>5. CASE AwaitReady \/ AwaitMonitoring \/ Serve \/ Quit \/ AwaitDone
  <2>1. UNCHANGED <<pending, cpc, retRecv, connectedFDs>>
    BY <1>5, AwaitReadyDoes, AwaitMonitoringDoes, ServeDoes, QuitDoes, AwaitDoneDoes
  <2> QED BY <2>1
<1>6. CASE SigInt
  BY <1>6, SigIntDoes
<1>7. ASSUME NEW c \in Clients, ClientActs(c) PROVE Arrivals'
  <2>1. ClientEffect(c) /\ UNCHANGED <<retRecv, connectedFDs>>
    BY <1>7, ClientDoes
  <2>2. \A d \in Clients :
           cpc[d] \notin {"unborn", "connect"} => cpc'[d] \notin {"unborn", "connect"}
    BY <2>1 DEF ClientEffect, Moves
  <2>3. CASE pending' = pending
    BY <2>1, <2>2, <2>3
  <2>4. CASE pending' = Append(pending, c) /\ Moves(c, "connect", "opendir")
    <3>1. ~Arrived(c) /\ ~Accepted(c) /\ cpc'[c] = "opendir"
      BY <2>4 DEF Moves
    <3>2. \A j, k \in DOMAIN pending' : pending'[j] = pending'[k] => j = k
      BY <1>1, <2>4, <3>1, BacklogMore
    <3>3. \A d \in Clients : Arrived(d)' => Arrived(d) \/ d = c
      BY <1>1, <2>4, BacklogMore
    <3>4. \A d \in Clients : Accepted(d)' => Accepted(d)
      BY <2>1
    <3>5. \A d \in Clients :
             /\ Arrived(d)' \/ Accepted(d)' => cpc'[d] \notin {"unborn", "connect"}
             /\ Arrived(d)' => ~Accepted(d)'
      BY <2>2, <3>1, <3>3, <3>4
    <3> QED BY <2>1, <3>2, <3>5
  <2> QED BY <2>1, <2>3, <2>4 DEF ClientEffect
<1> QED BY <1>2, <1>3, <1>4, <1>5, <1>6, <1>7 DEF Next, ServerStep, ClientActs

-----------------------------------------------------------------------------
(* What a step leaves on the connections.                                  *)

\* Hearing takes everything or nothing.
LEMMA HearLeaves ==
    ASSUME TypeOK, NEW c, HearEffect(c), NEW d \in Clients
    PROVE  /\ toSrv'[d] \in {toSrv[d], <<>>}
           /\ Len(toSrv'[d]) \in Nat /\ Len(toSrv'[d]) <= Len(toSrv[d])
           /\ \A message : Has(toSrv'[d], message) => Has(toSrv[d], message)
           /\ d # c => toSrv'[d] = toSrv[d]
           /\ d = c /\ ~interrupted => toSrv'[d] = <<>>
<1>1. /\ toSrv'[d] \in {toSrv[d], <<>>}
      /\ d # c => toSrv'[d] = toSrv[d]
      /\ d = c /\ ~interrupted => toSrv'[d] = <<>>
  BY DEF HearEffect
<1>2. Len(toSrv[d]) \in Nat /\ Len(<<>>) = 0
  BY Lengths DEF TypeOK, ClientTypeOK
<1> QED BY <1>1, <1>2, HeadHas

\* Telling adds the message for the one it is told, or nothing.
LEMMA TellLeaves ==
    ASSUME TypeOK, NEW c, NEW message \in Messages, NEW place, TellEffect(c, message, place),
           NEW d \in Clients
    PROVE  /\ \/ toCli'[d] = toCli[d]
              \/ /\ d = c /\ cpc[d] # "done" /\ mpc' = place
                 /\ toCli'[d] = Append(toCli[d], message)
           /\ Len(toCli'[d]) \in Nat
           /\ Len(toCli'[d]) <= Len(toCli[d]) + 1
           /\ d # c => toCli'[d] = toCli[d]
           /\ \A m : Has(toCli'[d], m) =>
                 \/ Has(toCli[d], m)
                 \/ d = c /\ cpc[d] # "done" /\ mpc' = place /\ m = message
<1>1. \/ toCli'[d] = toCli[d]
      \/ /\ d = c /\ cpc[d] # "done" /\ mpc' = place
         /\ toCli'[d] = Append(toCli[d], message)
  BY DEF TellEffect, Tells
<1>2. toCli[d] \in Seq(Messages)
  BY DEF TypeOK, ClientTypeOK
<1>3. Len(toCli[d]) \in Nat /\ Len(Append(toCli[d], message)) = Len(toCli[d]) + 1
  BY <1>2, Appended
<1>4. \A m : Has(Append(toCli[d], message), m) <=> Has(toCli[d], m) \/ m = message
  BY <1>2, AppendHas
<1>5. CASE toCli'[d] = toCli[d]
  BY <1>3, <1>5
<1>6. CASE /\ d = c /\ cpc[d] # "done" /\ mpc' = place
           /\ toCli'[d] = Append(toCli[d], message)
  BY <1>3, <1>4, <1>6
<1> QED BY <1>1, <1>5, <1>6

\* Nobody else is told.
LEMMA TellOther ==
    \A c, message, place : \A d \in Clients :
        TellEffect(c, message, place) /\ d # c => toCli'[d] = toCli[d]
BY DEF TellEffect, Tells

\* What is on a connection counts for less when there is less of it, when an
\* owed message is sent, and when a command is taken and answered.
LEMMA Sums ==
    \A a, b, e, x, y, z \in Nat :
        /\ e <= 1 /\ b <= y
        /\ \/ a <= x /\ e <= z
           \/ a = x + 1 /\ e = 0 /\ z = 1
           \/ a = x + 1 /\ b = 0 /\ y > 0
        => a + b + b + e <= x + y + y + z
OBVIOUS

\* A client takes what it is told, reports only from its display, and never
\* puts more on its connection than it may.
LEMMA ClientLeaves ==
    ASSUME TypeOK, NEW c \in Clients, ClientEffect(c), NEW d \in Clients
    PROVE  /\ toCli'[d] \in {toCli[d], <<>>}
           /\ \A m : Has(toCli'[d], m) => Has(toCli[d], m) /\ toCli'[d] = toCli[d]
           /\ Has(toSrv'[d], "LinkDown") =>
                 Has(toSrv[d], "LinkDown") \/ Moves(d, "display", "stats")
           /\ cpc[d] \in Reading =>
                 cpc'[d] \in Reading
                   \/ (/\ toCli[d] # <<>> /\ Head(toCli[d]) = "Monitor" /\ toCli'[d] = <<>>
                        /\ Moves(d, "wait", "display"))
           /\ cpc'[d] = "display" => cpc[d] = "display" \/ cpc[d] \in Reading
           /\ Load(d)' <= Load(d)
<1>1. toCli'[d] \in {toCli[d], <<>>}
  BY DEF ClientEffect, Untouched, Answers
<1>2. \A m : Has(toCli'[d], m) => Has(toCli[d], m) /\ toCli'[d] = toCli[d]
  BY <1>1, HeadHas
<1>3. toSrv[d] \in Seq(Messages) /\ toCli[d] \in Seq(Messages)
  BY DEF TypeOK, ClientTypeOK
<1>4. \A m \in Messages : /\ Len(Append(toSrv[d], m)) = Len(toSrv[d]) + 1
                         /\ \A x : Has(Append(toSrv[d], m), x) <=> Has(toSrv[d], x) \/ x = m
  BY <1>3, Appended, AppendHas
<1>5. Len(toSrv[d]) \in Nat /\ Len(toCli[d]) \in Nat /\ Len(<<>>) = 0 /\ (toCli[d] # <<>> => Len(toCli[d]) > 0)
  BY <1>3, Lengths
<1>6. {"Ready", "LinkDown", "Monitoring", "LinkUp", "Done"} \subseteq Messages
  BY DEF Messages
<1>7. Has(toSrv'[d], "LinkDown") => Has(toSrv[d], "LinkDown") \/ Moves(d, "display", "stats")
  <2>1. \/ toSrv'[d] = toSrv[d] \/ Moves(d, "display", "stats")
        \/ \E m \in {"Ready", "Monitoring", "LinkUp", "Done"} : toSrv'[d] = Append(toSrv[d], m)
    BY DEF ClientEffect, Untouched, Answers, Sends
  <2> QED BY <1>4, <1>6, <2>1
<1>8. cpc[d] \in Reading =>
         cpc'[d] \in Reading
           \/ (/\ toCli[d] # <<>> /\ Head(toCli[d]) = "Monitor" /\ toCli'[d] = <<>>
                /\ Moves(d, "wait", "display"))
  BY DEF ClientEffect, Moves, Answers, Reading
<1>9. cpc'[d] = "display" => cpc[d] = "display" \/ cpc[d] \in Reading
  BY DEF ClientEffect, Moves, Reading
<1>10. Load(d)' <= Load(d)
  <2>1. /\ Owed(d) \in Nat /\ Owed(d)' \in Nat /\ Owed(d)' <= 1
        /\ cpc'[d] = cpc[d] => Owed(d)' = Owed(d)
    BY DEF Owed
  <2>12. /\ Len(toSrv[d]) \in Nat /\ Len(toCli[d]) \in Nat /\ Len(toCli'[d]) \in Nat
         /\ Len(toCli'[d]) <= Len(toCli[d])
         /\ toCli[d] # <<>> /\ toCli'[d] = <<>> => Len(toCli[d]) > 0 /\ Len(toCli'[d]) = 0
    BY <1>1, <1>5
  <2>13. ASSUME Len(toSrv'[d]) \in Nat,
                \/ Len(toSrv'[d]) <= Len(toSrv[d]) /\ Owed(d)' <= Owed(d)
                \/ Len(toSrv'[d]) = Len(toSrv[d]) + 1 /\ Owed(d)' = 0 /\ Owed(d) = 1
                \/ /\ Len(toSrv'[d]) = Len(toSrv[d]) + 1
                   /\ Len(toCli'[d]) = 0 /\ Len(toCli[d]) > 0
         PROVE  Load(d)' <= Load(d)
    <3> DEFINE a == Len(toSrv'[d])
               b == Len(toCli'[d])
               e == Owed(d)'
               x == Len(toSrv[d])
               y == Len(toCli[d])
               z == Owed(d)
    <3>1. /\ a \in Nat /\ b \in Nat /\ e \in Nat /\ x \in Nat /\ y \in Nat /\ z \in Nat
          /\ e <= 1 /\ b <= y
          /\ \/ a <= x /\ e <= z
             \/ a = x + 1 /\ e = 0 /\ z = 1
             \/ a = x + 1 /\ b = 0 /\ y > 0
      BY <2>1, <2>12, <2>13
    <3>2. Load(d)' = a + b + b + e /\ Load(d) = x + y + y + z
      BY DEF Load
    <3> HIDE DEF a, b, e, x, y, z
    <3> QED BY <3>1, <3>2, Sums
  <2>2. CASE Untouched(d) /\ Owed(d)' <= Owed(d)
    BY <2>12, <2>13, <2>2 DEF Untouched
  <2>3. CASE toSrv'[d] = toSrv[d] /\ Owed(d)' = 0
    BY <2>1, <2>12, <2>13, <2>3
  <2>4. CASE Len(toSrv'[d]) = Len(toSrv[d]) + 1 /\ Owed(d) = 1 /\ Owed(d)' = 0
    BY <2>12, <2>13, <2>4
  <2>5. CASE toCli[d] # <<>> /\ toCli'[d] = <<>> /\ Len(toSrv'[d]) = Len(toSrv[d]) + 1
    BY <2>12, <2>13, <2>5
  <2>6. CASE cpc'[d] = cpc[d] /\ Untouched(d)
    BY <2>1, <2>2, <2>6
  <2>7. CASE cpc'[d] = "done" /\ toSrv'[d] = toSrv[d]
    BY <1>1, <2>3, <2>7 DEF Owed, Before
  <2>8. CASE /\ Untouched(d)
             /\ \/ Moves(d, "connect", "opendir") \/ Moves(d, "opendir", "ready")
                \/ Moves(d, "stats", "wait")
    BY <2>2, <2>8 DEF Owed, Before, Moves
  <2>9. CASE /\ toCli'[d] = toCli[d] /\ \E m \in {"Ready", "LinkDown"} : Sends(d, m)
             /\ Moves(d, "ready", "stats") \/ Moves(d, "display", "stats")
    BY <1>4, <1>6, <2>4, <2>9 DEF Owed, Before, Moves, Sends
  <2>10. CASE toCli[d] # <<>> /\ toCli'[d] = <<>>
                /\ \E m \in {"Monitoring", "LinkUp", "Done"} : Sends(d, m)
    BY <1>4, <1>6, <2>5, <2>10 DEF Sends
  <2>11. CASE Moves(d, "wait", "stats") /\ toCli'[d] = <<>> /\ toSrv'[d] = toSrv[d]
    BY <2>3, <2>11 DEF Owed, Before, Moves
  <2> QED
    BY <2>6, <2>7, <2>8, <2>9, <2>10, <2>11 DEF ClientEffect, Answers
<1> QED BY <1>1, <1>2, <1>7, <1>8, <1>9, <1>10

-----------------------------------------------------------------------------
(* What is said until the loop, and by whom.                               *)

\* A client is asked to monitor only once its turn has come
\* (netMonitor.cpp:158-171).
LEMMA FreshKept == ASSUME IInv, Next PROVE Fresh'
<1> USE DEF IInv, netVars, serverVars, clientVars
<1>1. retRecv \in Clients \cup {NoClient} /\ idx \in Clients /\ pending \in Seq(Clients)
  BY DEF TypeOK, ClientTypeOK
<1>2. ASSUME NEW c \in Clients, UNCHANGED <<toSrv, toCli>>, cpc'[c] = cpc[c], Unasked(c)' => Unasked(c)
      PROVE  Unasked(c)' => /\ toCli'[c] = <<>>
                            /\ cpc'[c] \in Before \cup Reading
                            /\ cpc'[c] \in Before => toSrv'[c] = <<>>
                            /\ Len(toSrv'[c]) <= 1 /\ ~Has(toSrv'[c], "LinkDown")
  BY <1>2 DEF Fresh
<1>3. CASE Fork
  <2>1. cpc[idx] = "unborn" /\ cpc'[idx] = "connect" /\ UNCHANGED <<toSrv, toCli>>
    BY <1>1, <1>3, ForkDoes DEF Forking
  <2>2. \A c \in Clients \ {idx} : cpc'[c] = cpc[c] /\ (Unasked(c)' => Unasked(c))
    BY <1>3, ForkDoes DEF Unasked, Arrived
  <2> QED BY <1>1, <1>2, <2>1, <2>2 DEF Fresh, Unasked, Before
<1>4. CASE Bind \/ Listen
  BY <1>2, <1>4 DEF Bind, Listen, Fresh, Unasked, Arrived
<1>5. CASE Accept
  <2>1. UNCHANGED <<toSrv, toCli, cpc>> /\ mpc' = "ready"
    BY <1>5 DEF Accept
  <2>2. CASE retRecv' = NoClient /\ pending' = pending
    <3>1. \A c \in Clients : Unasked(c)' => Unasked(c)
      BY <2>1, <2>2 DEF Unasked, Arrived
    <3> QED BY <1>2, <2>1, <3>1 DEF Fresh
  <2>3. CASE pending # <<>> /\ retRecv' = Head(pending) /\ pending' = Tail(pending)
    <3>1. \A c \in Clients : Arrived(c)' \/ c = retRecv' => Arrived(c)
      BY <1>1, <2>3, BacklogHead DEF Arrived
    <3>2. \A c \in Clients : Unasked(c)' => Unasked(c)
      BY <2>1, <3>1 DEF Unasked
    <3> QED BY <1>2, <2>1, <3>2 DEF Fresh
  <2> QED BY <1>5, <2>2, <2>3 DEF Accept
<1>6. CASE AwaitReady \/ AwaitMonitoring \/ Serve \/ Quit \/ AwaitDone
  <2>1. /\ UNCHANGED <<pending, cpc, retRecv, connectedFDs>> /\ mpc' # "ready"
    BY <1>6, AwaitReadyDoes, AwaitMonitoringDoes, ServeDoes, QuitDoes, AwaitDoneDoes
       DEF TellEffect, AfterMessage
  <2>2. ASSUME NEW c \in Clients, Unasked(c)'
        PROVE  toSrv'[c] \in {toSrv[c], <<>>} /\ toCli'[c] = toCli[c]
    <3>1. c # retRecv /\ \A k \in Clients : connectedFDs[k] # c
      BY <2>1, <2>2 DEF Unasked, Arrivals, Arrived, Accepted
    <3>2. \A d : HearEffect(d) => toSrv'[c] \in {toSrv[c], <<>>}
      BY HearLeaves
    <3>3. \A m \in Messages : \A place : TellEffect(retRecv, m, place) => toCli'[c] = toCli[c]
      BY <3>1, TellOther
    <3>4. \A m \in Messages : \A place : TellEffect(connectedFDs[idx], m, place) => toCli'[c] = toCli[c]
      <4>1. connectedFDs[idx] # c
        BY <1>1, <3>1
      <4> QED BY <4>1, TellOther
    <3>5. "Monitor" \in Messages /\ "ShutDown" \in Messages /\ "SetLinkUp" \in Messages
      BY DEF Messages
    <3>6. CASE AwaitReady
      BY <3>2, <3>3, <3>5, <3>6, AwaitReadyDoes
    <3>7. CASE AwaitMonitoring
      BY <3>2, <3>3, <3>5, <3>7, AwaitMonitoringDoes
    <3>8. CASE Serve
      BY <3>2, <3>3, <3>5, <3>8, ServeDoes
    <3>9. CASE Quit
      BY <3>4, <3>5, <3>9, QuitDoes
    <3>10. CASE AwaitDone
      BY <3>2, <3>10, AwaitDoneDoes
    <3> QED BY <1>6, <3>6, <3>7, <3>8, <3>9, <3>10
  <2>3. \A c \in Clients : Unasked(c)' => Unasked(c)
    BY <2>1 DEF Unasked, Arrived
  <2>4. Len(<<>>) = 0 /\ ~Has(<<>>, "LinkDown")
    BY HeadHas, Lengths
  <2>5. ASSUME NEW c \in Clients, Unasked(c)'
        PROVE  /\ toCli'[c] = <<>>
               /\ cpc'[c] \in Before \cup Reading
               /\ cpc'[c] \in Before => toSrv'[c] = <<>>
               /\ Len(toSrv'[c]) <= 1 /\ ~Has(toSrv'[c], "LinkDown")
    <3>1. toSrv'[c] \in {toSrv[c], <<>>} /\ toCli'[c] = toCli[c] /\ cpc'[c] = cpc[c] /\ Unasked(c)
      BY <2>1, <2>2, <2>3, <2>5
    <3>2. toSrv'[c] = toSrv[c] \/ toSrv'[c] = <<>>
      BY <3>1
    <3>3. /\ toCli[c] = <<>> /\ cpc[c] \in Before \cup Reading
          /\ cpc[c] \in Before => toSrv[c] = <<>>
          /\ Len(toSrv[c]) <= 1 /\ ~Has(toSrv[c], "LinkDown")
      BY <3>1 DEF Fresh
    <3>4. CASE toSrv'[c] = toSrv[c]
      BY <3>1, <3>3, <3>4
    <3>5. CASE toSrv'[c] = <<>>
      <4>1. Len(toSrv'[c]) = 0 /\ ~Has(toSrv'[c], "LinkDown")
        BY <2>4, <3>5
      <4>2. toCli'[c] = toCli[c] /\ cpc'[c] = cpc[c]
        BY <3>1
      <4>3. Len(toSrv'[c]) <= 1
        BY <4>1
      <4> QED BY <3>3, <3>5, <4>1, <4>2, <4>3, Zenon
    <3> QED BY <3>2, <3>4, <3>5
  <2> QED BY <2>5 DEF Fresh
<1>7. CASE SigInt
  <2>1. \A c \in Clients :
           /\ Unasked(c)' => Unasked(c)
           /\ cpc'[c] = cpc[c] \/ cpc'[c] = "done"
           /\ UNCHANGED <<toSrv, toCli>>
    BY <1>7, SigIntDoes DEF Unasked, Arrived
  <2> QED BY <2>1 DEF Fresh, Before, Reading
<1>8. ASSUME NEW c \in Clients, ClientActs(c) PROVE Fresh'
  <2>1. ClientEffect(c) /\ UNCHANGED serverVars
    BY <1>8, ClientDoes
  <2>2. \A d \in Clients : Unasked(d)' => Unasked(d)
    <3>1. \A d \in Clients : Arrived(d)' => Arrived(d) \/ (d = c /\ cpc[c] = "connect")
      <4>1. CASE pending' = pending
        BY <4>1 DEF Arrived
      <4>2. CASE pending' = Append(pending, c) /\ Moves(c, "connect", "opendir")
        BY <1>1, <4>2, BacklogMore DEF Arrived, Moves
      <4> QED BY <2>1, <4>1, <4>2 DEF ClientEffect
    <3>2. \A d \in Clients : cpc'[d] \in {"unborn", "connect"} => cpc[d] \in {"unborn", "connect"}
      BY <2>1 DEF ClientEffect, Moves
    <3> QED BY <2>1, <3>1, <3>2 DEF Unasked
  <2>3. \A d \in Clients \ {c} : cpc'[d] = cpc[d] /\ Untouched(d)
    BY <2>1 DEF ClientEffect
  <2>4. ASSUME Unasked(c)
        PROVE  /\ toCli'[c] = <<>>
               /\ cpc'[c] \in Before \cup Reading
               /\ cpc'[c] \in Before => toSrv'[c] = <<>>
               /\ Len(toSrv'[c]) <= 1 /\ ~Has(toSrv'[c], "LinkDown")
    <3>1. /\ toCli[c] = <<>> /\ cpc[c] \in Before \cup Reading
          /\ cpc[c] \in Before => toSrv[c] = <<>>
          /\ Len(toSrv[c]) <= 1 /\ ~Has(toSrv[c], "LinkDown")
      BY <2>4 DEF Fresh
    <3>2. toCli'[c] = <<>> /\ ~Has(toSrv'[c], "LinkDown")
      BY <2>1, <3>1, ClientLeaves DEF Moves, Before, Reading
    <3>3. \/ toSrv'[c] = toSrv[c]
          \/ cpc[c] = "ready" /\ cpc'[c] = "stats" /\ Sends(c, "Ready")
      BY <2>1, <3>1 DEF ClientEffect, Untouched, Moves, Answers, Before, Reading
    <3>4. /\ cpc'[c] \in Before \cup Reading
          /\ cpc'[c] \in Before => cpc[c] \in Before /\ toSrv'[c] = toSrv[c]
      BY <2>1, <3>1 DEF ClientEffect, Untouched, Moves, Answers, Before, Reading
    <3>5. Sends(c, "Ready") /\ toSrv[c] = <<>> => Len(toSrv'[c]) <= 1
      <4>1. toSrv[c] \in Seq(Messages) /\ "Ready" \in Messages
        BY DEF Messages, TypeOK, ClientTypeOK
      <4>2. Len(Append(toSrv[c], "Ready")) = Len(toSrv[c]) + 1
        BY <4>1, Appended
      <4>3. toSrv[c] = <<>> => Len(toSrv[c]) = 0
        BY Lengths
      <4> QED BY <4>2, <4>3 DEF Sends
    <3> QED BY <3>1, <3>2, <3>3, <3>4, <3>5 DEF Before
  <2> QED BY <2>2, <2>3, <2>4 DEF Fresh, Untouched
<1> QED BY <1>3, <1>4, <1>5, <1>6, <1>7, <1>8 DEF Next, ServerStep, ClientActs

\* The two sides of a connection take turns until SIGINT (netMonitor.cpp:165-191,
\* intfMonitor.cpp:158-274).
LEMMA AlternationKept == ASSUME IInv, Next PROVE Alternation'
<1> USE DEF IInv, netVars, serverVars, clientVars
<1> SUFFICES ASSUME isWorking' PROVE \A c \in Clients : Exchange(c)'
  BY DEF Alternation
<1>1. retRecv \in Clients \cup {NoClient} /\ idx \in Clients
  BY DEF TypeOK
<1>2. \A c \in Clients : toSrv[c] \in Seq(Messages) /\ toCli[c] \in Seq(Messages)
  BY DEF TypeOK, ClientTypeOK
<1>3. ASSUME NEW c \in Clients, Exchange(c), UNCHANGED <<toSrv, toCli>>, cpc'[c] = cpc[c]
      PROVE  Exchange(c)'
  BY <1>3 DEF Exchange
<1>4. \A message \in Messages : /\ Len(Append(<<>>, message)) = 1
                               /\ Append(<<>>, message) # <<>>
                               /\ Head(Append(<<>>, message)) = message
  <2>1. <<>> \in Seq(Messages) /\ Len(<<>>) = 0
    BY EmptySeq, Lengths
  <2> QED BY <2>1, Appended
<1>5. CASE Fork
  <2>1. isWorking /\ Alternation
    BY <1>5, ForkDoes DEF Alternation
  <2>2. cpc[idx] = "unborn" /\ UNCHANGED <<toSrv, toCli>>
    BY <1>1, <1>5, ForkDoes DEF Forking
  <2>3. toSrv[idx] = <<>> /\ toCli[idx] = <<>>
    BY <1>1, <2>2 DEF Fresh, Unasked, Before
  <2>4. \A c \in Clients \ {idx} : cpc'[c] = cpc[c]
    BY <1>5, ForkDoes
  <2> QED BY <1>1, <1>3, <2>1, <2>2, <2>3, <2>4 DEF Alternation, Exchange
<1>6. CASE Bind \/ Listen \/ Accept
  BY <1>3, <1>6 DEF Bind, Listen, Accept, Alternation
<1>7. ASSUME NEW c \in Clients, isWorking, HearEffect(retRecv), cpc'[c] = cpc[c],
             toCli'[c] = toCli[c]
      PROVE  Exchange(c)'
  <2>1. Exchange(c) /\ toSrv'[c] \in {toSrv[c], <<>>}
    BY <1>7, HearLeaves DEF Alternation
  <2>2. CASE toSrv'[c] = toSrv[c]
    BY <1>3, <1>7, <2>1, <2>2 DEF Exchange
  <2>3. CASE toSrv'[c] = <<>>
    BY <1>7, <2>1, <2>3 DEF Exchange
  <2> QED BY <2>1, <2>2, <2>3
<1>8. ASSUME NEW c \in Clients, NEW message \in Messages,
             cpc[c] \in Reading, cpc'[c] = cpc[c], toSrv'[c] = <<>>, toCli[c] = <<>>,
             toCli'[c] = Append(toCli[c], message)
      PROVE  Exchange(c)'
  BY <1>4, <1>8 DEF Exchange
\* What is heard is a client's turn; what is told, the answer to it.
<1>9. ASSUME NEW message \in Messages, NEW place, isWorking, HearEffect(retRecv), cpc' = cpc,
             TellEffect(retRecv, message, place),
             retRecv \in Clients /\ cpc[retRecv] # "done"
                => cpc[retRecv] \in Reading /\ toCli[retRecv] = <<>>
      PROVE  \A c \in Clients : Exchange(c)'
  <2> SUFFICES ASSUME NEW c \in Clients PROVE Exchange(c)'
    OBVIOUS
  <2>1. \/ toCli'[c] = toCli[c]
        \/ c = retRecv /\ cpc[c] # "done" /\ toCli'[c] = Append(toCli[c], message)
    BY <1>9, TellLeaves
  <2>2. CASE toCli'[c] = toCli[c]
    BY <1>7, <1>9, <2>2
  <2>3. CASE c = retRecv /\ cpc[c] # "done" /\ toCli'[c] = Append(toCli[c], message)
    <3>1. toSrv'[c] = <<>> /\ cpc[c] \in Reading /\ toCli[c] = <<>>
      BY <1>9, <2>3, HearLeaves DEF Flags
    <3> QED BY <1>8, <1>9, <2>3, <3>1
  <2> QED BY <2>1, <2>2, <2>3
<1>10. /\ "Monitor" \in Messages /\ "ShutDown" \in Messages /\ "SetLinkUp" \in Messages
  BY DEF Messages
<1>11. ASSUME NEW c \in Clients, isWorking, NEW m, Comes(c, m), m # "Monitoring"
       PROVE  cpc[c] \in Reading /\ toCli[c] = <<>>
  <2>1. Exchange(c) /\ toSrv[c] # <<>> /\ Head(toSrv[c]) # "Monitoring"
    BY <1>11 DEF Alternation, Comes
  <2> QED BY <2>1 DEF Exchange
<1>12. CASE AwaitReady
  <2>1. /\ mpc = "ready" /\ isWorking /\ cpc' = cpc /\ HearEffect(retRecv)
        /\ TellEffect(retRecv, "Monitor", "monitoring")
        /\ Silent(retRecv) \/ toSrv[retRecv] # <<>>
    BY <1>12, AwaitReadyDoes
  <2>2. retRecv \in Clients /\ cpc[retRecv] # "done"
           => cpc[retRecv] \in Reading /\ toCli[retRecv] = <<>>
    <3>1. ~interrupted
      BY <2>1 DEF Flags
    <3>2. retRecv \in Clients => Unasked(retRecv)
      BY <2>1 DEF Unasked
    <3>3. retRecv \in Clients /\ cpc[retRecv] # "done" => toSrv[retRecv] # <<>>
      BY <2>1, <3>1 DEF Silent
    <3> QED BY <3>2, <3>3 DEF Fresh
  <2> QED BY <1>9, <1>10, <2>1, <2>2
<1>13. CASE AwaitMonitoring
  <2>1. isWorking /\ cpc' = cpc /\ HearEffect(retRecv)
    BY <1>13, AwaitMonitoringDoes
  <2>2. CASE toCli' = toCli
    BY <1>7, <2>1, <2>2
  <2>3. ASSUME NEW place, TellEffect(retRecv, "ShutDown", place),
               Silent(retRecv) \/ \E m \in Messages \ {"Monitoring"} : Comes(retRecv, m)
        PROVE  \A c \in Clients : Exchange(c)'
    <3>1. retRecv \in Clients /\ cpc[retRecv] # "done"
             => cpc[retRecv] \in Reading /\ toCli[retRecv] = <<>>
      <4>1. ~interrupted
        BY <2>1 DEF Flags
      <4>2. retRecv \in Clients /\ cpc[retRecv] # "done"
               => \E m \in Messages \ {"Monitoring"} : Comes(retRecv, m)
        BY <2>3, <4>1 DEF Silent
      <4>3. \A m \in Messages \ {"Monitoring"} : retRecv \in Clients /\ Comes(retRecv, m)
               => cpc[retRecv] \in Reading /\ toCli[retRecv] = <<>>
        BY <1>11, <2>1
      <4> QED BY <4>2, <4>3
    <3> QED BY <1>9, <1>10, <2>1, <2>3, <3>1
  <2> QED BY <1>13, <2>2, <2>3, AwaitMonitoringDoes
<1>14. CASE Serve
  <2>1. isWorking /\ cpc' = cpc /\ HearEffect(retRecv)
    BY <1>14, ServeDoes
  <2>2. CASE toCli' = toCli
    BY <1>7, <2>1, <2>2
  <2>3. ASSUME NEW m \in {"LinkDown", "LinkUp"}, Comes(retRecv, m),
               NEW message \in Messages, NEW place, TellEffect(retRecv, message, place)
        PROVE  \A c \in Clients : Exchange(c)'
    <3>1. retRecv \in Clients => cpc[retRecv] \in Reading /\ toCli[retRecv] = <<>>
      BY <1>11, <2>1, <2>3
    <3> QED BY <1>9, <2>1, <2>3, <3>1
  <2> QED BY <1>10, <1>14, <2>2, <2>3, ServeDoes
<1>15. CASE Quit \/ AwaitDone \/ SigInt
  BY <1>15, QuitDoes, AwaitDoneDoes, SigIntDoes DEF Flags
<1>16. ASSUME NEW c \in Clients, ClientActs(c) PROVE \A d \in Clients : Exchange(d)'
  <2>1. ClientEffect(c) /\ isWorking /\ Exchange(c)
    BY <1>16, ClientDoes DEF Alternation
  <2>2. ASSUME NEW d \in Clients \ {c} PROVE Exchange(d)'
    BY <1>3, <2>1, <2>2 DEF ClientEffect, Untouched, Alternation, Exchange
  <2>3. Exchange(c)'
    <3>1. /\ Len(toSrv[c]) \in Nat
          /\ \A m \in Messages : /\ Append(toSrv[c], m) # <<>>
                               /\ Len(Append(toSrv[c], m)) = Len(toSrv[c]) + 1
                               /\ Head(Append(toSrv[c], m)) = IF toSrv[c] = <<>> THEN m ELSE Head(toSrv[c])
      BY <1>2, Appended
    <3>15. (toSrv[c] = <<>> => Len(toSrv[c]) = 0) /\ (toSrv[c] # <<>> => Len(toSrv[c]) > 0)
      BY <1>2, Lengths
    <3>16. Len(toSrv[c]) <= 2 /\ (cpc[c] = "display" => toCli[c] = <<>> /\ Len(toSrv[c]) <= 1)
      <4>1. CASE toSrv[c] = <<>> /\ (toCli[c] = <<>> \/ cpc[c] \in Reading)
        BY <3>15, <4>1 DEF Reading
      <4>2. CASE Len(toSrv[c]) <= 2 /\ cpc[c] \in Reading
        BY <4>2 DEF Reading
      <4>3. CASE Len(toSrv[c]) = 1 /\ toCli[c] = <<>>
        BY <4>3
      <4> QED BY <2>1, <4>1, <4>2, <4>3 DEF Exchange
    <3>2. /\ "Ready" \in Messages /\ "LinkDown" \in Messages /\ "Monitoring" \in Messages
          /\ "LinkUp" \in Messages /\ "Done" \in Messages /\ Len(<<>>) = 0
      BY Lengths DEF Messages
    \* The client is silent, or moves on while it neither reads nor displays.
    <3>3. CASE Untouched(c) /\ (cpc'[c] = cpc[c] \/ cpc'[c] \in Reading)
      <4>1. toSrv'[c] = toSrv[c] /\ toCli'[c] = toCli[c]
        BY <3>3 DEF Untouched
      <4>2. cpc[c] \in Reading => cpc'[c] \in Reading
        BY <3>3
      <4>3. cpc[c] = "display" => cpc'[c] = "display" \/ cpc'[c] \in Reading
        BY <3>3
      <4>4. toSrv[c] # <<>> /\ Len(toSrv[c]) = 1 => Len(toSrv[c]) <= 2
        BY <3>1
      <4>5. Len(toSrv[c]) = 1 => toSrv[c] # <<>>
        BY <3>15
      <4> QED BY <2>1, <4>1, <4>2, <4>3, <4>4, <4>5 DEF Exchange
    <3>4. CASE Untouched(c) /\ cpc[c] \notin Reading /\ cpc[c] # "display"
      BY <2>1, <3>4 DEF Untouched, Exchange
    <3>5. CASE toSrv'[c] = toSrv[c] /\ toCli'[c] = <<>> /\ cpc'[c] \in Reading
      BY <3>5, <3>16 DEF Exchange
    \* It says that it is ready, or that its link is down.
    <3>6. CASE Moves(c, "ready", "stats") /\ Sends(c, "Ready") /\ toCli'[c] = toCli[c]
      <4>1. toSrv[c] = <<>> /\ toCli[c] = <<>>
        BY <2>1, <3>6 DEF Exchange, Moves, Reading
      <4> QED BY <1>4, <3>2, <3>6, <4>1 DEF Exchange, Moves, Sends, Reading
    <3>7. CASE Moves(c, "display", "stats") /\ Sends(c, "LinkDown") /\ toCli'[c] = toCli[c]
      <4>1. toCli[c] = <<>> /\ Len(toSrv[c]) <= 1
        BY <3>7, <3>16 DEF Moves
      <4>2. toSrv'[c] # <<>> /\ Len(toSrv'[c]) <= 2
        BY <3>1, <3>2, <3>7, <4>1 DEF Sends
      <4> QED BY <3>7, <4>1, <4>2 DEF Exchange, Moves, Reading
    \* It answers the only command there is.
    <3>8. CASE \E m \in {"Monitor", "SetLinkUp", "ShutDown"}, a \in {"Monitoring", "LinkUp", "Done"} :
             /\ Answers(c, m, a)
             /\ cpc'[c] \in Reading \/ (a = "Monitoring" /\ cpc'[c] = "display")
      <4>1. PICK a \in {"Monitoring", "LinkUp", "Done"} :
               /\ toCli[c] # <<>> /\ toCli'[c] = <<>> /\ Sends(c, a)
               /\ cpc'[c] \in Reading \/ (a = "Monitoring" /\ cpc'[c] = "display")
        BY <3>8 DEF Answers
      <4>2. toSrv[c] = <<>>
        BY <2>1, <4>1 DEF Exchange
      <4>3. Len(toSrv'[c]) = 1 /\ toSrv'[c] # <<>> /\ Head(toSrv'[c]) = a
        BY <1>4, <3>2, <4>1, <4>2 DEF Sends
      <4> QED BY <4>1, <4>3 DEF Exchange
    <3>9. CASE cpc'[c] = "done" /\ toSrv'[c] = toSrv[c] /\ toCli'[c] = toCli[c]
      BY <3>3, <3>9 DEF Untouched, Reading
    <3>10. CASE cpc'[c] = "done" /\ toSrv'[c] = toSrv[c] /\ toCli'[c] = <<>>
      BY <3>5, <3>10 DEF Reading
    <3>11. CASE Untouched(c) /\ cpc'[c] # cpc[c]
                /\ \/ Moves(c, "connect", "opendir") \/ Moves(c, "opendir", "ready")
                   \/ Moves(c, "stats", "wait")
      BY <3>3, <3>4, <3>11 DEF Moves, Reading
    <3>12. CASE Moves(c, "wait", "stats") /\ toCli'[c] = <<>> /\ toSrv'[c] = toSrv[c]
      BY <3>5, <3>12 DEF Moves, Reading
    <3>13. CASE \/ Moves(c, "wait", "display") /\ Answers(c, "Monitor", "Monitoring")
                \/ Moves(c, "wait", "stats") /\ Answers(c, "SetLinkUp", "LinkUp")
                \/ Moves(c, "wait", "done") /\ Answers(c, "ShutDown", "Done")
      BY <3>8, <3>13 DEF Moves, Reading
    <3>14. CASE Untouched(c) /\ cpc'[c] = cpc[c]
      BY <3>3, <3>14
    <3> QED
      BY <2>1, <3>6, <3>7, <3>9, <3>10, <3>11, <3>12, <3>13, <3>14 DEF ClientEffect
  <2> QED BY <2>2, <2>3
<1> QED
  BY <1>5, <1>6, <1>12, <1>13, <1>14, <1>15, <1>16 DEF Next, ServerStep, ClientActs

\* Only the loop repairs: a message told is on the connection it is told, and
\* no other arrives (netMonitor.cpp:80-88, 165-197).
LEMMA TellAdds ==
    ASSUME TypeOK, NEW d \in Clients, NEW m
    PROVE  /\ AwaitReady => (Has(toCli'[d], m) => Has(toCli[d], m) \/ m = "Monitor")
           /\ AwaitMonitoring => (Has(toCli'[d], m) => Has(toCli[d], m) \/ m = "ShutDown")
           /\ Quit => (Has(toCli'[d], m) => Has(toCli[d], m) \/ m = "ShutDown")
           /\ Serve => (Has(toCli'[d], m) =>
                 \/ Has(toCli[d], m)
                 \/ d = retRecv /\ m = "SetLinkUp" /\ Comes(d, "LinkDown")
                 \/ d = retRecv /\ m = "Monitor" /\ Comes(d, "LinkUp"))
<1>1. "Monitor" \in Messages /\ "SetLinkUp" \in Messages /\ "ShutDown" \in Messages
  BY DEF Messages
<1>2. ASSUME NEW c, NEW message \in Messages, NEW place, TellEffect(c, message, place)
      PROVE  Has(toCli'[d], m) => Has(toCli[d], m) \/ (d = c /\ m = message)
  <2>1. \A x : Has(toCli'[d], x) =>
           \/ Has(toCli[d], x)
           \/ d = c /\ cpc[d] # "done" /\ mpc' = place /\ x = message
    BY <1>2, TellLeaves
  <2> QED BY <2>1
<1>3. ASSUME AwaitReady
      PROVE  Has(toCli'[d], m) => Has(toCli[d], m) \/ m = "Monitor"
  <2>1. TellEffect(retRecv, "Monitor", "monitoring")
    BY <1>3, AwaitReadyDoes
  <2> QED BY <1>1, <1>2, <2>1
<1>4. ASSUME AwaitMonitoring
      PROVE  Has(toCli'[d], m) => Has(toCli[d], m) \/ m = "ShutDown"
  <2>1. PICK place : toCli' = toCli \/ TellEffect(retRecv, "ShutDown", place)
    BY <1>4, AwaitMonitoringDoes
  <2> QED BY <1>1, <1>2, <2>1
<1>5. ASSUME Quit
      PROVE  Has(toCli'[d], m) => Has(toCli[d], m) \/ m = "ShutDown"
  <2>1. TellEffect(connectedFDs[idx], "ShutDown", "answer")
    BY <1>5, QuitDoes
  <2> QED BY <1>1, <1>2, <2>1
<1>6. ASSUME Serve, Has(toCli'[d], m)
      PROVE  \/ Has(toCli[d], m)
             \/ d = retRecv /\ m = "SetLinkUp" /\ Comes(d, "LinkDown")
             \/ d = retRecv /\ m = "Monitor" /\ Comes(d, "LinkUp")
  <2>1. CASE toCli' = toCli
    BY <1>6, <2>1
  <2>2. CASE Comes(retRecv, "LinkDown") /\ TellEffect(retRecv, "SetLinkUp", AfterMessage)
    <3>1. Has(toCli[d], m) \/ (d = retRecv /\ m = "SetLinkUp")
      BY <1>1, <1>2, <1>6, <2>2
    <3> QED BY <2>2, <3>1
  <2>3. CASE Comes(retRecv, "LinkUp") /\ TellEffect(retRecv, "Monitor", AfterMessage)
    <3>1. Has(toCli[d], m) \/ (d = retRecv /\ m = "Monitor")
      BY <1>1, <1>2, <1>6, <2>3
    <3> QED BY <2>3, <3>1
  <2> QED BY <1>6, <2>1, <2>2, <2>3, ServeDoes
<1> QED BY <1>3, <1>4, <1>5, <1>6

\* Whoever reports waits, also when SIGINT has let the server run ahead
\* (netMonitor.cpp:165-191, intfMonitor.cpp:245-256).
LEMMA ReportWaitsKept == ASSUME IInv, Next PROVE ReportWaits'
<1> USE DEF IInv, netVars, serverVars, clientVars
<1> DEFINE Waits(c) == /\ Has(toSrv[c], "LinkDown") => cpc[c] \in Reading
                       /\ Has(toCli[c], "Monitor") => cpc[c] # "display" /\ ~Has(toSrv[c], "LinkDown")
<1>1. CASE Fork \/ Bind \/ Listen \/ Accept \/ Quit \/ AwaitDone
  <2>1. mpc' \notin {"monitoring", "loop"}
    BY <1>1, ForkDoes, QuitDoes, AwaitDoneDoes DEF Bind, Listen, Accept, TellEffect
  <2> QED BY <2>1 DEF ReportWaits
<1>2. CASE AwaitReady
  <2> SUFFICES ASSUME NEW c \in Clients, c = retRecv PROVE Waits(c)'
    BY <1>2, AwaitReadyDoes DEF ReportWaits
  <2>1. Unasked(c)
    BY <1>2, AwaitReadyDoes DEF Unasked
  <2>2. cpc[c] \in Before \cup Reading /\ ~Has(toSrv[c], "LinkDown")
    BY <2>1 DEF Fresh
  <2>3. ~Has(toSrv'[c], "LinkDown") /\ cpc'[c] = cpc[c]
    BY <1>2, <2>2, AwaitReadyDoes, HearLeaves
  <2> QED BY <2>2, <2>3 DEF Before, Reading
<1>3. CASE AwaitMonitoring
  <2> SUFFICES ASSUME NEW c \in Clients, c = retRecv PROVE Waits(c)'
    BY <1>3, AwaitMonitoringDoes DEF ReportWaits
  <2>1. Waits(c)
    BY <1>3, AwaitMonitoringDoes DEF ReportWaits
  <2>2. Has(toSrv'[c], "LinkDown") => Has(toSrv[c], "LinkDown")
    BY <1>3, AwaitMonitoringDoes, HearLeaves
  <2>3. Has(toCli'[c], "Monitor") => Has(toCli[c], "Monitor")
    BY <1>3, TellAdds
  <2>4. cpc'[c] = cpc[c]
    BY <1>3, AwaitMonitoringDoes
  <2> QED BY <2>1, <2>2, <2>3, <2>4
<1>4. CASE Serve
  <2> SUFFICES ASSUME NEW c \in Clients, c = retRecv, mpc' \in {"monitoring", "loop"} PROVE Waits(c)'
    BY <1>4, ServeDoes DEF ReportWaits
  <2>1. mpc = "loop" /\ cpc'[c] = cpc[c] /\ HearEffect(c)
    BY <1>4, ServeDoes
  <2>2. isWorking
    BY <1>4, ServeDoes DEF TellEffect, AfterMessage
  <2>3. ~Has(toSrv'[c], "LinkDown")
    BY <2>1, <2>2, HearLeaves, HeadHas DEF Flags
  <2>4. ASSUME Has(toCli'[c], "Monitor") PROVE cpc[c] # "display"
    <3>1. CASE Has(toCli[c], "Monitor")
      BY <2>1, <3>1 DEF ReportWaits
    <3>2. CASE Comes(c, "LinkUp")
      BY <2>2, <3>2 DEF Alternation, Exchange, Comes, Reading
    <3>3. Has(toCli[c], "Monitor") \/ Comes(c, "LinkUp")
      BY <1>4, <2>4, TellAdds
    <3> QED BY <3>1, <3>2, <3>3
  <2> QED BY <2>1, <2>3, <2>4
<1>5. CASE SigInt
  <2>1. \A c \in Clients : /\ Waits(c) => Waits(c)'
    BY <1>5, SigIntDoes DEF Reading
  <2> QED BY <1>5, <2>1, SigIntDoes DEF ReportWaits
<1>6. ASSUME NEW c \in Clients, ClientActs(c) PROVE ReportWaits'
  <2>1. ClientEffect(c) /\ UNCHANGED serverVars
    BY <1>6, ClientDoes
  <2> SUFFICES ASSUME NEW d \in Clients, mpc \in {"monitoring", "loop"}, d = retRecv PROVE Waits(d)'
    BY <2>1 DEF ReportWaits
  <2>2. Waits(d)
    BY DEF ReportWaits
  <2>3. ASSUME Has(toSrv'[d], "LinkDown") PROVE cpc'[d] \in Reading
    <3>1. CASE Has(toSrv[d], "LinkDown")
      <4>1. cpc[d] \in Reading /\ ~Has(toCli[d], "Monitor")
        BY <2>2, <3>1
      <4>2. toCli[d] # <<>> => Has(toCli[d], Head(toCli[d]))
        BY HeadHas DEF TypeOK, ClientTypeOK
      <4> QED BY <2>1, <4>1, <4>2, ClientLeaves
    <3>2. CASE Moves(d, "display", "stats")
      BY <3>2 DEF Moves, Reading
    <3> QED BY <2>1, <2>3, <3>1, <3>2, ClientLeaves
  <2>4. ASSUME Has(toCli'[d], "Monitor")
        PROVE  cpc'[d] # "display" /\ ~Has(toSrv'[d], "LinkDown")
    <3>1. Has(toCli[d], "Monitor") /\ toCli'[d] = toCli[d] /\ toCli[d] # <<>>
      BY <2>1, <2>4, ClientLeaves, HeadHas
    <3>2. cpc[d] # "display" /\ ~Has(toSrv[d], "LinkDown")
      BY <2>2, <3>1
    <3>3. cpc'[d] # "display"
      BY <2>1, <3>1, <3>2, ClientLeaves DEF Reading
    <3> QED BY <2>1, <3>2, <3>3, ClientLeaves DEF Moves
  <2> QED BY <2>3, <2>4
<1> QED BY <1>1, <1>2, <1>3, <1>4, <1>5, <1>6 DEF Next, ServerStep, ClientActs

\* Only the loop tells a client to set its link up (netMonitor.cpp:181-191).
LEMMA NoRepairYetKept == ASSUME IInv, Next PROVE NoRepairYet'
<1> USE DEF IInv, netVars, serverVars, clientVars
<1>1. CASE Fork \/ Bind \/ Listen \/ Accept
  BY <1>1, ForkDoes DEF Bind, Listen, Accept, NoRepairYet, Starting
<1>2. CASE AwaitReady
  <2>1. NoRepairYet /\ mpc \in Starting
    BY <1>2, AwaitReadyDoes DEF Starting
  <2>2. \A c \in Clients : Has(toCli'[c], "SetLinkUp") => Has(toCli[c], "SetLinkUp")
    BY <1>2, TellAdds
  <2> QED BY <2>1, <2>2 DEF NoRepairYet
<1>3. CASE AwaitMonitoring
  <2>1. NoRepairYet /\ mpc \in Starting
    BY <1>3, AwaitMonitoringDoes DEF Starting
  <2>2. \A c \in Clients : Has(toCli'[c], "SetLinkUp") => Has(toCli[c], "SetLinkUp")
    BY <1>3, TellAdds
  <2> QED BY <2>1, <2>2 DEF NoRepairYet
<1>4. CASE Serve \/ Quit \/ AwaitDone
  <2>1. mpc' \notin Starting
    BY <1>4, ServeDoes, QuitDoes, AwaitDoneDoes DEF TellEffect, AfterMessage, Starting
  <2> QED BY <2>1 DEF NoRepairYet
<1>5. CASE SigInt
  BY <1>5, SigIntDoes DEF NoRepairYet
<1>6. ASSUME NEW c \in Clients, ClientActs(c) PROVE NoRepairYet'
  BY <1>6, ClientDoes, ClientLeaves DEF NoRepairYet
<1> QED BY <1>1, <1>2, <1>3, <1>4, <1>5, <1>6 DEF Next, ServerStep, ClientActs

\* A client that ended without a connection never gets one
\* (intfMonitor.cpp:122-138).
LEMMA GaveUpStays == ASSUME IInv, Next, GaveUp PROVE GaveUp'
<1> USE DEF IInv, Arrived, Accepted, netVars, serverVars, clientVars
<1>1. PICK c \in Clients : cpc[c] = "done" /\ ~Arrived(c) /\ ~Accepted(c)
  BY DEF GaveUp
<1> SUFFICES cpc'[c] = "done" /\ ~Arrived(c)' /\ ~Accepted(c)'
  BY DEF GaveUp
<1>2. CASE Fork
  <2>1. idx \in Clients /\ cpc[idx] = "unborn"
    BY <1>2, ForkDoes DEF TypeOK, Forking
  <2> QED BY <1>1, <1>2, <2>1, ForkDoes
<1>3. CASE Bind \/ Listen
  BY <1>1, <1>3 DEF Bind, Listen
<1>4. CASE Accept
  <2>1. cpc' = cpc /\ connectedFDs' = [connectedFDs EXCEPT ![idx] = retRecv']
    BY <1>4 DEF Accept
  <2>2. connectedFDs \in [Clients -> Clients \cup {NoClient}] /\ pending \in Seq(Clients)
    BY DEF TypeOK, ClientTypeOK
  <2>3. CASE pending # <<>> /\ retRecv' = Head(pending) /\ pending' = Tail(pending)
    <3>1. retRecv' = pending[1] /\ 1 \in DOMAIN pending
      BY <2>2, <2>3, BacklogHead
    <3>2. retRecv' # c
      BY <1>1, <3>1
    <3>3. ~Arrived(c)'
      BY <1>1, <2>2, <2>3, BacklogHead
    <3> QED BY <1>1, <2>1, <2>2, <3>2, <3>3
  <2>4. CASE retRecv' = NoClient /\ pending' = pending
    BY <1>1, <2>1, <2>2, <2>4
  <2> QED BY <1>4, <2>3, <2>4 DEF Accept
<1>5. CASE AwaitReady \/ AwaitMonitoring
  BY <1>1, <1>5, AwaitReadyDoes, AwaitMonitoringDoes
<1>6. CASE Serve \/ Quit \/ AwaitDone
  BY <1>1, <1>6, ServeDoes, QuitDoes, AwaitDoneDoes
<1>7. CASE SigInt
  BY <1>1, <1>7, SigIntDoes
<1>8. ASSUME NEW d \in Clients, ClientActs(d)
      PROVE  cpc'[c] = "done" /\ ~Arrived(c)' /\ ~Accepted(c)'
  <2>1. ClientEffect(d) /\ UNCHANGED serverVars
    BY <1>8, ClientDoes
  <2>2. cpc'[c] = "done"
    BY <1>1, <2>1 DEF ClientEffect, Moves
  <2>3. pending \in Seq(Clients)
    BY DEF TypeOK, ClientTypeOK
  <2>4. CASE pending' = pending
    BY <1>1, <2>1, <2>2, <2>4
  <2>5. CASE pending' = Append(pending, d) /\ Moves(d, "connect", "opendir")
    <3>1. d # c
      BY <1>1, <2>5 DEF Moves
    <3>2. ~Arrived(c)'
      BY <1>1, <2>3, <2>5, <3>1, BacklogMore
    <3> QED BY <1>1, <2>1, <2>2, <3>2
  <2> QED BY <2>1, <2>4, <2>5 DEF ClientEffect
<1> QED BY <1>2, <1>3, <1>4, <1>5, <1>6, <1>7, <1>8 DEF Next, ServerStep, ClientActs

\* The path is where clients look for it, unless one gave up
\* (netMonitor.cpp:143-163, intfMonitor.cpp:79-83, 122-138).
LEMMA PathThereKept == ASSUME IInv, Next PROVE PathThere'
<1> USE DEF IInv, PathThere, netVars, serverVars, clientVars
<1>1. CASE GaveUp
  BY <1>1, GaveUpStays
<1> SUFFICES ASSUME ~GaveUp PROVE PathThere'
  BY <1>1
<1>2. CASE Fork \/ Bind \/ Listen \/ Accept
  BY <1>2, ForkDoes DEF Bind, Listen, Accept, TypeOK, ClientTypeOK
<1>3. CASE AwaitReady
  BY <1>3, AwaitReadyDoes DEF TellEffect
<1>4. CASE AwaitMonitoring
  BY <1>4, AwaitMonitoringDoes DEF TellEffect
<1>5. CASE Serve \/ Quit \/ AwaitDone
  <2>1. mpc' \notin Starting
    BY <1>5, ServeDoes, QuitDoes, AwaitDoneDoes DEF TellEffect, AfterMessage, Starting
  <2> QED BY <2>1 DEF Starting
<1>6. CASE SigInt
  BY <1>6, SigIntDoes
<1>7. ASSUME NEW c \in Clients, ClientActs(c) PROVE PathThere'
  <2>1. ClientEffect(c) /\ UNCHANGED serverVars
    BY <1>7, ClientDoes
  <2>2. mpc \in Starting => ~(toCli[c] # <<>> /\ Head(toCli[c]) = "SetLinkUp")
    BY HeadHas DEF NoRepairYet, TypeOK, ClientTypeOK
  <2>3. CASE path' = path
    BY <2>1, <2>3
  <2>4. CASE Moves(c, "connect", "done") /\ pending' = pending
    <3>1. ~Arrived(c) /\ ~Accepted(c)
      BY <2>4 DEF Arrivals, Moves
    <3>2. cpc'[c] = "done" /\ ~Arrived(c)' /\ ~Accepted(c)'
      BY <2>1, <2>4, <3>1 DEF Arrived, Accepted, Moves
    <3>3. GaveUp'
      BY <3>2 DEF GaveUp
    <3> QED BY <3>3
  <2> QED BY <2>1, <2>2, <2>3, <2>4 DEF ClientEffect, Starting
<1> QED BY <1>2, <1>3, <1>4, <1>5, <1>6, <1>7 DEF Next, ServerStep, ClientActs

\* Whoever is told to set its link up reads (netMonitor.cpp:184-186,
\* intfMonitor.cpp:259-274).
LEMMA RepairKept == ASSUME IInv, Next PROVE RepairExpected'
<1> USE DEF IInv, netVars, serverVars, clientVars
<1>1. RepairExpected <=>
        \A c \in Clients : Has(toCli[c], "SetLinkUp") => c = retRecv /\ cpc[c] \in Reading
  BY DEF RepairExpected, Has, Reading
<1>2. RepairExpected' <=>
        \A c \in Clients : Has(toCli'[c], "SetLinkUp") => c = retRecv' /\ cpc'[c] \in Reading
  BY DEF RepairExpected, Has, Reading
<1>3. CASE Fork \/ Bind \/ Listen \/ Accept
  <2>1. mpc \in Starting /\ toCli' = toCli
    BY <1>3, ForkDoes DEF Bind, Listen, Accept, Starting
  <2> QED BY <1>2, <2>1 DEF NoRepairYet
<1>4. CASE AwaitReady
  <2>1. \A c \in Clients : Has(toCli'[c], "SetLinkUp") => Has(toCli[c], "SetLinkUp")
    BY <1>4, TellAdds
  <2> QED BY <1>1, <1>2, <1>4, <2>1, AwaitReadyDoes
<1>5. CASE AwaitMonitoring
  <2>1. \A c \in Clients : Has(toCli'[c], "SetLinkUp") => Has(toCli[c], "SetLinkUp")
    BY <1>5, TellAdds
  <2> QED BY <1>1, <1>2, <1>5, <2>1, AwaitMonitoringDoes
<1>6. CASE Serve
  <2>1. mpc = "loop" /\ cpc' = cpc /\ retRecv' = retRecv
    BY <1>6, ServeDoes
  <2>2. Comes(retRecv, "LinkDown") => retRecv \in Clients /\ cpc[retRecv] \in Reading
    <3>1. Comes(retRecv, "LinkDown") => retRecv \in Clients /\ Has(toSrv[retRecv], "LinkDown")
      BY HeadHas DEF Comes, TypeOK, ClientTypeOK
    <3> QED BY <2>1, <3>1 DEF ReportWaits
  <2>3. ASSUME NEW c \in Clients, Has(toCli'[c], "SetLinkUp")
        PROVE  Has(toCli[c], "SetLinkUp") \/ (c = retRecv /\ cpc[c] \in Reading)
    BY <1>6, <2>2, <2>3, TellAdds
  <2> QED BY <1>1, <1>2, <2>1, <2>3
<1>7. CASE Quit
  <2>1. \A c \in Clients : Has(toCli'[c], "SetLinkUp") => Has(toCli[c], "SetLinkUp")
    BY <1>7, TellAdds
  <2> QED BY <1>1, <1>2, <1>7, <2>1, QuitDoes
<1>8. CASE AwaitDone
  BY <1>1, <1>2, <1>8, AwaitDoneDoes
<1>9. CASE SigInt
  BY <1>1, <1>2, <1>9, SigIntDoes DEF Reading
<1>10. ASSUME NEW c \in Clients, ClientActs(c) PROVE RepairExpected'
  <2>1. ClientEffect(c) /\ retRecv' = retRecv
    BY <1>10, ClientDoes
  <2>2. ASSUME NEW d \in Clients, Has(toCli'[d], "SetLinkUp")
        PROVE  d = retRecv' /\ cpc'[d] \in Reading
    <3>1. Has(toCli[d], "SetLinkUp") /\ toCli'[d] = toCli[d]
      BY <2>1, <2>2, ClientLeaves
    <3>2. toCli[d] # <<>>
      BY <3>1, HeadHas
    <3>3. d = retRecv /\ cpc[d] \in Reading
      BY <1>1, <3>1
    <3> QED BY <2>1, <3>1, <3>2, <3>3, ClientLeaves
  <2> QED BY <1>2, <2>2
<1> QED
  BY <1>3, <1>4, <1>5, <1>6, <1>7, <1>8, <1>9, <1>10 DEF Next, ServerStep, ClientActs

-----------------------------------------------------------------------------
(* What is on the connections is bounded.                                  *)

\* Hearing and telling, in numbers.
LEMMA ServerLoad ==
    ASSUME TypeOK, NEW c \in Clients, cpc'[c] = cpc[c]
    PROVE  /\ Load(c) \in Nat
           /\ \A d : HearEffect(d) /\ toCli'[c] = toCli[c] => Load(c)' <= Load(c)
           /\ \A d, place : \A message \in Messages :
                 HearEffect(d) /\ TellEffect(d, message, place)
                    => Load(c)' <= Load(c) + 2 /\ (c # d => Load(c)' <= Load(c))
           /\ \A d, place : \A message \in Messages :
                 toSrv' = toSrv /\ TellEffect(d, message, place)
                    => Load(c)' <= Load(c) + 2 /\ (c # d => Load(c)' <= Load(c))
<1>1. Len(toSrv[c]) \in Nat /\ Len(toCli[c]) \in Nat /\ Owed(c) \in Nat
  BY Lengths DEF Owed, TypeOK, ClientTypeOK
<1>2. Load(c) = Len(toSrv[c]) + Len(toCli[c]) + Len(toCli[c]) + Owed(c)
  BY DEF Load
<1>3. Load(c)' = Len(toSrv'[c]) + Len(toCli'[c]) + Len(toCli'[c]) + Owed(c)
  BY DEF Load, Owed
<1>4. ASSUME Len(toSrv'[c]) \in Nat, Len(toSrv'[c]) <= Len(toSrv[c]),
             Len(toCli'[c]) \in Nat, Len(toCli'[c]) <= Len(toCli[c]) + 1
      PROVE  Load(c)' <= Load(c) + 2 /\ (Len(toCli'[c]) <= Len(toCli[c]) => Load(c)' <= Load(c))
  <2> DEFINE a == Len(toSrv'[c])
             b == Len(toCli'[c])
             x == Len(toSrv[c])
             y == Len(toCli[c])
             e == Owed(c)
  <2>1. /\ a \in Nat /\ b \in Nat /\ x \in Nat /\ y \in Nat /\ e \in Nat
        /\ a <= x /\ b <= y + 1
    BY <1>1, <1>4
  <2>2. Load(c)' = a + b + b + e /\ Load(c) = x + y + y + e
    BY <1>2, <1>3
  <2> HIDE DEF a, b, x, y, e
  <2>3. a + b + b + e <= x + y + y + e + 2 /\ (b <= y => a + b + b + e <= x + y + y + e)
    BY <2>1
  <2>4. Load(c)' <= Load(c) + 2 /\ (b <= y => Load(c)' <= Load(c))
    BY <2>2, <2>3
  <2> QED BY <2>4 DEF b, y
<1>5. Load(c) \in Nat
  <2> DEFINE x == Len(toSrv[c])
             y == Len(toCli[c])
             e == Owed(c)
  <2>1. x \in Nat /\ y \in Nat /\ e \in Nat /\ Load(c) = x + y + y + e
    BY <1>1, <1>2
  <2> HIDE DEF x, y, e
  <2> QED BY <2>1
<1>6. ASSUME NEW d, HearEffect(d), toCli'[c] = toCli[c] PROVE Load(c)' <= Load(c)
  <2>1. Len(toSrv'[c]) \in Nat /\ Len(toSrv'[c]) <= Len(toSrv[c])
    BY <1>6, HearLeaves
  <2>2. Len(toCli'[c]) \in Nat /\ Len(toCli'[c]) <= Len(toCli[c]) /\ Len(toCli'[c]) <= Len(toCli[c]) + 1
    BY <1>1, <1>6
  <2> QED BY <1>4, <2>1, <2>2
<1>7. ASSUME NEW d, NEW place, NEW message \in Messages, TellEffect(d, message, place),
             HearEffect(d) \/ toSrv' = toSrv
      PROVE  Load(c)' <= Load(c) + 2 /\ (c # d => Load(c)' <= Load(c))
  <2>1. Len(toSrv'[c]) \in Nat /\ Len(toSrv'[c]) <= Len(toSrv[c])
    BY <1>1, <1>7, HearLeaves
  <2>2. Len(toCli'[c]) \in Nat /\ Len(toCli'[c]) <= Len(toCli[c]) + 1
    BY <1>7, TellLeaves
  <2>3. c # d => Len(toCli'[c]) <= Len(toCli[c])
    <3>1. c # d => toCli'[c] = toCli[c]
      BY <1>7, TellLeaves
    <3> QED BY <1>1, <3>1
  <2> QED BY <1>4, <2>1, <2>2, <2>3
<1> QED BY <1>5, <1>6, <1>7

\* Before the loop and in it, turns keep the number small; the end adds two
\* messages to each (netMonitor.cpp:158-209).
LEMMA LoadsKept == ASSUME IInv, Next PROVE Loads'
<1> USE DEF IInv, netVars, serverVars, clientVars
<1>1. /\ "Monitor" \in Messages /\ "SetLinkUp" \in Messages /\ "ShutDown" \in Messages
      /\ idx \in Clients /\ retRecv \in Clients \cup {NoClient}
      /\ connectedFDs \in [Clients -> Clients \cup {NoClient}]
  BY DEF Messages, TypeOK
<1>2. \A c \in Clients : /\ toSrv[c] \in Seq(Messages) /\ toCli[c] \in Seq(Messages)
                        /\ Len(toSrv[c]) \in Nat /\ Len(toCli[c]) \in Nat
                        /\ (toSrv[c] = <<>> => Len(toSrv[c]) = 0)
                        /\ (toCli[c] = <<>> => Len(toCli[c]) = 0)
  BY Lengths DEF TypeOK, ClientTypeOK
<1>3. \A c \in Clients : Load(c) \in Nat
  <2> SUFFICES ASSUME NEW c \in Clients PROVE Load(c) \in Nat
    OBVIOUS
  <2> DEFINE x == Len(toSrv[c])
             y == Len(toCli[c])
             e == Owed(c)
  <2>1. x \in Nat /\ y \in Nat /\ e \in Nat /\ Load(c) = x + y + y + e
    BY <1>2 DEF Owed, Load
  <2> HIDE DEF x, y, e
  <2> QED BY <2>1
\* A client that waits for its first command has at most one message under way;
\* one that takes turns, at most what comes of one command.
<1>4. ASSUME NEW c \in Clients, Unasked(c) PROVE Load(c) <= 1
  <2>1. /\ toCli[c] = <<>>
        /\ cpc[c] \in Before \cup Reading
        /\ cpc[c] \in Before => toSrv[c] = <<>>
        /\ Len(toSrv[c]) <= 1
    BY <1>4 DEF Fresh
  <2>2. Len(toCli[c]) = 0 /\ Len(toSrv[c]) + Owed(c) <= 1
    <3>1. CASE cpc[c] \in Before
      <4>1. Len(toSrv[c]) = 0 /\ Len(toCli[c]) = 0
        BY <1>2, <2>1, <3>1
      <4>2. Owed(c) = 1
        BY <3>1 DEF Owed
      <4> QED BY <4>1, <4>2
    <3>2. CASE cpc[c] \in Reading
      <4>1. Owed(c) = 0
        BY <3>2 DEF Owed, Before, Reading
      <4> QED BY <1>2, <2>1, <4>1
    <3> QED BY <2>1, <3>1, <3>2
  <2> DEFINE x == Len(toSrv[c])
             y == Len(toCli[c])
             e == Owed(c)
  <2>3. x \in Nat /\ y = 0 /\ e \in Nat /\ x + e <= 1 /\ Load(c) = x + y + y + e
    BY <1>2, <2>2 DEF Owed, Load
  <2> HIDE DEF x, y, e
  <2> QED BY <2>3
<1>5. ASSUME NEW c \in Clients, isWorking PROVE Load(c) <= 3
  <2>1. \/ Len(toSrv[c]) = 0 /\ Len(toCli[c]) = 0
        \/ Len(toSrv[c]) = 0 /\ Len(toCli[c]) = 1 /\ cpc[c] \in Reading
        \/ Len(toSrv[c]) <= 2 /\ Len(toCli[c]) = 0 /\ cpc[c] \in Reading
        \/ Len(toSrv[c]) = 1 /\ Len(toCli[c]) = 0
    BY <1>2, <1>5 DEF Alternation, Exchange
  <2>2. Owed(c) \in Nat /\ Owed(c) <= 1 /\ (cpc[c] \in Reading => Owed(c) = 0)
    BY DEF Owed, Reading, Before
  <2> DEFINE x == Len(toSrv[c])
             y == Len(toCli[c])
             e == Owed(c)
  <2>3. x \in Nat /\ y \in Nat /\ Load(c) = x + y + y + e
    BY <1>2 DEF Load
  <2>4. /\ e \in Nat /\ e <= 1
        /\ \/ x = 0 /\ y = 0
           \/ x = 0 /\ y = 1 /\ e = 0
           \/ x <= 2 /\ y = 0 /\ e = 0
           \/ x = 1 /\ y = 0
    BY <2>1, <2>2
  <2> HIDE DEF x, y, e
  <2> QED BY <2>3, <2>4
<1>6. TypeOK'
  BY ServerTypes, ClientTypes DEF Next, ClientActs
<1>7. \A c \in Clients : Load(c)' \in Nat
  <2> SUFFICES ASSUME NEW c \in Clients PROVE Load(c)' \in Nat
    OBVIOUS
  <2> DEFINE x == Len(toSrv'[c])
             y == Len(toCli'[c])
             e == Owed(c)'
  <2>1. x \in Nat /\ y \in Nat /\ e \in Nat /\ Load(c)' = x + y + y + e
    BY <1>6, Lengths DEF Owed, Load, TypeOK, ClientTypeOK
  <2> HIDE DEF x, y, e
  <2> QED BY <2>1
<1> DEFINE Bounded(c) == /\ mpc = "monitoring" /\ retRecv = c => Load(c) <= 3
                         /\ mpc \in Starting \cup {"loop"} => Load(c) <= 5
                         /\ mpc \in {"quit", "answer"} /\ ~Told(c) => Load(c) <= 7
                         /\ Load(c) <= 9
<1>8. \A c \in Clients : Bounded(c)
  BY DEF Loads
<1> SUFFICES ASSUME NEW c \in Clients PROVE Bounded(c)'
  BY DEF Loads
<1>9. Load(c) \in Nat /\ Load(c)' \in Nat
  BY <1>3, <1>7
<1>10. CASE Fork
  <2>1. cpc[idx] = "unborn" /\ cpc'[idx] = "connect" /\ UNCHANGED <<toSrv, toCli>>
    BY <1>1, <1>10, ForkDoes DEF Forking
  <2>2. c # idx => cpc'[c] = cpc[c]
    BY <1>10, ForkDoes
  <2>3. Load(c)' = Load(c)
    BY <2>1, <2>2 DEF Load, Owed, Before
  <2>4. mpc = "fork" /\ mpc' \in {"fork", "bind"}
    BY <1>10, ForkDoes
  <2> QED BY <1>8, <1>9, <2>3, <2>4 DEF Starting
<1>11. CASE Bind \/ Listen \/ Accept
  <2>1. /\ UNCHANGED <<toSrv, toCli, cpc>> /\ mpc \in {"bind", "listen", "accept"}
        /\ mpc' \in {"listen", "accept", "ready", "failed"}
    BY <1>11 DEF Bind, Listen, Accept
  <2>2. Load(c)' = Load(c)
    BY <2>1 DEF Load, Owed
  <2> QED BY <1>8, <1>9, <2>1, <2>2 DEF Starting
<1>12. CASE AwaitReady
  <2>1. /\ mpc = "ready" /\ mpc' \in {"monitoring", "killed"}
        /\ retRecv' = retRecv /\ cpc'[c] = cpc[c]
    BY <1>12, AwaitReadyDoes DEF TellEffect
  <2>2. Load(c)' <= Load(c) + 2 /\ (c # retRecv => Load(c)' <= Load(c))
    BY <1>1, <1>12, <2>1, AwaitReadyDoes, ServerLoad
  <2>3. c = retRecv => Load(c) <= 1
    BY <1>4, <2>1 DEF Unasked
  <2>4. Load(c) <= 5
    BY <1>8, <2>1 DEF Starting
  <2> QED BY <1>9, <2>1, <2>2, <2>3, <2>4 DEF Starting
<1>13. CASE AwaitMonitoring
  <2>1. /\ mpc = "monitoring" /\ mpc' \in {"listen", "loop", "killed"} /\ cpc'[c] = cpc[c]
    BY <1>13, AwaitMonitoringDoes DEF TellEffect
  <2>2. Load(c)' <= Load(c) + 2 /\ (c # retRecv => Load(c)' <= Load(c))
    <3>1. CASE toCli' = toCli
      <4>1. Load(c)' <= Load(c)
        BY <1>13, <2>1, <3>1, AwaitMonitoringDoes, ServerLoad
      <4> QED BY <1>9, <4>1
    <3>2. ASSUME NEW place, TellEffect(retRecv, "ShutDown", place)
          PROVE  Load(c)' <= Load(c) + 2 /\ (c # retRecv => Load(c)' <= Load(c))
      BY <1>1, <1>13, <2>1, <3>2, AwaitMonitoringDoes, ServerLoad
    <3> QED BY <1>13, <3>1, <3>2, AwaitMonitoringDoes
  <2>3. Load(c) <= 5 /\ (c = retRecv => Load(c) <= 3)
    BY <1>8, <2>1 DEF Starting
  <2> QED BY <1>9, <2>1, <2>2, <2>3 DEF Starting
<1>14. CASE Serve
  <2>1. /\ mpc = "loop" /\ cpc'[c] = cpc[c]
        /\ mpc' = "killed" \/ (mpc' = "loop" /\ isWorking) \/ mpc' = "quit"
    BY <1>14, ServeDoes DEF TellEffect, AfterMessage
  <2>2. Load(c)' <= Load(c) + 2
    <3>1. CASE toCli' = toCli
      <4>1. Load(c)' <= Load(c)
        BY <1>14, <2>1, <3>1, ServeDoes, ServerLoad
      <4> QED BY <1>9, <4>1
    <3>2. ASSUME NEW place, NEW message \in Messages, TellEffect(retRecv, message, place)
          PROVE  Load(c)' <= Load(c) + 2
      BY <1>14, <2>1, <3>2, ServeDoes, ServerLoad
    <3> QED BY <1>1, <1>14, <3>1, <3>2, ServeDoes
  <2>3. Load(c) <= 5 /\ (isWorking => Load(c) <= 3)
    BY <1>5, <1>8, <2>1
  <2> QED BY <1>9, <2>1, <2>2, <2>3 DEF Starting
<1>15. CASE Quit
  <2>1. /\ mpc = "quit" /\ mpc' \in {"answer", "killed"}
        /\ UNCHANGED <<cpc, toSrv, idx, connectedFDs>>
    BY <1>15, QuitDoes DEF TellEffect
  <2>2. Load(c)' <= Load(c) + 2 /\ (c # connectedFDs[idx] => Load(c)' <= Load(c))
    BY <1>1, <1>15, <2>1, QuitDoes, ServerLoad
  <2>3. c = connectedFDs[idx] => ~Told(c)
    BY <1>1, <2>1 DEF Told, Arrivals
  <2>4. mpc' = "answer" => (Told(c)' <=> Told(c) \/ c = connectedFDs[idx])
    BY <1>1, <2>1 DEF Told
  <2>5. Load(c) <= 9 /\ (~Told(c) => Load(c) <= 7)
    BY <1>8, <2>1
  <2> QED BY <1>9, <2>1, <2>2, <2>3, <2>4, <2>5 DEF Starting
<1>16. CASE AwaitDone
  <2>1. /\ mpc = "answer" /\ UNCHANGED <<cpc, toCli, connectedFDs>>
        /\ (mpc' = "quit" /\ idx' = idx + 1) \/ mpc' = "exited"
    BY <1>16, AwaitDoneDoes
  <2>2. Load(c)' <= Load(c)
    BY <1>16, <2>1, AwaitDoneDoes, ServerLoad
  <2>3. mpc' = "quit" => (Told(c) => Told(c)')
    BY <1>1, <2>1 DEF Told
  <2>4. Load(c) <= 9 /\ (~Told(c) => Load(c) <= 7)
    BY <1>8, <2>1
  <2> QED BY <1>9, <2>1, <2>2, <2>3, <2>4 DEF Starting
<1>17. CASE SigInt
  <2>1. /\ UNCHANGED <<toSrv, toCli, mpc, idx, retRecv, connectedFDs>>
        /\ cpc'[c] = cpc[c] \/ cpc'[c] = "done"
    BY <1>17, SigIntDoes
  <2>2. Owed(c)' = Owed(c) \/ (Owed(c)' = 0 /\ Owed(c) \in {0, 1})
    BY <2>1 DEF Owed, Before
  <2>3. Load(c)' <= Load(c)
    <3> DEFINE x == Len(toSrv[c])
               y == Len(toCli[c])
               e == Owed(c)
               f == Owed(c)'
    <3>1. /\ x \in Nat /\ y \in Nat /\ e \in Nat /\ f \in Nat /\ f <= e
          /\ Load(c) = x + y + y + e /\ Load(c)' = x + y + y + f
      BY <1>2, <2>1, <2>2 DEF Load, Owed
    <3> HIDE DEF x, y, e, f
    <3> QED BY <3>1
  <2>4. Told(c)' <=> Told(c)
    BY <2>1 DEF Told
  <2> QED BY <1>8, <1>9, <2>1, <2>3, <2>4
<1>18. ASSUME NEW d \in Clients, ClientActs(d) PROVE Bounded(c)'
  <2>1. Load(c)' <= Load(c) /\ UNCHANGED serverVars
    BY <1>18, ClientDoes, ClientLeaves
  <2>2. Told(c)' <=> Told(c)
    BY <2>1 DEF Told
  <2> QED BY <1>8, <1>9, <2>1, <2>2
<1> QED
  BY <1>10, <1>11, <1>12, <1>13, <1>14, <1>15, <1>16, <1>17, <1>18
     DEF Next, ServerStep, ClientActs

-----------------------------------------------------------------------------
(* The invariant, and what it says of every behaviour.                     *)

\* Before the first fork there is nothing on any connection.
LEMMA InitEstablishes == Init => IInv
<1> SUFFICES ASSUME Init PROVE IInv
  OBVIOUS
<1> USE DEF Init, ClientInit
<1>1. TypeOK
  <2>1. <<>> \in Seq(Messages) /\ <<>> \in Seq(Clients)
    BY EmptySeq
  <2>2. toSrv \in [Clients -> Seq(Messages)] /\ toCli \in [Clients -> Seq(Messages)]
    BY <2>1
  <2>3. ClientTypeOK
    BY <2>1, <2>2 DEF ClientTypeOK
  <2>4. /\ isWorking \in BOOLEAN /\ interrupted \in BOOLEAN
        /\ connectedFDs \in [Clients -> Clients \cup {NoClient}]
    OBVIOUS
  <2>5. idx \in Clients /\ retRecv \in Clients \cup {NoClient}
    OBVIOUS
  <2> QED BY <2>3, <2>4, <2>5 DEF TypeOK
<1>2. \A c \in Clients : toSrv[c] = <<>> /\ toCli[c] = <<>> /\ cpc[c] = "unborn"
  OBVIOUS
<1>3. Flags /\ Forking /\ PathThere
  BY DEF Flags, Forking, PathThere
<1>4. Arrivals
  BY DEF Arrivals, Arrived, Accepted
<1>5. Len(<<>>) = 0 /\ \A message : ~Has(<<>>, message)
  BY HeadHas, Lengths
<1>6. Fresh
  BY <1>2, <1>5 DEF Fresh, Before
<1>7. Alternation
  BY <1>2 DEF Alternation, Exchange
<1>8. ReportWaits /\ NoRepairYet
  BY <1>2, <1>5 DEF ReportWaits, NoRepairYet
<1>9. RepairExpected
  BY <1>2 DEF RepairExpected
<1>10. Loads
  <2> SUFFICES ASSUME NEW c \in Clients
               PROVE  Load(c) <= 1 /\ Load(c) \in Nat
    BY DEF Loads
  <2>1. Len(toSrv[c]) = 0 /\ Len(toCli[c]) = 0
    BY <1>1, <1>2, Lengths DEF TypeOK, ClientTypeOK
  <2>2. Owed(c) = 1
    BY <1>2 DEF Owed, Before
  <2> QED BY <2>1, <2>2 DEF Load
<1> QED BY <1>1, <1>3, <1>4, <1>6, <1>7, <1>8, <1>9, <1>10 DEF IInv

\* Every step of the monitor, of a client or of the operator keeps it.
LEMMA StepKeeps == IInv /\ [Next]_vars => IInv'
<1>1. ASSUME IInv, Next PROVE IInv'
  <2>1. TypeOK'
    BY <1>1, ServerTypes, ClientTypes DEF IInv, Next, ClientActs
  <2> QED
    BY <1>1, <2>1, FlagsKept, ForkingKept, ArrivalsKept, FreshKept, AlternationKept, ReportWaitsKept,
       NoRepairYetKept, PathThereKept, RepairKept, LoadsKept DEF IInv
<1>2. ASSUME IInv, UNCHANGED vars PROVE IInv'
  <2> USE <1>2 DEF vars, netVars, clientVars, serverVars, IInv
  <2>1. TypeOK' /\ Flags' /\ Forking'
    BY DEF TypeOK, ClientTypeOK, Flags, Forking
  <2>2. Arrivals' /\ Fresh'
    BY DEF Arrivals, Arrived, Accepted, Fresh, Unasked
  <2>3. Alternation' /\ ReportWaits' /\ NoRepairYet' /\ PathThere'
    BY DEF Alternation, Exchange, ReportWaits, NoRepairYet, PathThere, GaveUp, Arrived, Accepted
  <2>4. RepairExpected' /\ Loads'
    BY DEF RepairExpected, Loads, Load, Owed, Told
  <2> QED BY <2>1, <2>2, <2>3, <2>4
<1> QED BY <1>1, <1>2

\* The invariant holds at every moment, however many interfaces there are.
THEOREM Invariance == Spec => []IInv
BY InitEstablishes, StepKeeps, PTL DEF Spec

\* The state is one the programs can be in (netMonitor.cpp, intfMonitor.cpp).
THEOREM TypeCorrect == Spec => []TypeOK
<1>1. IInv => TypeOK
  BY DEF IInv
<1> QED BY <1>1, Invariance, PTL

\* No read of 255 bytes ever splits a message, for any number of interfaces:
\* each connection carries at most nine messages of at most twelve bytes
\* (netMonitor.cpp:72-77, intfMonitor.cpp:96-108).
THEOREM ReadsAreWhole == Spec => []StreamsFit
<1>1. IInv => StreamsFit
  <2> SUFFICES ASSUME IInv, NEW c \in Clients
               PROVE  12 * Len(toSrv[c]) <= 255 /\ 12 * Len(toCli[c]) <= 255
    BY DEF StreamsFit
  <2> DEFINE x == Len(toSrv[c])
             y == Len(toCli[c])
             e == Owed(c)
  <2>1. x \in Nat /\ y \in Nat /\ e \in Nat /\ Load(c) = x + y + y + e /\ Load(c) <= 9
    BY Lengths DEF IInv, TypeOK, ClientTypeOK, Owed, Load, Loads
  <2> HIDE DEF x, y, e
  <2>2. 12 * x <= 255 /\ 12 * y <= 255
    BY <2>1
  <2> QED BY <2>2 DEF x, y
<1> QED BY <1>1, Invariance, PTL

\* No command is lost behind another before SIGINT (netMonitor.cpp:170,
\* 185-187, intfMonitor.cpp:235).
THEOREM NoCommandLost == Spec => []CommandsSingle
<1>1. IInv => CommandsSingle
  <2> SUFFICES ASSUME IInv, isWorking, NEW c \in Clients PROVE Len(toCli[c]) <= 1
    BY DEF CommandsSingle
  <2>1. Len(toCli[c]) \in Nat /\ (toCli[c] = <<>> => Len(toCli[c]) = 0)
    BY Lengths DEF IInv, TypeOK, ClientTypeOK
  <2>2. toCli[c] = <<>> \/ Len(toCli[c]) = 1
    BY DEF IInv, Alternation, Exchange
  <2>3. CASE toCli[c] = <<>>
    BY <2>1, <2>3
  <2>4. CASE Len(toCli[c]) = 1
    BY <2>4
  <2> QED BY <2>2, <2>3, <2>4
<1> QED BY <1>1, Invariance, PTL

\* A link is set up only by a client that asked for it and waits
\* (netMonitor.cpp:184, intfMonitor.cpp:259-274).
THEOREM RepairsAreExpected == Spec => []RepairExpected
<1>1. IInv => RepairExpected
  BY DEF IInv
<1> QED BY <1>1, Invariance, PTL

\* While the server waits for a client its path is there, unless a client gave
\* up without a connection, and may have removed it (netMonitor.cpp:156-160,
\* intfMonitor.cpp:79-83, 122-138).
THEOREM PathStays == Spec => []PathWhileAccepting
<1>1. IInv => PathWhileAccepting
  BY DEF IInv, PathThere, PathWhileAccepting
<1> QED BY <1>1, Invariance, PTL
=============================================================================
