--------------------------- MODULE NodeLinkProofs ---------------------------
(***************************************************************************)
(* Type correctness of NodeLink, that nothing follows quit into a process, *)
(* that no process outlives the run, and that no node transmits before     *)
(* there is a router, for every set of nodes, every neighbourhood, all     *)
(* sizes of pipes and any number of floods.                                *)
(***************************************************************************)
EXTENDS NodeLink, TLAPS

USE NodeLinkAssumption

\* All lines of a pipe are of a kind.
Only(s, S) == \A i \in 1 .. Len(s) : s[i] \in S

\* A line "quit" is the last of a pipe.
QuitLast(s) == \A i \in 1 .. Len(s) : s[i] = "quit" => i = Len(s)

\* Nobody has written quit to a node before its _stopping flag is set, which is
\* not before its quit() has begun.
QuitComesLate ==
    \A n \in Node :
        /\ n \notin stopping => Only(stdin[n], Command \ {"quit"})
        /\ quitting[n] = "no" => n \notin stopping

QuitInv == (\A n \in Node : QuitLast(stdin[n])) /\ QuitComesLate

\* A quit() that has returned leaves a dead process, and there is no quit()
\* before all processes are started.
QuitKills ==
    /\ \A n \in Node : quitting[n] = "done" => proc[n] = "dead"
    /\ phase # "start" => \A n \in Node : proc[n] # "none"
    /\ phase = "done" => \A n \in Node : quitting[n] = "done"

\* Before the router is there, processes are told the time and to quit.
Idle(n) ==
    /\ due[n] = 0 /\ reader[n] # "gather" /\ unsent[n] = 0
    /\ Only(stdin[n], {"time", "quit"})
    /\ Only(stdout[n], Line \ {"tx"})
    /\ Only(owed[n], Line \ {"tx"})

SilentBefore == ~Wired => toAdvert = {} /\ \A n \in Node : Idle(n)

-----------------------------------------------------------------------------
(* Sequences                                                               *)

LEMMA OnlyAppend ==
    ASSUME NEW T, NEW s \in Seq(T), NEW x \in T, NEW S, Only(s, S), x \in S
    PROVE  Only(Append(s, x), S)
BY DEF Only

LEMMA OnlyTail ==
    ASSUME NEW T, NEW s \in Seq(T), s # << >>, NEW S, Only(s, S)
    PROVE  Only(Tail(s), S) /\ Head(s) \in S
BY DEF Only

LEMMA OnlyConcat ==
    ASSUME NEW T, NEW s \in Seq(T), NEW t \in Seq(T), NEW S, Only(s, S), Only(t, S)
    PROVE  Only(s \o t, S)
BY DEF Only

LEMMA OnlyEmpty == \A S : Only(<< >>, S)
BY DEF Only

LEMMA OnlyOne == ASSUME NEW S, NEW x \in S PROVE Only(<<x>>, S)
BY DEF Only

LEMMA LastTail ==
    ASSUME NEW T, NEW s \in Seq(T), s # << >>, QuitLast(s)
    PROVE  QuitLast(Tail(s))
BY DEF QuitLast

LEMMA LastAppend ==
    ASSUME NEW T, NEW s \in Seq(T), NEW x \in T, Only(s, T \ {"quit"})
    PROVE  QuitLast(Append(s, x))
BY DEF QuitLast, Only

LEMMA LastEmpty == QuitLast(<< >>) /\ QuitLast(<<"time">>)
BY DEF QuitLast

-----------------------------------------------------------------------------
(* The pipes keep their types                                              *)

LEMMA WriteType ==
    ASSUME TypeOK, NEW n \in Node, NEW c \in Command, Write(n, c)
    PROVE  stdin' \in [Node -> Seq(Command)] /\ paused' \in [Node -> BOOLEAN]
<1> DEFINE T == Command
<1>1. stdin \in [Node -> Seq(T)] /\ paused \in [Node -> BOOLEAN] /\ c \in T BY DEF TypeOK
<1>2. CASE UNCHANGED input BY <1>1, <1>2 DEF input
<1>3. CASE /\ stdin' = [stdin EXCEPT ![n] = Append(@, c)]
           /\ paused' = [paused EXCEPT ![n] = @ \/ Len(stdin[n]) >= HighWater]
  <2> HIDE DEF T
  <2>1. stdin' \in [Node -> Seq(T)] BY <1>1, <1>3
  <2>2. paused' \in [Node -> BOOLEAN] BY <1>1, <1>3
  <2> QED BY <2>1, <2>2 DEF T
<1> QED BY <1>2, <1>3 DEF Write

LEMMA TakeType ==
    ASSUME TypeOK, NEW n \in Node, stdin[n] # << >>, Take(n)
    PROVE  stdin' \in [Node -> Seq(Command)] /\ paused' \in [Node -> BOOLEAN]
<1> DEFINE T == Command
<1>1. stdin \in [Node -> Seq(T)] /\ paused \in [Node -> BOOLEAN] BY DEF TypeOK
<1> HIDE DEF T
<1>2. stdin' \in [Node -> Seq(T)] BY <1>1 DEF Take
<1>3. paused' \in [Node -> BOOLEAN] BY <1>1 DEF Take
<1> QED BY <1>2, <1>3 DEF T

\* What a process has written and not got rid of.
OutputOK ==
    /\ stdout \in [Node -> Seq(Line)] /\ owed \in [Node -> Seq(Line)]
    /\ \A n \in Node : Len(owed[n]) <= 1 /\ Len(stdout[n]) <= StdoutCap

LEMMA EmitType ==
    ASSUME TypeOK, NEW n \in Node, NEW l \in Line, Emit(n, l)
    PROVE  OutputOK'
<1> DEFINE T == Line
<1>1. /\ stdout \in [Node -> Seq(T)] /\ owed \in [Node -> Seq(T)] /\ l \in T
      /\ \A m \in Node : Len(owed[m]) <= 1 /\ Len(stdout[m]) <= StdoutCap
      BY DEF TypeOK
<1>2. /\ stdout' \in [Node -> Seq(T)] /\ owed' \in [Node -> Seq(T)]
      /\ \A m \in Node : Len(owed'[m]) <= 1 /\ Len(stdout'[m]) <= StdoutCap
  <2> HIDE DEF T
  <2>1. CASE Len(stdout[n]) < StdoutCap
    <3>1. stdout' = [stdout EXCEPT ![n] = Append(@, l)] /\ owed' = owed
          BY <2>1 DEF Emit
    <3>2. stdout' \in [Node -> Seq(T)] BY <1>1, <3>1
    <3>3. \A m \in Node : Len(stdout'[m]) <= StdoutCap
      <4> SUFFICES ASSUME NEW m \in Node PROVE Len(stdout'[m]) <= StdoutCap
          OBVIOUS
      <4>1. CASE m # n BY <1>1, <3>1, <4>1
      <4>2. CASE m = n
        <5>1. stdout'[n] = Append(stdout[n], l) BY <1>1, <3>1
        <5>2. stdout[n] \in Seq(T) BY <1>1
        <5>3. Len(stdout'[n]) = Len(stdout[n]) + 1 BY <1>1, <5>1, <5>2
        <5>4. Len(stdout[n]) \in Nat BY <5>2
        <5> QED BY <2>1, <4>2, <5>3, <5>4
      <4> QED BY <4>1, <4>2
    <3> QED BY <1>1, <3>1, <3>2, <3>3
  <2>2. CASE ~ (Len(stdout[n]) < StdoutCap)
    <3>1. owed' = [owed EXCEPT ![n] = <<l>>] /\ stdout' = stdout BY <2>2 DEF Emit
    <3>2. <<l>> \in Seq(T) /\ Len(<<l>>) = 1 BY <1>1
    <3>3. \A m \in Node : owed'[m] = IF m = n THEN <<l>> ELSE owed[m] BY <1>1, <3>1
    <3>4. owed' \in [Node -> Seq(T)] BY <1>1, <3>1, <3>2
    <3> QED BY <1>1, <3>1, <3>2, <3>3, <3>4
  <2> QED BY <2>1, <2>2
<1> QED BY <1>2 DEF OutputOK, T

\* A line is taken off the output.
LEMMA TakenType ==
    ASSUME TypeOK, NEW n \in Node, stdout[n] # << >>,
           stdout' = [stdout EXCEPT ![n] = Tail(@)], UNCHANGED owed
    PROVE  OutputOK'
<1> DEFINE T == Line
<1>1. /\ stdout \in [Node -> Seq(T)] /\ owed \in [Node -> Seq(T)]
      /\ \A m \in Node : Len(owed[m]) <= 1 /\ Len(stdout[m]) <= StdoutCap
      BY DEF TypeOK
<1>2. /\ stdout' \in [Node -> Seq(T)] /\ owed' \in [Node -> Seq(T)]
      /\ \A m \in Node : Len(owed'[m]) <= 1 /\ Len(stdout'[m]) <= StdoutCap
  <2> HIDE DEF T
  <2> QED BY <1>1
<1> QED BY <1>2 DEF OutputOK, T

\* The line a process owes goes out.
LEMMA UnblockType ==
    ASSUME TypeOK, NEW n \in Node, Unblock(n)
    PROVE  OutputOK'
<1> DEFINE T == Line
<1>1. /\ stdout \in [Node -> Seq(T)] /\ owed \in [Node -> Seq(T)]
      /\ \A m \in Node : Len(owed[m]) <= 1 /\ Len(stdout[m]) <= StdoutCap
      BY DEF TypeOK
<1>2. /\ Len(stdout[n]) < StdoutCap
      /\ stdout' = [stdout EXCEPT ![n] = @ \o owed[n]]
      /\ owed' = [owed EXCEPT ![n] = << >>]
      BY DEF Unblock
<1>3. /\ stdout' \in [Node -> Seq(T)] /\ owed' \in [Node -> Seq(T)]
      /\ \A m \in Node : Len(owed'[m]) <= 1 /\ Len(stdout'[m]) <= StdoutCap
  <2> HIDE DEF T
  <2>1. stdout' \in [Node -> Seq(T)] /\ owed' \in [Node -> Seq(T)] BY <1>1, <1>2
  <2>2. Len(stdout'[n]) <= StdoutCap
    <3>1. stdout'[n] = stdout[n] \o owed[n] BY <1>1, <1>2
    <3>2. stdout[n] \in Seq(T) /\ owed[n] \in Seq(T) BY <1>1
    <3>3. Len(stdout'[n]) = Len(stdout[n]) + Len(owed[n]) BY <3>1, <3>2
    <3>4. Len(stdout[n]) \in Nat /\ Len(owed[n]) \in Nat BY <3>2
    <3> QED BY <1>1, <1>2, <3>3, <3>4
  <2>3. \A m \in Node : m # n => stdout'[m] = stdout[m] /\ owed'[m] = owed[m]
        BY <1>1, <1>2
  <2>4. Len(owed'[n]) <= 1 BY <1>1, <1>2
  <2> QED BY <1>1, <2>1, <2>2, <2>3, <2>4
<1> QED BY <1>3 DEF OutputOK, T

LEMMA DieType ==
    ASSUME TypeOK, NEW n \in Node, Die(n)
    PROVE  /\ proc' \in [Node -> {"none", "boot", "up", "dead"}]
           /\ stdin' \in [Node -> Seq(Command)] /\ paused' \in [Node -> BOOLEAN]
           /\ unsent' \in [Node -> Nat]
           /\ OutputOK'
<1> DEFINE T == Line
           C == Command
<1>1. /\ stdout \in [Node -> Seq(T)] /\ owed \in [Node -> Seq(T)]
      /\ stdin \in [Node -> Seq(C)]
      /\ \A m \in Node : Len(owed[m]) <= 1 /\ Len(stdout[m]) <= StdoutCap
      BY DEF TypeOK
<1>2. /\ stdout' \in [Node -> Seq(T)] /\ owed' \in [Node -> Seq(T)]
      /\ stdin' \in [Node -> Seq(C)]
      /\ \A m \in Node : Len(owed'[m]) <= 1 /\ Len(stdout'[m]) <= StdoutCap
  <2> HIDE DEF T, C
  <2> QED BY <1>1 DEF Die
<1>3. /\ proc' \in [Node -> {"none", "boot", "up", "dead"}]
      /\ paused' \in [Node -> BOOLEAN] /\ unsent' \in [Node -> Nat]
      BY DEF Die, TypeOK
<1> QED BY <1>2, <1>3 DEF OutputOK, T, C

-----------------------------------------------------------------------------
(* Type correctness, action by action                                      *)

LEMMA InitType == Init => TypeOK
<1> SUFFICES ASSUME Init PROVE TypeOK OBVIOUS
<1>1. stdin \in [Node -> Seq(Command)] /\ stdout \in [Node -> Seq(Line)]
      /\ owed \in [Node -> Seq(Line)]
      /\ \A n \in Node : Len(owed[n]) <= 1 /\ Len(stdout[n]) <= StdoutCap
      BY DEF Init
<1> QED BY <1>1 DEF Init, TypeOK, Phase

LEMMA ProcessType ==
    ASSUME TypeOK, NEW n \in Node, ProcessStep(n) \/ Crash(n)
    PROVE  TypeOK'
<1> USE DEF driver, input, readers, quits
<1>1. CASE Boot(n)
  <2>1. OutputOK' BY <1>1, EmitType DEF Boot, Line
  <2> QED BY <1>1, <2>1 DEF Boot, TypeOK, OutputOK
<1>2. CASE Dispatch(n)
  <2>1. stdin[n] # << >> /\ Take(n) BY <1>2 DEF Dispatch
  <2>2. stdin' \in [Node -> Seq(Command)] /\ paused' \in [Node -> BOOLEAN]
        BY <2>1, TakeType
  <2>3. CASE UNCHANGED <<stdout, owed>>
    <3>1. unsent' \in [Node -> Nat] /\ extra' \in 0 .. MaxExtra
      <4>1. /\ unsent' \in {unsent, [unsent EXCEPT ![n] = @ + 1]}
            /\ extra' = extra \/ (extra < MaxExtra /\ extra' = extra + 1)
            BY <1>2 DEF Dispatch
      <4>2. unsent \in [Node -> Nat] /\ extra \in 0 .. MaxExtra BY DEF TypeOK
      <4>3. unsent' \in [Node -> Nat] BY <4>1, <4>2
      <4>4. extra' \in 0 .. MaxExtra BY <4>1, <4>2
      <4> QED BY <4>3, <4>4
    <3> QED BY <1>2, <2>2, <2>3, <3>1 DEF Dispatch, TypeOK
  <2>4. CASE Emit(n, "event") /\ UNCHANGED <<unsent, extra>>
    <3>1. OutputOK' BY <2>4, EmitType DEF Line
    <3> QED BY <1>2, <2>2, <2>4, <3>1 DEF Dispatch, TypeOK, OutputOK
  <2> QED BY <1>2, <2>3, <2>4 DEF Dispatch
<1>3. CASE Exit(n)
  <2>1. Die(n) BY <1>3 DEF Exit
  <2> QED BY <1>3, <2>1, DieType DEF Exit, TypeOK, OutputOK
<1>4. CASE Transmit(n)
  <2>1. OutputOK' BY <1>4, EmitType DEF Transmit, Line
  <2>2. unsent' \in [Node -> Nat] BY <1>4 DEF Transmit, TypeOK
  <2> QED BY <1>4, <2>1, <2>2 DEF Transmit, TypeOK, OutputOK
<1>5. CASE Unblock(n)
  <2>1. OutputOK' BY <1>5, UnblockType
  <2> QED BY <1>5, <2>1 DEF Unblock, TypeOK, OutputOK
<1>6. CASE Crash(n)
  <2>1. Die(n) /\ extra' \in 0 .. MaxExtra BY <1>6 DEF Crash, TypeOK
  <2> QED BY <1>6, <2>1, DieType DEF Crash, TypeOK, OutputOK
<1> QED BY <1>1, <1>2, <1>3, <1>4, <1>5, <1>6 DEF ProcessStep

LEMMA ReaderType ==
    ASSUME TypeOK, NEW n \in Node, ReaderStep(n) \/ ReaderEnds(n) \/ Deliver(n)
    PROVE  TypeOK'
<1> USE DEF driver, process, input, quits
<1>1. CASE Read(n)
  <2>1. OutputOK' BY <1>1, TakenType DEF Read
  <2>2. ready' \subseteq Node /\ toTell' \in [Node -> SUBSET Node]
        /\ reader' \in [Node -> {"off", "read", "gather", "over"}]
    <3>1. /\ ready' \in {ready, ready \cup {n}}
          /\ toTell' \in {toTell, [toTell EXCEPT ![n] = Neighbours[n]]}
          /\ reader' \in {reader, [reader EXCEPT ![n] = "gather"]}
          BY <1>1 DEF Read
    <3>2. /\ ready \subseteq Node /\ toTell \in [Node -> SUBSET Node]
          /\ reader \in [Node -> {"off", "read", "gather", "over"}]
          BY DEF TypeOK
    <3>3. ready' \subseteq Node BY <3>1, <3>2
    <3>4. toTell' \in [Node -> SUBSET Node] BY <3>1, <3>2
    <3>5. reader' \in [Node -> {"off", "read", "gather", "over"}] BY <3>1, <3>2
    <3> QED BY <3>3, <3>4, <3>5
  <2>3. UNCHANGED <<driver, input, quits, telling, due, proc, unsent, extra>>
        BY <1>1 DEF Read
  <2> QED BY <2>1, <2>2, <2>3 DEF TypeOK, OutputOK
<1>2. CASE Gathered(n)
  <2>1. due' \in [Node -> Nat] BY <1>2 DEF Gathered, TypeOK
  <2> QED BY <1>2, <2>1 DEF Gathered, TypeOK
<1>3. ASSUME NEW m \in Node, Tell(n, m) PROVE TypeOK'
  <2>1. stdin' \in [Node -> Seq(Command)] /\ paused' \in [Node -> BOOLEAN]
        BY <1>3, WriteType DEF Tell, Command
  <2> QED BY <1>3, <2>1 DEF Tell, TypeOK
<1>4. ASSUME NEW m \in Node, Told(n, m) PROVE TypeOK'
      BY <1>4 DEF Told, TypeOK
<1>5. CASE ReaderEnds(n)
  <2>1. OutputOK'
    <3>1. CASE UNCHANGED stdout BY <1>5, <3>1 DEF ReaderEnds, TypeOK, OutputOK
    <3>2. CASE stdout[n] # << >> /\ stdout' = [stdout EXCEPT ![n] = Tail(@)]
          BY <1>5, <3>2, TakenType DEF ReaderEnds
    <3> QED BY <1>5, <3>1, <3>2 DEF ReaderEnds
  <2> QED BY <1>5, <2>1 DEF ReaderEnds, TypeOK, OutputOK
<1>6. CASE Deliver(n)
  <2>1. due' \in [Node -> Nat] BY <1>6 DEF Deliver, TypeOK
  <2>2. stdin' \in [Node -> Seq(Command)] /\ paused' \in [Node -> BOOLEAN]
        BY <1>6, WriteType DEF Deliver, Command, TypeOK
  <2> QED BY <1>6, <2>1, <2>2 DEF Deliver, TypeOK
<1> QED BY <1>1, <1>2, <1>3, <1>4, <1>5, <1>6 DEF ReaderStep

LEMMA DriverType ==
    ASSUME TypeOK, DriverStep
    PROVE  TypeOK'
<1> USE DEF driver, process, input, readers, quits, Phase
<1>1. ASSUME NEW n \in Node, Start(n) PROVE TypeOK'
  <2>1. <<"time">> \in Seq(Command) BY DEF Command
  <2>2. stdin' \in [Node -> Seq(Command)] BY <1>1, <2>1 DEF Start, TypeOK
  <2> QED BY <1>1, <2>2 DEF Start, TypeOK
<1>2. CASE AllStarted BY <1>2 DEF AllStarted, TypeOK
<1>3. CASE AllReady BY <1>3 DEF AllReady, TypeOK
<1>4. CASE ReadyTimeout BY <1>4 DEF ReadyTimeout, TypeOK
<1>5. CASE Flood BY <1>5 DEF Flood, TypeOK
<1>6. ASSUME NEW n \in Node, Advert(n) PROVE TypeOK'
  <2>1. stdin' \in [Node -> Seq(Command)] /\ paused' \in [Node -> BOOLEAN]
        BY <1>6, WriteType DEF Advert, Command
  <2> QED BY <1>6, <2>1 DEF Advert, TypeOK
<1>7. ASSUME NEW n \in Node, Adverted(n) PROVE TypeOK' BY <1>7 DEF Adverted, TypeOK
<1>8. CASE Begin BY <1>8 DEF Begin, TypeOK
<1>9. CASE TimerFires BY <1>9 DEF TimerFires, TypeOK
<1>10. CASE Return BY <1>10 DEF Return, TypeOK
<1> QED BY <1>1, <1>2, <1>3, <1>4, <1>5, <1>6, <1>7, <1>8, <1>9, <1>10 DEF DriverStep

LEMMA QuitType ==
    ASSUME TypeOK, NEW n \in Node, QuitStep(n)
    PROVE  TypeOK'
<1> USE DEF driver, process, input, readers
<1>1. CASE Quit(n)
  <2>1. stdin' \in [Node -> Seq(Command)] /\ paused' \in [Node -> BOOLEAN]
        BY <1>1, WriteType DEF Quit, Command, TypeOK
  <2>2. quitting' \in [Node -> {"no", "drain", "wait", "done"}] /\ stopping' \subseteq Node
        BY <1>1 DEF Quit, TypeOK
  <2> QED BY <1>1, <2>1, <2>2 DEF Quit, TypeOK
<1>2. CASE QuitDrained(n) BY <1>2 DEF QuitDrained, TypeOK
<1>3. CASE Exited(n) BY <1>3 DEF Exited, TypeOK
<1>4. CASE Kill(n)
  <2>1. Die(n) BY <1>4 DEF Kill
  <2>2. quitting' \in [Node -> {"no", "drain", "wait", "done"}] BY <1>4 DEF Kill, TypeOK
  <2> QED BY <1>4, <2>1, <2>2, DieType DEF Kill, TypeOK, OutputOK
<1> QED BY <1>1, <1>2, <1>3, <1>4 DEF QuitStep

LEMMA NextType == TypeOK /\ [Next]_vars => TypeOK'
<1> SUFFICES ASSUME TypeOK, [Next]_vars PROVE TypeOK' OBVIOUS
<1>1. CASE UNCHANGED vars
      BY <1>1 DEF vars, driver, process, input, readers, quits, TypeOK
<1>2. CASE DriverStep BY <1>2, DriverType
<1>3. ASSUME NEW n \in Node, ProcessStep(n) \/ Crash(n) PROVE TypeOK' BY <1>3, ProcessType
<1>4. ASSUME NEW n \in Node, ReaderStep(n) \/ ReaderEnds(n) \/ Deliver(n) PROVE TypeOK'
      BY <1>4, ReaderType
<1>5. ASSUME NEW n \in Node, QuitStep(n) PROVE TypeOK' BY <1>5, QuitType
<1> QED BY <1>1, <1>2, <1>3, <1>4, <1>5 DEF Next

\* Every variable keeps its type; no pipe holds more than it can, and no process
\* owes more than the one line it is blocked writing (node.py, main.cpp).
THEOREM NodeLinkTypeOK == Spec => []TypeOK
BY InitType, NextType, PTL DEF Spec

-----------------------------------------------------------------------------
(* Nothing after quit                                                      *)

\* What one pipe becomes decides, if no quit() is taken back.
LEMMA OneInput ==
    ASSUME TypeOK, QuitInv, NEW n \in Node, NEW s,
           stdin' = [stdin EXCEPT ![n] = s],
           QuitLast(s),
           n \notin stopping' => Only(s, Command \ {"quit"}),
           \A m \in Node : m # n => (m \in stopping' <=> m \in stopping),
           \A m \in Node : quitting'[m] = "no" => m \notin stopping'
    PROVE  QuitInv'
<1>1. stdin'[n] = s /\ \A m \in Node : m # n => stdin'[m] = stdin[m] BY DEF TypeOK
<1>2. \A m \in Node : QuitLast(stdin'[m]) BY <1>1 DEF QuitInv
<1>3. \A m \in Node : m \notin stopping' => Only(stdin'[m], Command \ {"quit"})
      BY <1>1 DEF QuitInv, QuitComesLate
<1> QED BY <1>2, <1>3 DEF QuitInv, QuitComesLate

LEMMA SameInput ==
    ASSUME QuitInv, UNCHANGED <<stdin, quits>>
    PROVE  QuitInv'
BY DEF QuitInv, QuitComesLate, quits

LEMMA WriteQuiet ==
    ASSUME TypeOK, QuitInv, NEW n \in Node, NEW c \in Command \ {"quit"},
           Write(n, c), UNCHANGED quits
    PROVE  QuitInv'
<1>1. CASE UNCHANGED input BY <1>1, SameInput DEF input
<1>2. CASE n \notin stopping /\ stdin' = [stdin EXCEPT ![n] = Append(@, c)]
  <2> DEFINE C == Command
  <2>1. stdin[n] \in Seq(C) /\ c \in C BY DEF TypeOK
  <2>2. Only(stdin[n], C \ {"quit"}) BY <1>2 DEF QuitInv, QuitComesLate
  <2> HIDE DEF C
  <2>3. QuitLast(Append(stdin[n], c)) BY <2>1, <2>2, LastAppend
  <2>4. c \in C \ {"quit"} BY <2>1
  <2>5. Only(Append(stdin[n], c), C \ {"quit"}) BY <2>1, <2>2, <2>4, OnlyAppend
  <2>6. \A m \in Node : quitting'[m] = "no" => m \notin stopping'
        BY DEF QuitInv, QuitComesLate, quits
  <2>7. stopping' = stopping BY DEF quits
  <2>8. stdin' = [stdin EXCEPT ![n] = Append(stdin[n], c)] BY <1>2
  <2> QED BY <2>3, <2>5, <2>6, <2>7, <2>8, OneInput DEF C
<1> QED BY <1>1, <1>2 DEF Write

LEMMA TakeQuiet ==
    ASSUME TypeOK, QuitInv, NEW n \in Node, stdin[n] # << >>, Take(n), UNCHANGED quits
    PROVE  QuitInv'
<1> DEFINE C == Command
<1>1. stdin[n] \in Seq(C) BY DEF TypeOK
<1>2. QuitLast(stdin[n]) BY DEF QuitInv
<1>3. n \notin stopping => Only(stdin[n], C \ {"quit"}) BY DEF QuitInv, QuitComesLate
<1>4. stopping' = stopping BY DEF quits
<1>5. \A m \in Node : quitting'[m] = "no" => m \notin stopping'
      BY DEF QuitInv, QuitComesLate, quits
<1>6. stdin' = [stdin EXCEPT ![n] = Tail(stdin[n])] BY DEF Take
<1> HIDE DEF C
<1>7. QuitLast(Tail(stdin[n])) BY <1>1, <1>2, LastTail
<1>8. n \notin stopping' => Only(Tail(stdin[n]), C \ {"quit"})
      BY <1>1, <1>3, <1>4, OnlyTail
<1> QED BY <1>4, <1>5, <1>6, <1>7, <1>8, OneInput DEF C

LEMMA DieQuiet ==
    ASSUME TypeOK, QuitInv, NEW n \in Node, Die(n), UNCHANGED stopping,
           \A m \in Node : quitting'[m] = "no" => quitting[m] = "no"
    PROVE  QuitInv'
<1>1. stdin' = [stdin EXCEPT ![n] = << >>] BY DEF Die
<1>2. \A m \in Node : quitting'[m] = "no" => m \notin stopping'
      BY DEF QuitInv, QuitComesLate
<1> QED BY <1>1, <1>2, LastEmpty, OnlyEmpty, OneInput

LEMMA QuitQuiet ==
    ASSUME TypeOK, QuitInv, NEW n \in Node, Quit(n)
    PROVE  QuitInv'
<1>1. quitting[n] = "no" /\ n \notin stopping BY DEF Quit, QuitInv, QuitComesLate
<1>2. \A m \in Node : m # n => quitting'[m] = quitting[m] BY DEF Quit, TypeOK
<1>3. quitting'[n] # "no" BY DEF Quit, TypeOK
<1>4. CASE UNCHANGED <<stopping, input>>
      BY <1>2, <1>3, <1>4 DEF QuitInv, QuitComesLate, input
<1>5. CASE stopping' = stopping \cup {n} /\ Write(n, "quit")
  <2>1. \A m \in Node : quitting'[m] = "no" => m \notin stopping'
        BY <1>2, <1>3, <1>5 DEF QuitInv, QuitComesLate
  <2>2. CASE UNCHANGED input
        BY <1>5, <2>1, <2>2 DEF QuitInv, QuitComesLate, input
  <2>3. CASE stdin' = [stdin EXCEPT ![n] = Append(@, "quit")]
    <3> DEFINE C == Command
    <3>1. stdin[n] \in Seq(C) /\ "quit" \in C BY DEF TypeOK, Command
    <3>2. Only(stdin[n], C \ {"quit"}) BY <1>1 DEF QuitInv, QuitComesLate
    <3> HIDE DEF C
    <3>3. QuitLast(Append(stdin[n], "quit")) BY <3>1, <3>2, LastAppend
    <3>4. stdin' = [stdin EXCEPT ![n] = Append(stdin[n], "quit")] BY <2>3
    <3> QED BY <1>5, <2>1, <3>3, <3>4, OneInput
  <2> QED BY <1>5, <2>2, <2>3 DEF Write
<1> QED BY <1>4, <1>5 DEF Quit

LEMMA QuitStarts == Init => QuitInv
<1> SUFFICES ASSUME Init PROVE QuitInv OBVIOUS
<1>1. \A n \in Node : stdin[n] = << >> BY DEF Init
<1> QED BY <1>1, LastEmpty, OnlyEmpty DEF Init, QuitInv, QuitComesLate

LEMMA QuitKept == TypeOK /\ QuitInv /\ [Next]_vars => QuitInv'
<1> SUFFICES ASSUME TypeOK, QuitInv, [Next]_vars PROVE QuitInv' OBVIOUS
<1>1. CASE UNCHANGED <<stdin, quits>> BY <1>1, SameInput
<1>2. ASSUME NEW n \in Node, ProcessStep(n) \/ Crash(n) PROVE QuitInv'
  <2>1. CASE Boot(n) \/ Transmit(n) \/ Unblock(n)
        BY <2>1, SameInput DEF Boot, Transmit, Unblock, input
  <2>2. CASE Dispatch(n) BY <2>2, TakeQuiet DEF Dispatch
  <2>3. CASE Exit(n) \/ Crash(n) BY <2>3, DieQuiet DEF Exit, Crash, quits
  <2> QED BY <1>2, <2>1, <2>2, <2>3 DEF ProcessStep
<1>3. ASSUME NEW n \in Node, NEW m \in Node, Tell(n, m) PROVE QuitInv'
      BY <1>3, WriteQuiet DEF Tell, Command
<1>4. ASSUME NEW n \in Node, Deliver(n) PROVE QuitInv'
  <2>1. CASE Write(n, "rx") BY <1>4, <2>1, WriteQuiet DEF Deliver, Command
  <2>2. CASE UNCHANGED input BY <1>4, <2>2, SameInput DEF Deliver, input
  <2> QED BY <1>4, <2>1, <2>2 DEF Deliver
<1>5. ASSUME NEW n \in Node, Advert(n) PROVE QuitInv'
      BY <1>5, WriteQuiet DEF Advert, Command
<1>6. ASSUME NEW n \in Node, Start(n) PROVE QuitInv'
  <2>1. Only(<<"time">>, Command \ {"quit"}) BY OnlyOne DEF Command
  <2>2. stdin' = [stdin EXCEPT ![n] = <<"time">>] /\ UNCHANGED quits BY <1>6 DEF Start
  <2>3. stopping' = stopping /\ quitting' = quitting BY <2>2 DEF quits
  <2>4. \A m \in Node : quitting'[m] = "no" => m \notin stopping'
        BY <2>3 DEF QuitInv, QuitComesLate
  <2> QED BY <2>1, <2>2, <2>3, <2>4, LastEmpty, OneInput
<1>7. ASSUME NEW n \in Node, Quit(n) PROVE QuitInv' BY <1>7, QuitQuiet
<1>8. ASSUME NEW n \in Node, QuitDrained(n) \/ Exited(n) PROVE QuitInv'
  <2>1. UNCHANGED <<stdin, stopping>> BY <1>8 DEF QuitDrained, Exited, input
  <2>2. \A m \in Node : quitting'[m] = "no" => quitting[m] = "no"
        BY <1>8 DEF QuitDrained, Exited, TypeOK
  <2> QED BY <2>1, <2>2 DEF QuitInv, QuitComesLate
<1>9. ASSUME NEW n \in Node, Kill(n) PROVE QuitInv'
  <2>1. \A m \in Node : quitting'[m] = "no" => quitting[m] = "no" BY <1>9 DEF Kill, TypeOK
  <2> QED BY <1>9, <2>1, DieQuiet DEF Kill
<1>10. ASSUME NEW n \in Node,
              Read(n) \/ Gathered(n) \/ ReaderEnds(n) \/ \E m \in Node : Told(n, m)
       PROVE  QuitInv'
       BY <1>10, SameInput DEF Read, Gathered, ReaderEnds, Told, input
<1>11. CASE AllStarted \/ AllReady \/ ReadyTimeout \/ Flood \/ Begin \/ TimerFires \/ Return
       BY <1>11, SameInput DEF AllStarted, AllReady, ReadyTimeout, Flood, Begin, TimerFires,
          Return, input
<1>12. ASSUME NEW n \in Node, Adverted(n) PROVE QuitInv' BY <1>12, SameInput DEF Adverted, input
<1>13. CASE UNCHANGED vars BY <1>13, SameInput DEF vars, input
<1> QED BY <1>2, <1>3, <1>4, <1>5, <1>6, <1>7, <1>8, <1>9, <1>10, <1>11, <1>12, <1>13
       DEF Next, DriverStep, ReaderStep, QuitStep

\* No command follows quit into a process's input, whatever is under way when
\* quit() begins (node.py, _stopping and quit).
THEOREM QuitIsLast == Spec => []NothingAfterQuit
<1>1. QuitInv => NothingAfterQuit BY DEF QuitInv, QuitLast, NothingAfterQuit
<1> QED BY <1>1, InitType, NextType, QuitStarts, QuitKept, PTL DEF Spec

-----------------------------------------------------------------------------
(* No orphans                                                              *)

\* A step that keeps the phase, in which no process appears, none comes back,
\* and no quit() returns unless its process is dead.
LEMMA StillKills ==
    ASSUME QuitKills, phase' = phase,
           \A n \in Node : proc[n] # "none" => proc'[n] # "none",
           \A n \in Node : proc[n] = "dead" => proc'[n] = "dead",
           \A n \in Node : quitting[n] = "done" => quitting'[n] = "done",
           \A n \in Node : quitting'[n] = "done" =>
                quitting[n] = "done" \/ proc'[n] = "dead"
    PROVE  QuitKills'
BY DEF QuitKills

LEMMA DieKills ==
    ASSUME TypeOK, NEW n \in Node, Die(n)
    PROVE  /\ proc'[n] = "dead"
           /\ \A m \in Node : m # n => proc'[m] = proc[m]
BY DEF Die, TypeOK

LEMMA KillsKept == TypeOK /\ QuitKills /\ [Next]_vars => QuitKills'
<1> SUFFICES ASSUME TypeOK, QuitKills, [Next]_vars PROVE QuitKills' OBVIOUS
<1>1. CASE UNCHANGED <<phase, proc, quits>> BY <1>1, StillKills DEF quits
<1>2. ASSUME NEW n \in Node, ProcessStep(n) \/ Crash(n) PROVE QuitKills'
  <2>1. UNCHANGED <<phase, quitting>>
        BY <1>2 DEF ProcessStep, Boot, Dispatch, Exit, Transmit, Unblock, Crash, driver, quits
  <2>2. CASE Boot(n)
    <3>1. proc[n] = "boot" /\ proc' = [proc EXCEPT ![n] = "up"] BY <2>2 DEF Boot
    <3>2. \A m \in Node : proc'[m] = IF m = n THEN "up" ELSE proc[m]
          BY <3>1 DEF TypeOK
    <3> QED BY <2>1, <3>1, <3>2, StillKills
  <2>3. CASE Exit(n) \/ Crash(n)
    <3>1. Die(n) BY <2>3 DEF Exit, Crash
    <3> QED BY <2>1, <3>1, DieKills, StillKills
  <2>4. CASE UNCHANGED proc BY <2>1, <2>4, StillKills
  <2> QED BY <1>2, <2>2, <2>3, <2>4 DEF ProcessStep, Dispatch, Transmit, Unblock
<1>3. ASSUME NEW n \in Node, ReaderStep(n) \/ ReaderEnds(n) \/ Deliver(n) PROVE QuitKills'
  <2>1. UNCHANGED <<phase, proc, quitting>>
        BY <1>3 DEF ReaderStep, Read, Tell, Told, Gathered, ReaderEnds, Deliver, driver, process,
           quits
  <2> QED BY <2>1, StillKills
<1>4. ASSUME NEW n \in Node, Start(n) PROVE QuitKills'
  <2>1. UNCHANGED <<phase, quitting>> /\ proc[n] = "none"
        /\ proc' = [proc EXCEPT ![n] = "boot"]
        BY <1>4 DEF Start, driver, quits
  <2>2. \A m \in Node : proc'[m] = IF m = n THEN "boot" ELSE proc[m] BY <2>1 DEF TypeOK
  <2> QED BY <2>1, <2>2, StillKills
<1>5. CASE AllStarted BY <1>5 DEF AllStarted, QuitKills, process, quits
<1>6. CASE AllReady \/ ReadyTimeout \/ Begin \/ TimerFires
      BY <1>6 DEF AllReady, ReadyTimeout, Begin, TimerFires, QuitKills, process, quits
<1>7. ASSUME NEW n \in Node, Advert(n) \/ Adverted(n) \/ Flood PROVE QuitKills'
  <2>1. UNCHANGED <<phase, proc, quitting>>
        BY <1>7 DEF Advert, Adverted, Flood, process, quits
  <2> QED BY <2>1, StillKills
<1>8. CASE Flood
  <2>1. UNCHANGED <<phase, proc, quitting>> BY <1>8 DEF Flood, process, quits
  <2> QED BY <2>1, StillKills
<1>9. CASE Return
  <2>1. /\ phase # "start" /\ UNCHANGED <<proc, quitting>>
        /\ \A n \in Node : quitting[n] = "done"
        BY <1>9 DEF Return, process, quits
  <2> QED BY <2>1 DEF QuitKills
<1>10. ASSUME NEW n \in Node, QuitStep(n) PROVE QuitKills'
  <2>1. CASE Quit(n)
    <3>1. UNCHANGED <<phase, proc>> /\ phase # "start" /\ quitting[n] = "no"
          BY <2>1 DEF Quit, driver, process
    <3>2. \A m \in Node : m # n => quitting'[m] = quitting[m] BY <2>1 DEF Quit, TypeOK
    <3>3. quitting'[n] = "done" => ~ Alive(n) BY <2>1 DEF Quit, TypeOK
    <3>4. ~ Alive(n) => proc[n] = "dead" BY <3>1 DEF Alive, QuitKills, TypeOK
    <3> QED BY <3>1, <3>2, <3>3, <3>4, StillKills
  <2>2. CASE QuitDrained(n)
    <3>1. UNCHANGED <<phase, proc>> /\ quitting[n] = "drain"
          /\ quitting' = [quitting EXCEPT ![n] = "wait"]
          BY <2>2 DEF QuitDrained, driver, process
    <3>2. \A m \in Node : quitting'[m] = IF m = n THEN "wait" ELSE quitting[m]
          BY <3>1 DEF TypeOK
    <3> QED BY <3>1, <3>2, StillKills
  <2>3. CASE Exited(n)
    <3>1. UNCHANGED <<phase, proc>> /\ proc[n] = "dead"
          /\ quitting' = [quitting EXCEPT ![n] = "done"]
          BY <2>3 DEF Exited, driver, process
    <3>2. \A m \in Node : quitting'[m] = IF m = n THEN "done" ELSE quitting[m]
          BY <3>1 DEF TypeOK
    <3> QED BY <3>1, <3>2, StillKills
  <2>4. CASE Kill(n)
    <3>1. phase' = phase /\ Die(n) /\ quitting' = [quitting EXCEPT ![n] = "done"]
          BY <2>4 DEF Kill, driver
    <3>2. \A m \in Node : quitting'[m] = IF m = n THEN "done" ELSE quitting[m]
          BY <3>1 DEF TypeOK
    <3> QED BY <3>1, <3>2, DieKills, StillKills
  <2> QED BY <1>10, <2>1, <2>2, <2>3, <2>4 DEF QuitStep
<1>11. CASE UNCHANGED vars BY <1>11, StillKills DEF vars, driver, process, quits
<1> QED BY <1>2, <1>3, <1>4, <1>5, <1>6, <1>7, <1>8, <1>9, <1>10, <1>11 DEF Next, DriverStep

\* When run() has returned, after the simulation or because a node was not ready
\* in time, every process it started is dead (__main__.py, run; node.py, quit).
THEOREM NoneLeft == Spec => []NoOrphans
<1>1. Init => QuitKills BY DEF Init, QuitKills
<1>2. QuitKills => NoOrphans BY DEF QuitKills, NoOrphans
<1> QED BY <1>1, <1>2, InitType, NextType, KillsKept, PTL DEF Spec

-----------------------------------------------------------------------------
(* Nothing is transmitted before the router is there                       *)

\* A step that changes only what concerns one node, which stays idle.
LEMMA OneIdle ==
    ASSUME TypeOK, SilentBefore, NEW n \in Node, phase' = phase, toAdvert' = toAdvert,
           ~Wired => Idle(n)',
           \A m \in Node : m # n =>
              /\ due'[m] = due[m] /\ reader'[m] = reader[m] /\ unsent'[m] = unsent[m]
              /\ stdin'[m] = stdin[m] /\ stdout'[m] = stdout[m] /\ owed'[m] = owed[m]
    PROVE  SilentBefore'
<1> SUFFICES ASSUME ~Wired PROVE toAdvert' = {} /\ \A m \in Node : Idle(m)'
    BY DEF SilentBefore, Wired
<1>1. toAdvert = {} /\ \A m \in Node : Idle(m) BY DEF SilentBefore
<1>2. ASSUME NEW m \in Node, m # n PROVE Idle(m)' BY <1>1, <1>2 DEF Idle
<1> QED BY <1>1, <1>2

LEMMA StillSilent ==
    ASSUME SilentBefore, UNCHANGED <<stdin, stdout, owed, unsent, reader, due>>,
           ~Wired' => ~Wired /\ toAdvert' = toAdvert
    PROVE  SilentBefore'
BY DEF SilentBefore, Idle

\* The processes: nothing they are told makes them transmit.
LEMMA ProcessSilent ==
    ASSUME TypeOK, SilentBefore, NEW n \in Node, ProcessStep(n) \/ Crash(n)
    PROVE  SilentBefore'
<1>1. UNCHANGED <<phase, toAdvert, reader, due>>
      BY DEF ProcessStep, Boot, Dispatch, Exit, Transmit, Unblock, Crash, driver, readers
<1>2. \A m \in Node : m # n =>
         /\ unsent'[m] = unsent[m] /\ stdin'[m] = stdin[m]
         /\ stdout'[m] = stdout[m] /\ owed'[m] = owed[m]
  <2>1. CASE Boot(n) BY <2>1 DEF Boot, Emit, input, TypeOK
  <2>2. CASE Dispatch(n) BY <2>2 DEF Dispatch, Emit, Take, TypeOK
  <2>3. CASE Exit(n) \/ Crash(n) BY <2>3 DEF Exit, Crash, Die, TypeOK
  <2>4. CASE Transmit(n) BY <2>4 DEF Transmit, Emit, input, TypeOK
  <2>5. CASE Unblock(n) BY <2>5 DEF Unblock, input, TypeOK
  <2> QED BY <2>1, <2>2, <2>3, <2>4, <2>5 DEF ProcessStep
<1> SUFFICES ASSUME ~Wired PROVE Idle(n)' BY <1>1, <1>2, OneIdle
<1>3. Idle(n) BY DEF SilentBefore
<1> DEFINE L == Line
           C == Command
<1>4. stdout[n] \in Seq(L) /\ owed[n] \in Seq(L) /\ stdin[n] \in Seq(C) BY DEF TypeOK
<1>5. due'[n] = 0 /\ reader'[n] # "gather" BY <1>1, <1>3 DEF Idle
<1>6. CASE Boot(n)
  <2>1. "ready" \in L /\ "ready" \in L \ {"tx"} BY DEF Line
  <2>2. stdout'[n] \in {stdout[n], Append(stdout[n], "ready")}
        /\ owed'[n] \in {owed[n], <<"ready">>}
        /\ unsent' = unsent /\ stdin' = stdin
        BY <1>6 DEF Boot, Emit, input, TypeOK
  <2> HIDE DEF L, C
  <2>3. Only(stdout[n], L \ {"tx"}) /\ Only(owed[n], L \ {"tx"}) BY <1>3 DEF Idle, L
  <2>4. Only(Append(stdout[n], "ready"), L \ {"tx"}) BY <1>4, <2>1, <2>3, OnlyAppend
  <2>5. Only(<<"ready">>, L \ {"tx"}) BY <2>1, OnlyOne
  <2>6. Only(stdout'[n], L \ {"tx"}) BY <2>2, <2>3, <2>4
  <2>7. Only(owed'[n], L \ {"tx"}) BY <2>2, <2>3, <2>5
  <2> QED BY <1>3, <1>5, <2>2, <2>6, <2>7 DEF Idle, L
<1>7. CASE Dispatch(n)
  <2>1. stdin[n] # << >> /\ Head(stdin[n]) # "quit"
        /\ stdin'[n] = Tail(stdin[n])
        BY <1>7 DEF Dispatch, Take, TypeOK
  <2>2. Only(stdin[n], {"time", "quit"}) BY <1>3 DEF Idle
  <2> HIDE DEF C
  <2>3. Only(Tail(stdin[n]), {"time", "quit"}) /\ Head(stdin[n]) \in {"time", "quit"}
        BY <1>4, <2>1, <2>2, OnlyTail
  <2>4. Head(stdin[n]) = "time" BY <2>1, <2>3
  <2>5. UNCHANGED <<stdout, owed, unsent>> BY <1>7, <2>4 DEF Dispatch
  <2> QED BY <1>3, <1>5, <2>1, <2>3, <2>5 DEF Idle
<1>8. CASE Exit(n) \/ Crash(n)
  <2>1. stdin'[n] = << >> /\ owed'[n] = << >> /\ unsent'[n] = 0 /\ stdout' = stdout
        BY <1>8 DEF Exit, Crash, Die, TypeOK
  <2> QED BY <1>3, <1>5, <2>1, OnlyEmpty DEF Idle
<1>9. CASE Transmit(n) BY <1>3, <1>9 DEF Transmit, Idle, TypeOK
<1>10. CASE Unblock(n)
  <2>1. stdout'[n] = stdout[n] \o owed[n] /\ owed'[n] = << >>
        /\ unsent' = unsent /\ stdin' = stdin
        BY <1>10 DEF Unblock, input, TypeOK
  <2>2. Only(stdout[n], L \ {"tx"}) /\ Only(owed[n], L \ {"tx"}) BY <1>3 DEF Idle
  <2> HIDE DEF L
  <2>3. Only(stdout'[n], L \ {"tx"}) BY <1>4, <2>1, <2>2, OnlyConcat
  <2> QED BY <1>3, <1>5, <2>1, <2>3, OnlyEmpty DEF Idle, L
<1> QED BY <1>6, <1>7, <1>8, <1>9, <1>10 DEF ProcessStep

\* The readers: no line of a transmission is there to read.
LEMMA ReaderSilent ==
    ASSUME TypeOK, SilentBefore, NEW n \in Node,
           ReaderStep(n) \/ ReaderEnds(n) \/ Deliver(n)
    PROVE  SilentBefore'
<1>1. UNCHANGED <<phase, toAdvert>>
      BY DEF ReaderStep, Read, Tell, Told, Gathered, ReaderEnds, Deliver, driver
<1>2. CASE Wired BY <1>1, <1>2 DEF SilentBefore, Wired
<1>3. CASE ~Wired
  <2>1. Idle(n) /\ \A m \in Node : due[m] = 0 BY <1>3 DEF SilentBefore, Idle
  <2>2. ~ Gathered(n) /\ ~ Deliver(n) /\ \A m \in Node : ~ Tell(n, m)
        BY <2>1 DEF Gathered, Deliver, Tell, Idle
  <2>3. ASSUME NEW m \in Node, Told(n, m) PROVE SilentBefore'
        BY <1>1, <1>3, <2>3, StillSilent DEF Told, process, input
  <2> DEFINE L == Line
  <2>4. CASE /\ stdout[n] # << >> /\ stdout' = [stdout EXCEPT ![n] = Tail(@)]
             /\ UNCHANGED <<stdin, owed, unsent, due>>
             /\ \A m \in Node : m # n => reader'[m] = reader[m]
             /\ reader'[n] # "gather"
    <3>1. stdout[n] \in Seq(L) /\ Only(stdout[n], L \ {"tx"}) BY <2>1 DEF Idle, TypeOK
    <3>2. stdout'[n] = Tail(stdout[n]) /\ \A m \in Node : m # n => stdout'[m] = stdout[m]
          BY <2>4 DEF TypeOK
    <3> HIDE DEF L
    <3>3. Only(stdout'[n], L \ {"tx"}) BY <2>4, <3>1, <3>2, OnlyTail
    <3>4. Idle(n)' BY <2>1, <2>4, <3>3 DEF Idle, L
    <3> QED BY <1>1, <2>4, <3>2, <3>4, OneIdle
  <2>5. CASE Read(n)
    <3>1. stdout[n] \in Seq(L) /\ Only(stdout[n], L \ {"tx"}) BY <2>1 DEF Idle, TypeOK
    <3>2. stdout[n] # << >> BY <2>5 DEF Read
    <3> HIDE DEF L
    <3>3. Head(stdout[n]) # "tx" BY <3>1, <3>2, OnlyTail
    <3>4. reader' = reader BY <2>5, <3>3 DEF Read
    <3> QED BY <2>1, <2>4, <2>5, <3>4 DEF Read, Idle, input
  <2>6. CASE ReaderEnds(n)
    <3>1. stdout' = stdout BY <1>3, <2>6 DEF ReaderEnds
    <3>2. \A m \in Node : reader'[m] = IF m = n THEN "over" ELSE reader[m]
          BY <2>6 DEF ReaderEnds, TypeOK
    <3>3. UNCHANGED <<stdin, owed, unsent, due>> BY <2>6 DEF ReaderEnds, input
    <3>4. Idle(n)' BY <2>1, <3>1, <3>2, <3>3 DEF Idle
    <3> QED BY <1>1, <3>1, <3>2, <3>3, <3>4, OneIdle
  <2> QED BY <2>2, <2>3, <2>5, <2>6 DEF ReaderStep
<1> QED BY <1>2, <1>3

\* What is written to a node that is idle, if anything, is the time or quit.
LEMMA WriteSilent ==
    ASSUME TypeOK, NEW n \in Node, Write(n, "quit")
    PROVE  /\ \A m \in Node : m # n => stdin'[m] = stdin[m]
           /\ Only(stdin[n], {"time", "quit"}) => Only(stdin'[n], {"time", "quit"})
<1>1. stdin \in [Node -> Seq(Command)] BY DEF TypeOK
<1>2. CASE UNCHANGED input BY <1>2 DEF input
<1>3. CASE stdin' = [stdin EXCEPT ![n] = Append(@, "quit")]
  <2> DEFINE T == Command
  <2>1. "quit" \in T /\ stdin \in [Node -> Seq(T)] BY <1>1 DEF Command
  <2> HIDE DEF T
  <2>2. stdin'[n] = Append(stdin[n], "quit") /\ stdin[n] \in Seq(T)
        BY <1>3, <2>1
  <2>3. "quit" \in {"time", "quit"} OBVIOUS
  <2>4. Only(stdin[n], {"time", "quit"}) => Only(stdin'[n], {"time", "quit"})
        BY <2>1, <2>2, <2>3, OnlyAppend
  <2>5. \A m \in Node : m # n => stdin'[m] = stdin[m] BY <1>3, <2>1
  <2> QED BY <2>4, <2>5
<1> QED BY <1>2, <1>3 DEF Write

LEMMA QuitSilent ==
    ASSUME TypeOK, SilentBefore, NEW n \in Node, QuitStep(n)
    PROVE  SilentBefore'
<1>1. phase' = phase /\ toAdvert' = toAdvert /\ UNCHANGED readers
      BY DEF QuitStep, Quit, QuitDrained, Exited, Kill, driver
<1>2. CASE Quit(n)
  <2>1. UNCHANGED <<stdout, owed, unsent, reader, due>>
        BY <1>2 DEF Quit, process, readers
  <2>2. CASE UNCHANGED input BY <1>1, <2>1, <2>2, StillSilent DEF input, Wired
  <2>3. CASE Write(n, "quit")
    <3>1. ~Wired => Idle(n)' BY <2>1, <2>3, WriteSilent DEF SilentBefore, Idle
    <3>2. \A m \in Node : m # n => stdin'[m] = stdin[m] BY <2>3, WriteSilent
    <3> QED BY <1>1, <2>1, <3>1, <3>2, OneIdle
  <2> QED BY <1>2, <2>2, <2>3 DEF Quit
<1>3. CASE QuitDrained(n) \/ Exited(n)
  <2>1. UNCHANGED <<stdin, stdout, owed, unsent, reader, due>>
        BY <1>3 DEF QuitDrained, Exited, process, input, readers
  <2> QED BY <1>1, <2>1, StillSilent DEF Wired
<1>4. CASE Kill(n)
  <2>1. Die(n) BY <1>4 DEF Kill
  <2>2. /\ stdin'[n] = << >> /\ owed'[n] = << >> /\ unsent'[n] = 0 /\ stdout' = stdout
        /\ \A m \in Node : m # n =>
              stdin'[m] = stdin[m] /\ owed'[m] = owed[m] /\ unsent'[m] = unsent[m]
        BY <2>1 DEF Die, TypeOK
  <2>3. ~Wired => Idle(n)' BY <1>1, <2>2, OnlyEmpty DEF SilentBefore, Idle, readers
  <2> QED BY <1>1, <2>2, <2>3, OneIdle DEF readers
<1> QED BY <1>2, <1>3, <1>4 DEF QuitStep

LEMMA DriverSilent ==
    ASSUME TypeOK, SilentBefore, DriverStep
    PROVE  SilentBefore'
<1>1. ASSUME NEW n \in Node, Start(n) PROVE SilentBefore'
  <2>1. /\ phase' = phase /\ toAdvert' = toAdvert
        /\ UNCHANGED <<stdout, owed, unsent, due>>
        /\ stdin' = [stdin EXCEPT ![n] = <<"time">>]
        /\ reader' = [reader EXCEPT ![n] = "read"]
        BY <1>1 DEF Start, driver
  <2>2. /\ stdin'[n] = <<"time">> /\ reader'[n] = "read"
        /\ \A m \in Node : m # n => stdin'[m] = stdin[m] /\ reader'[m] = reader[m]
        BY <2>1 DEF TypeOK
  <2>3. Only(<<"time">>, {"time", "quit"}) BY OnlyOne
  <2>4. ~Wired => Idle(n)' BY <2>1, <2>2, <2>3 DEF SilentBefore, Idle
  <2> QED BY <2>1, <2>2, <2>4, OneIdle
<1>2. CASE AllStarted \/ ReadyTimeout
  <2>1. UNCHANGED <<stdin, stdout, owed, unsent, reader, due, toAdvert>> /\ ~Wired
        BY <1>2 DEF AllStarted, ReadyTimeout, process, input, readers, Wired
  <2> QED BY <2>1, StillSilent
<1>3. CASE AllReady \/ Begin \/ TimerFires \/ Flood
  <2>1. Wired' BY <1>3 DEF AllReady, Begin, TimerFires, Flood, Wired
  <2> QED BY <2>1 DEF SilentBefore
<1>4. ASSUME NEW n \in Node, Adverted(n) PROVE SilentBefore'
  <2>1. UNCHANGED <<stdin, stdout, owed, unsent, reader, due, toAdvert, phase>>
        BY <1>4 DEF Adverted, process, input, readers
  <2> QED BY <2>1, StillSilent DEF Wired
<1>5. ASSUME NEW n \in Node, Advert(n) PROVE SilentBefore'
  <2>1. n \in toAdvert /\ phase' = phase BY <1>5 DEF Advert
  <2>2. Wired BY <2>1 DEF SilentBefore
  <2>3. Wired' BY <2>1, <2>2 DEF Wired
  <2> QED BY <2>3 DEF SilentBefore
<1>6. CASE Return
  <2>1. Wired' BY <1>6 DEF Return, Wired
  <2> QED BY <2>1 DEF SilentBefore
<1> QED BY <1>1, <1>2, <1>3, <1>4, <1>5, <1>6 DEF DriverStep

LEMMA SilentKept == TypeOK /\ SilentBefore /\ [Next]_vars => SilentBefore'
<1> SUFFICES ASSUME TypeOK, SilentBefore, [Next]_vars PROVE SilentBefore' OBVIOUS
<1>1. CASE UNCHANGED vars
      BY <1>1, StillSilent DEF vars, driver, process, input, readers, Wired
<1>2. CASE DriverStep BY <1>2, DriverSilent
<1>3. ASSUME NEW n \in Node, ProcessStep(n) \/ Crash(n) PROVE SilentBefore'
      BY <1>3, ProcessSilent
<1>4. ASSUME NEW n \in Node, ReaderStep(n) \/ ReaderEnds(n) \/ Deliver(n) PROVE SilentBefore'
      BY <1>4, ReaderSilent
<1>5. ASSUME NEW n \in Node, QuitStep(n) PROVE SilentBefore' BY <1>5, QuitSilent
<1> QED BY <1>1, <1>2, <1>3, <1>4, <1>5 DEF Next

\* No transmission is in hand or on its way before the router takes them
\* (__main__.py, run: wait_ready before PacketRouter, adverts after it).
THEOREM RoutedOnly == Spec => []NoTxUnrouted
<1>1. Init => SilentBefore BY OnlyEmpty DEF Init, SilentBefore, Idle
<1>2. SilentBefore => NoTxUnrouted
  <2> SUFFICES ASSUME SilentBefore, ~Wired, NEW n \in Node
      PROVE  /\ unsent[n] = 0
             /\ \A i \in 1 .. Len(stdout[n]) : stdout[n][i] # "tx"
             /\ owed[n] # <<"tx">>
      BY DEF NoTxUnrouted
  <2>1. Idle(n) BY DEF SilentBefore
  <2>2. owed[n] # <<"tx">>
    <3> SUFFICES ASSUME owed[n] = <<"tx">> PROVE FALSE OBVIOUS
    <3>1. Only(<<"tx">>, Line \ {"tx"}) BY <2>1 DEF Idle
    <3>2. Len(<<"tx">>) = 1 /\ <<"tx">>[1] = "tx" OBVIOUS
    <3> QED BY <3>1, <3>2 DEF Only
  <2> QED BY <2>1, <2>2 DEF Idle, Only
<1> QED BY <1>1, <1>2, InitType, NextType, SilentKept, PTL DEF Spec
=============================================================================
