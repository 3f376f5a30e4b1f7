------------------------------ MODULE NodeLink ------------------------------
(***************************************************************************)
(* The node processes, the pipes to and from them (orchestrator/node.py),  *)
(* and the life of a run (orchestrator/__main__.py, run): start, wait for  *)
(* ready, floods of adverts, timer, shutdown.                              *)
(*                                                                         *)
(* A process is one thread (node_agent/main.cpp): it dispatches a line of  *)
(* its input, lets the mesh transmit, and blocks when its output is full.  *)
(* Of the orchestrator an action is the run of a coroutine from one await  *)
(* to the next; the await that matters is drain(), which waits while more  *)
(* than HighWater lines of a process's input are unread.                   *)
(***************************************************************************)
EXTENDS Naturals, Sequences, FiniteSets

CONSTANTS
    Node,
    Neighbours,  \* [Node -> SUBSET Node], who hears a node
    HighWater,   \* unread lines of input above which drain() waits
    LowWater,    \* unread lines at which it goes on
    StdoutCap,   \* lines that fit between a process and its reader
    Initial,     \* floods of adverts before the timer starts: two in run()
    Floods,      \* bound: floods of adverts, the periodic ones included
    Faulty,      \* nodes one of whose lines makes its reader's callback raise
    MaxExtra     \* bound: packets relayed and processes that crash, together

ASSUME NodeLinkAssumption ==
    /\ Neighbours \in [Node -> SUBSET Node]
    /\ \A n \in Node : n \notin Neighbours[n]
    /\ HighWater \in Nat /\ LowWater \in 0 .. HighWater
    /\ StdoutCap \in Nat \ {0}
    /\ Initial \in Nat /\ Floods \in Nat \ 0 .. Initial - 1
    /\ MaxExtra \in Nat
    /\ Faulty \subseteq Node

Command == {"time", "advert", "rx_start", "rx", "quit"}
Line == {"ready", "tx", "event"}   \* "event": advert, recv_text, ack, log ...
Phase == {"start", "wait", "initial", "run", "quit", "abort", "done"}

VARIABLES
    phase,     \* where run() is
    floods,    \* floods of adverts begun
    toAdvert,  \* nodes whose _delayed_advert still sleeps
    advertising, \* nodes whose _delayed_advert waits in drain()
    proc,      \* "none", "boot" until the ready line, "up", "dead"
    stdin,     \* lines the process has not read
    paused,    \* the transport told its writers to wait
    stdout,    \* lines the reader has not read
    owed,      \* the line a process is blocked writing
    unsent,    \* packets a node's mesh has queued for its radio
    reader,    \* "off", "read", "gather" in _on_tx, "over"
    toTell,    \* neighbours whose rx_start of the gather is not written
    telling,   \* neighbours whose rx_start of the gather waits in drain()
    due,       \* delivery tasks of packets for a node
    ready,     \* nodes whose ready event is set
    stopping,  \* nodes whose _stopping flag is set
    quitting,  \* quit(): "no", "drain", "wait" for the process, "done"
    extra      \* packets relayed, processes crashed

driver == <<phase, floods, toAdvert, advertising>>
process == <<proc, stdout, owed, unsent, extra>>
input == <<stdin, paused>>
readers == <<reader, toTell, telling, due, ready>>
quits == <<stopping, quitting>>
vars == <<driver, process, input, readers, quits>>

Alive(n) == proc[n] \in {"boot", "up"}

\* Mutant: the router is constructed after the first floods.
Wired_late == phase \notin {"start", "wait", "abort", "initial"}

\* PacketRouter sets tx_callback when it is constructed, after the last
\* wait_ready and before the first flood.
Wired == phase \notin {"start", "wait", "abort"}

-----------------------------------------------------------------------------
(* The pipes *)

\* Mutant: the _stopping flag is not looked at.
Write_late(n, c) ==
    IF Alive(n)
    THEN /\ stdin' = [stdin EXCEPT ![n] = Append(@, c)]
         /\ paused' = [paused EXCEPT ![n] = @ \/ Len(stdin[n]) >= HighWater]
    ELSE UNCHANGED input

\* send_command: nothing but quit is written once quit() has been called; what
\* is written to a dead process is lost, with a warning.
Write(n, c) ==
    IF Alive(n) /\ (c = "quit" \/ n \notin stopping)
    THEN /\ stdin' = [stdin EXCEPT ![n] = Append(@, c)]
         /\ paused' = [paused EXCEPT ![n] = @ \/ Len(stdin[n]) >= HighWater]
    ELSE UNCHANGED input

\* The process takes a line off its input; the transport resumes its writers.
Take(n) ==
    /\ stdin' = [stdin EXCEPT ![n] = Tail(@)]
    /\ paused' = [paused EXCEPT ![n] = @ /\ Len(stdin[n]) - 1 > LowWater]

\* Mutant: output never blocks.
Emit_unbounded(n, line) ==
    stdout' = [stdout EXCEPT ![n] = Append(@, line)] /\ UNCHANGED owed

\* A process writes a line, or is blocked until its reader has made room.
Emit(n, line) ==
    IF Len(stdout[n]) < StdoutCap
    THEN stdout' = [stdout EXCEPT ![n] = Append(@, line)] /\ UNCHANGED owed
    ELSE owed' = [owed EXCEPT ![n] = <<line>>] /\ UNCHANGED stdout

Running(n) == proc[n] = "up" /\ owed[n] = << >>

\* Mutant: a broken pipe does not wake the writers.
Die_paused(n) ==
    /\ proc' = [proc EXCEPT ![n] = "dead"]
    /\ stdin' = [stdin EXCEPT ![n] = << >>]
    /\ owed' = [owed EXCEPT ![n] = << >>]
    /\ unsent' = [unsent EXCEPT ![n] = 0]
    /\ UNCHANGED <<stdout, paused>>

\* A process ends: its input pipe breaks, which wakes the writers in drain().
Die(n) ==
    /\ proc' = [proc EXCEPT ![n] = "dead"]
    /\ stdin' = [stdin EXCEPT ![n] = << >>]
    /\ paused' = [paused EXCEPT ![n] = FALSE]
    /\ owed' = [owed EXCEPT ![n] = << >>]
    /\ unsent' = [unsent EXCEPT ![n] = 0]
    /\ UNCHANGED stdout

-----------------------------------------------------------------------------
(* A process *)

Boot(n) ==
    /\ proc[n] = "boot"
    /\ proc' = [proc EXCEPT ![n] = "up"]
    /\ Emit(n, "ready")
    /\ UNCHANGED <<driver, input, readers, quits, unsent, extra>>

\* An advert command queues a packet. A packet received is relayed, or shows in
\* a line (an advert learnt, a text received), or nothing comes of it.
Dispatch(n) ==
    /\ Running(n) /\ stdin[n] # << >> /\ Head(stdin[n]) # "quit"
    /\ Take(n)
    /\ LET c == Head(stdin[n]) IN
       \/ c # "advert" /\ UNCHANGED <<stdout, owed, unsent, extra>>
       \/ /\ c = "advert"
          /\ unsent' = [unsent EXCEPT ![n] = @ + 1]
          /\ UNCHANGED <<stdout, owed, extra>>
       \/ /\ c = "rx" /\ extra < MaxExtra
          /\ unsent' = [unsent EXCEPT ![n] = @ + 1]
          /\ extra' = extra + 1
          /\ UNCHANGED <<stdout, owed>>
       \/ c = "rx" /\ Emit(n, "event") /\ UNCHANGED <<unsent, extra>>
    /\ UNCHANGED <<driver, readers, quits, proc>>

Exit(n) ==
    /\ Running(n) /\ stdin[n] # << >> /\ Head(stdin[n]) = "quit"
    /\ Die(n)
    /\ UNCHANGED <<driver, readers, quits, extra>>

\* node.loop() lets the radio transmit: a tx line.
Transmit(n) ==
    /\ Running(n) /\ unsent[n] > 0
    /\ unsent' = [unsent EXCEPT ![n] = @ - 1]
    /\ Emit(n, "tx")
    /\ UNCHANGED <<driver, input, readers, quits, proc, extra>>

Unblock(n) ==
    /\ owed[n] # << >> /\ Len(stdout[n]) < StdoutCap
    /\ stdout' = [stdout EXCEPT ![n] = @ \o owed[n]]
    /\ owed' = [owed EXCEPT ![n] = << >>]
    /\ UNCHANGED <<driver, input, readers, quits, proc, unsent, extra>>

\* A process dies of its own: RLIMIT_AS makes an allocation fail.
Crash(n) ==
    /\ Alive(n) /\ extra < MaxExtra
    /\ extra' = extra + 1
    /\ Die(n)
    /\ UNCHANGED <<driver, readers, quits>>

-----------------------------------------------------------------------------
(* The reader of a process: _reader_loop, _dispatch_event, router._on_tx *)

Read(n) ==
    /\ reader[n] = "read" /\ stdout[n] # << >>
    /\ stdout' = [stdout EXCEPT ![n] = Tail(@)]
    /\ LET line == Head(stdout[n]) IN
       \/ /\ line = "ready"
          /\ ready' = ready \cup {n}
          /\ UNCHANGED <<reader, toTell>>
       \/ /\ line = "tx" /\ Wired
          /\ reader' = [reader EXCEPT ![n] = "gather"]
          /\ toTell' = [toTell EXCEPT ![n] = Neighbours[n]]
          /\ UNCHANGED ready
       \/ line = "tx" /\ ~Wired /\ UNCHANGED <<reader, toTell, ready>>
       \/ line = "event" /\ UNCHANGED <<reader, toTell, ready>>
    /\ UNCHANGED <<driver, input, quits, telling, due, proc, owed, unsent, extra>>

\* One notify_rx_start of the gather is written; it waits in drain() only if the
\* transport is paused.
Tell(n, m) ==
    /\ reader[n] = "gather" /\ m \in toTell[n]
    /\ Write(m, "rx_start")
    /\ toTell' = [toTell EXCEPT ![n] = @ \ {m}]
    /\ telling' = [telling EXCEPT ![n] = IF paused'[m] THEN @ \cup {m} ELSE @]
    /\ UNCHANGED <<driver, process, quits, reader, due, ready>>

Told(n, m) ==
    /\ m \in telling[n] /\ ~paused[m]
    /\ telling' = [telling EXCEPT ![n] = @ \ {m}]
    /\ UNCHANGED <<driver, process, input, quits, reader, toTell, due, ready>>

\* The gather is complete: one delivery task per neighbour, and the next line.
Gathered(n) ==
    /\ reader[n] = "gather" /\ toTell[n] = {} /\ telling[n] = {}
    /\ reader' = [reader EXCEPT ![n] = "read"]
    /\ due' = [m \in Node |-> due[m] + IF m \in Neighbours[n] THEN 1 ELSE 0]
    /\ UNCHANGED <<driver, process, input, quits, toTell, telling, ready>>

\* A delivery task ends: the packet is lost, or written. Nobody waits for it.
Deliver(m) ==
    /\ due[m] > 0
    /\ due' = [due EXCEPT ![m] = @ - 1]
    /\ Write(m, "rx") \/ UNCHANGED input
    /\ UNCHANGED <<driver, process, quits, reader, toTell, telling, ready>>

\* The loop ends with the process's output, or with the first exception, which
\* takes the line with it.
ReaderEnds(n) ==
    /\ reader[n] = "read"
    /\ \/ proc[n] = "dead" /\ stdout[n] = << >> /\ UNCHANGED stdout
       \/ /\ n \in Faulty /\ Wired /\ stdout[n] # << >>
          /\ stdout' = [stdout EXCEPT ![n] = Tail(@)]
    /\ reader' = [reader EXCEPT ![n] = "over"]
    /\ UNCHANGED <<driver, input, quits, toTell, telling, due, ready, proc, owed,
                   unsent, extra>>

-----------------------------------------------------------------------------
(* run() *)

\* start: the process, its clock, its reader.
Start(n) ==
    /\ phase = "start" /\ proc[n] = "none"
    /\ proc' = [proc EXCEPT ![n] = "boot"]
    /\ stdin' = [stdin EXCEPT ![n] = <<"time">>]
    /\ reader' = [reader EXCEPT ![n] = "read"]
    /\ UNCHANGED <<driver, quits, paused, stdout, owed, unsent, extra,
                   toTell, telling, due, ready>>

AllStarted ==
    /\ phase = "start" /\ \A n \in Node : proc[n] # "none"
    /\ phase' = "wait"
    /\ UNCHANGED <<floods, toAdvert, advertising, process, input, readers, quits>>

AllReady ==
    /\ phase = "wait" /\ ready = Node
    /\ phase' = "initial"
    /\ UNCHANGED <<floods, toAdvert, advertising, process, input, readers, quits>>

\* wait_ready gives up after 15 s, with the ready line perhaps on its way.
ReadyTimeout ==
    /\ phase = "wait" /\ ready # Node
    /\ phase' = "abort"
    /\ UNCHANGED <<floods, toAdvert, advertising, process, input, readers, quits>>

FloodDone == toAdvert = {} /\ advertising = {}

\* run_initial_adverts, called by run() and then by run_periodic_adverts.
Flood ==
    /\ phase \in {"initial", "run"} /\ FloodDone /\ floods < Floods
    /\ (phase = "run") = (floods >= Initial)
    /\ floods' = floods + 1
    /\ toAdvert' = Node
    /\ UNCHANGED <<phase, advertising, process, input, readers, quits>>

Advert(n) ==
    /\ n \in toAdvert
    /\ Write(n, "advert")
    /\ toAdvert' = toAdvert \ {n}
    /\ advertising' = IF paused'[n] THEN advertising \cup {n} ELSE advertising
    /\ UNCHANGED <<phase, floods, process, readers, quits>>

Adverted(n) ==
    /\ n \in advertising /\ ~paused[n]
    /\ advertising' = advertising \ {n}
    /\ UNCHANGED <<phase, floods, toAdvert, process, input, readers, quits>>

\* The initial floods are over: the timer and the background tasks begin.
Begin ==
    /\ phase = "initial" /\ FloodDone /\ floods = Initial
    /\ phase' = "run"
    /\ UNCHANGED <<floods, toAdvert, advertising, process, input, readers, quits>>

\* The timer fires: the background tasks are cancelled wherever they wait.
TimerFires ==
    /\ phase = "run"
    /\ phase' = "quit"
    /\ toAdvert' = {} /\ advertising' = {}
    /\ UNCHANGED <<floods, process, input, readers, quits>>

\* quit() of every agent, side by side. Once the command is out stdin is closed
\* and the wait for the exit begins; the drain() before that has no limit.
Quit(n) ==
    /\ phase \in {"quit", "abort"} /\ quitting[n] = "no"
    /\ \/ /\ ~Alive(n)     \* its returncode is known
          /\ quitting' = [quitting EXCEPT ![n] = "done"]
          /\ UNCHANGED <<stopping, input>>
       \/ /\ stopping' = stopping \cup {n}
          /\ Write(n, "quit")
          /\ quitting' = [quitting EXCEPT ![n] = IF paused'[n] THEN "drain" ELSE "wait"]
    /\ UNCHANGED <<driver, process, readers>>

QuitDrained(n) ==
    /\ quitting[n] = "drain" /\ ~paused[n]
    /\ quitting' = [quitting EXCEPT ![n] = "wait"]
    /\ UNCHANGED <<driver, process, input, readers, stopping>>

Exited(n) ==
    /\ quitting[n] = "wait" /\ proc[n] = "dead"
    /\ quitting' = [quitting EXCEPT ![n] = "done"]
    /\ UNCHANGED <<driver, process, input, readers, stopping>>

\* Mutant: the wait times out and nothing is killed.
Kill_never(n) ==
    /\ quitting[n] = "wait" /\ proc[n] # "dead"
    /\ quitting' = [quitting EXCEPT ![n] = "done"]
    /\ UNCHANGED <<driver, process, input, readers, stopping>>

\* After two seconds it is killed.
Kill(n) ==
    /\ quitting[n] = "wait" /\ proc[n] # "dead"
    /\ Die(n)
    /\ quitting' = [quitting EXCEPT ![n] = "done"]
    /\ UNCHANGED <<driver, readers, stopping, extra>>

\* The report is written and run() returns; what tasks are left are cancelled.
Return ==
    /\ phase \in {"quit", "abort"} /\ \A n \in Node : quitting[n] = "done"
    /\ phase' = "done"
    /\ reader' = [n \in Node |-> "over"]
    /\ due' = [n \in Node |-> 0]
    /\ toTell' = [n \in Node |-> {}] /\ telling' = [n \in Node |-> {}]
    /\ UNCHANGED <<floods, toAdvert, advertising, process, input, quits, ready>>

-----------------------------------------------------------------------------

Init ==
    /\ phase = "start" /\ floods = 0 /\ toAdvert = {} /\ advertising = {}
    /\ proc = [n \in Node |-> "none"]
    /\ stdin = [n \in Node |-> << >>] /\ stdout = [n \in Node |-> << >>]
    /\ owed = [n \in Node |-> << >>]
    /\ paused = [n \in Node |-> FALSE]
    /\ unsent = [n \in Node |-> 0] /\ due = [n \in Node |-> 0]
    /\ reader = [n \in Node |-> "off"]
    /\ toTell = [n \in Node |-> {}] /\ telling = [n \in Node |-> {}]
    /\ ready = {} /\ stopping = {}
    /\ quitting = [n \in Node |-> "no"]
    /\ extra = 0

ProcessStep(n) == Boot(n) \/ Dispatch(n) \/ Exit(n) \/ Transmit(n) \/ Unblock(n)

ReaderStep(n) ==
    \/ Read(n) \/ Gathered(n)
    \/ \E m \in Node : Tell(n, m) \/ Told(n, m)

DriverStep ==
    \/ AllStarted \/ AllReady \/ ReadyTimeout \/ Flood \/ Begin \/ TimerFires \/ Return
    \/ \E n \in Node : Start(n) \/ Advert(n) \/ Adverted(n)

QuitStep(n) == Quit(n) \/ QuitDrained(n) \/ Exited(n) \/ Kill(n)

Next ==
    \/ DriverStep
    \/ \E n \in Node :
          \/ ProcessStep(n) \/ ReaderStep(n) \/ ReaderEnds(n) \/ Deliver(n)
          \/ QuitStep(n) \/ Crash(n)

Spec == Init /\ [][Next]_vars

\* A process that can go on does, a ready coroutine runs, and timers fire. A
\* process need not crash and a callback need not raise.
Fairness ==
    /\ WF_vars(DriverStep)
    /\ WF_vars(\E n \in Node : ProcessStep(n))
    /\ WF_vars(\E n \in Node : ReaderStep(n) \/ Deliver(n))
    /\ WF_vars(\E n \in Node : QuitStep(n))

FairSpec == Spec /\ Fairness

-----------------------------------------------------------------------------
(* Properties *)

TypeOK ==
    /\ phase \in Phase /\ floods \in 0 .. Floods
    /\ toAdvert \subseteq Node /\ advertising \subseteq Node
    /\ proc \in [Node -> {"none", "boot", "up", "dead"}]
    /\ stdin \in [Node -> Seq(Command)] /\ stdout \in [Node -> Seq(Line)]
    /\ owed \in [Node -> Seq(Line)] /\ \A n \in Node : Len(owed[n]) <= 1
    /\ \A n \in Node : Len(stdout[n]) <= StdoutCap
    /\ paused \in [Node -> BOOLEAN]
    /\ unsent \in [Node -> Nat] /\ due \in [Node -> Nat]
    /\ reader \in [Node -> {"off", "read", "gather", "over"}]
    /\ toTell \in [Node -> SUBSET Node] /\ telling \in [Node -> SUBSET Node]
    /\ ready \subseteq Node /\ stopping \subseteq Node
    /\ quitting \in [Node -> {"no", "drain", "wait", "done"}]
    /\ extra \in 0 .. MaxExtra

\* No command follows quit into a process's input, whatever deliveries and
\* notices are still under way when quit() is called (node.py, _stopping): the
\* pipe is about to be closed behind it.
NothingAfterQuit ==
    \A n \in Node : \A i \in 1 .. Len(stdin[n]) :
        stdin[n][i] = "quit" => i = Len(stdin[n])

\* When run() returns -- after the simulation, or because a node was not ready
\* in time -- no process it started is left running.
NoOrphans == phase = "done" => \A n \in Node : proc[n] = "dead"

\* While no router is there to take it, no node has a transmission in hand, in
\* its output or on the way to it: none is dropped for want of a tx_callback.
NoTxUnrouted ==
    ~Wired => \A n \in Node :
        /\ unsent[n] = 0
        /\ \A i \in 1 .. Len(stdout[n]) : stdout[n][i] # "tx"
        /\ owed[n] # <<"tx">>

\* Nodes blocked writing, each behind a reader that has failed or that waits for
\* another of them to read its input: no write or quit to any of them returns.
Jammed ==
    \E S \in SUBSET Node \ {{}} : \A n \in S :
        /\ owed[n] # << >> /\ Len(stdout[n]) = StdoutCap
        /\ \/ reader[n] = "over"
           \/ \E m \in telling[n] \cap S : paused[m]

\* Every run ends, whatever crashes while others write to it, is killed or fails
\* to get ready, with one exception: shutting down awaits drain() without a
\* limit, so a run with a jam in it need not end. There is no other way to hang.
RunEnds == <>(phase = "done" \/ Jammed)
=============================================================================
