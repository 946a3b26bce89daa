---- MODULE AudioDriver ----
(***************************************************************************)
(* src/apps/host/macos/audio-device/output-driver.c and                    *)
(* microphone-driver.c: the clients of a virtual device and its clock,     *)
(* which the two drivers keep with the same code; the microphone also      *)
(* resets its sample buffer with the clock.  Every call of the HAL that    *)
(* changes the client table runs under stateLock; the IO threads read the  *)
(* anchor and the seed of the clock without it.  The HAL (external) starts *)
(* a client's IO thread after StartIO returned and stops it before StopIO  *)
(* or RemoveDeviceClient.  Time counts zero-timestamp periods.             *)
(***************************************************************************)
EXTENDS Integers, FiniteSets

CONSTANTS
    ClientIds,     \* the HAL's client ids
    TableSlots,    \* OutputMaxClients, 64
    MaxPeriods,    \* bound: time
    MaxClockSeed   \* bound: clock restarts

ASSUME AudioDriverAssumption ==
    /\ 0 \notin ClientIds /\ TableSlots \in Nat \ {0}
    /\ MaxPeriods \in Nat /\ MaxClockSeed \in Nat

VARIABLES
    driver,      \* "output" or "microphone"
    hosted,      \* host # NULL
    clients,     \* [1..TableSlots -> [id, running]], id 0: not used
    running,     \* the count the property and the clock look at
    anchor, clockSeed,
    change,      \* a start that holds stateLock: [step, id]
    ioThread,    \* [ClientIds -> [on, base]]: base 0 before the anchor is read
    stamps,      \* the zero timestamps handed out: [seed, base]
    bufferResets,      \* how often the microphone's buffer was reset
    periods

audioDriverVars == <<driver, hosted, clients, running, anchor, clockSeed, change, ioThread, stamps,
                     bufferResets, periods>>

Unlocked == [step |-> "none", id |-> 0]
SlotsOf(id) == {i \in 1..TableSlots : clients[i].id = id}
Lowest(slots) == CHOOSE i \in slots : \A o \in slots : i <= o

AudioDriverTypeOK ==
    /\ driver \in {"output", "microphone"} /\ bufferResets \in Nat
    /\ hosted \in BOOLEAN /\ running \in Nat /\ anchor \in Nat /\ clockSeed \in Nat /\ periods \in Nat
    /\ clients \in [1..TableSlots -> [id : ClientIds \cup {0}, running : BOOLEAN]]
    /\ change \in [step : {"none", "reset", "anchor", "seed", "count"}, id : ClientIds \cup {0}]
    /\ ioThread \in [ClientIds -> [on : BOOLEAN, base : Nat]]
    /\ stamps \subseteq [seed : Nat, base : Nat]

AudioDriverInit ==
    /\ driver \in {"output", "microphone"} /\ bufferResets = 0
    /\ hosted = FALSE /\ running = 0 /\ anchor = 0 /\ clockSeed = 0
    /\ clients = [i \in 1..TableSlots |-> [id |-> 0, running |-> FALSE]]
    /\ change = Unlocked /\ stamps = {} /\ periods = 1
    /\ ioThread = [c \in ClientIds |-> [on |-> FALSE, base |-> 0]]

-----------------------------------------------------------------------------
\* initialize: only the first host starts the clock.
InitializeDriver ==
    /\ driver = "output" /\ change = Unlocked
    /\ hosted' = TRUE
    /\ anchor' = IF hosted THEN anchor ELSE periods
    /\ clockSeed' = IF hosted THEN clockSeed ELSE 1
    /\ UNCHANGED <<driver, bufferResets, clients, running, change, ioThread, stamps, periods>>

\* initialize of the microphone: its buffer is set up with the clock.
InitializeMicrophone ==
    /\ driver = "microphone" /\ change = Unlocked
    /\ hosted' = TRUE
    /\ anchor' = IF hosted THEN anchor ELSE periods
    /\ clockSeed' = IF hosted THEN clockSeed ELSE 1
    /\ bufferResets' = IF hosted THEN bufferResets ELSE 1
    /\ UNCHANGED <<driver, clients, running, change, ioThread, stamps, periods>>

\* addClient: known ids keep their slot, new ones take the first free one; a full
\* table refuses.
AddClient(id) ==
    /\ hosted /\ change = Unlocked
    /\ clients' = IF SlotsOf(id) # {} \/ SlotsOf(0) = {} THEN clients
                  ELSE [clients EXCEPT ![Lowest(SlotsOf(0))] = [id |-> id, running |-> FALSE]]
    /\ UNCHANGED <<driver, bufferResets, hosted, running, anchor, clockSeed, change, ioThread, stamps, periods>>

\* removeClient, of a client that may still be running.
RemoveClient(id) ==
    /\ hosted /\ change = Unlocked /\ ioThread[id].base = 0
    /\ running' = running - Cardinality({i \in SlotsOf(id) : clients[i].running})
    /\ clients' = [i \in 1..TableSlots |->
                     IF i \in SlotsOf(id) THEN [id |-> 0, running |-> FALSE] ELSE clients[i]]
    /\ ioThread' = [ioThread EXCEPT ![id].on = FALSE]
    /\ UNCHANGED <<driver, bufferResets, hosted, anchor, clockSeed, change, stamps, periods>>

\* Mutation: every start restarts the clock.
StartIOAlwaysAnchors(id) ==
    /\ driver = "output" /\ hosted /\ change = Unlocked
    /\ \E i \in SlotsOf(id) : ~clients[i].running /\ clients' = [clients EXCEPT ![i].running = TRUE]
    /\ change' = [step |-> "anchor", id |-> id]
    /\ UNCHANGED <<driver, bufferResets, hosted, running, anchor, clockSeed, ioThread, stamps, periods>>

\* changeIO(start): the first running client restarts the clock; the rest of the
\* call follows, under the lock.
StartIO(id) ==
    /\ driver = "output" /\ hosted /\ change = Unlocked
    /\ \E i \in SlotsOf(id) : ~clients[i].running /\ clients' = [clients EXCEPT ![i].running = TRUE]
    /\ change' = [step |-> IF running = 0 THEN "anchor" ELSE "count", id |-> id]
    /\ UNCHANGED <<driver, bufferResets, hosted, running, anchor, clockSeed, ioThread, stamps, periods>>

\* changeIO(start) of the microphone: the buffer is emptied before the clock restarts.
StartMicrophoneIO(id) ==
    /\ driver = "microphone" /\ hosted /\ change = Unlocked
    /\ \E i \in SlotsOf(id) : ~clients[i].running /\ clients' = [clients EXCEPT ![i].running = TRUE]
    /\ change' = [step |-> IF running = 0 THEN "reset" ELSE "count", id |-> id]
    /\ UNCHANGED <<driver, bufferResets, hosted, running, anchor, clockSeed, ioThread, stamps, periods>>

ResetMicrophoneBuffer ==
    /\ change.step = "reset"
    /\ bufferResets' = bufferResets + 1 /\ change' = [change EXCEPT !.step = "anchor"]
    /\ UNCHANGED <<driver, hosted, clients, running, anchor, clockSeed, ioThread, stamps, periods>>

StoreAnchor ==
    /\ change.step = "anchor"
    /\ anchor' = periods /\ change' = [change EXCEPT !.step = "seed"]
    /\ UNCHANGED <<driver, bufferResets, hosted, clients, running, clockSeed, ioThread, stamps, periods>>

AddSeed ==
    /\ change.step = "seed" /\ clockSeed < MaxClockSeed
    /\ clockSeed' = clockSeed + 1 /\ change' = [change EXCEPT !.step = "count"]
    /\ UNCHANGED <<driver, bufferResets, hosted, clients, running, anchor, ioThread, stamps, periods>>

\* StartIO returns, and the HAL starts the client's IO thread.
CountRunning ==
    /\ change.step = "count"
    /\ running' = running + 1 /\ change' = Unlocked
    /\ ioThread' = [ioThread EXCEPT ![change.id].on = TRUE]
    /\ UNCHANGED <<driver, bufferResets, hosted, clients, anchor, clockSeed, stamps, periods>>

\* changeIO(stop), once the HAL has stopped the client's IO thread.
StopIO(id) ==
    /\ hosted /\ change = Unlocked /\ ioThread[id].base = 0
    /\ \E i \in SlotsOf(id) : clients[i].running /\ clients' = [clients EXCEPT ![i].running = FALSE]
    /\ running' = running - 1
    /\ ioThread' = [ioThread EXCEPT ![id].on = FALSE]
    /\ UNCHANGED <<driver, bufferResets, hosted, anchor, clockSeed, change, stamps, periods>>

\* timestamp: the anchor is loaded first, the seed last.
TimestampAnchor(id) ==
    /\ ioThread[id].on /\ ioThread[id].base = 0
    /\ ioThread' = [ioThread EXCEPT ![id].base = anchor]
    /\ UNCHANGED <<driver, bufferResets, hosted, clients, running, anchor, clockSeed, change, stamps, periods>>

TimestampSeed(id) ==
    /\ ioThread[id].base # 0
    /\ stamps' = stamps \cup {[seed |-> clockSeed, base |-> ioThread[id].base]}
    /\ ioThread' = [ioThread EXCEPT ![id].base = 0]
    /\ UNCHANGED <<driver, bufferResets, hosted, clients, running, anchor, clockSeed, change, periods>>

PeriodPasses ==
    /\ periods < MaxPeriods /\ periods' = periods + 1
    /\ UNCHANGED <<driver, bufferResets, hosted, clients, running, anchor, clockSeed, change, ioThread, stamps>>

AudioDriverNext ==
    \/ \E id \in ClientIds :
         \/ AddClient(id) \/ RemoveClient(id) \/ StartIO(id) \/ StartMicrophoneIO(id) \/ StopIO(id)
         \/ TimestampAnchor(id) \/ TimestampSeed(id)
    \/ InitializeDriver \/ InitializeMicrophone \/ ResetMicrophoneBuffer \/ StoreAnchor \/ AddSeed
    \/ CountRunning \/ PeriodPasses

AudioDriverSpec == AudioDriverInit /\ [][AudioDriverNext]_audioDriverVars

-----------------------------------------------------------------------------
(* Properties *)

\* The device reports itself running exactly while the table has a running client.
RunningCounted ==
    change = Unlocked => running = Cardinality({i \in 1..TableSlots : clients[i].running})

\* Core Audio takes timestamps of one seed for one clock: although the IO threads
\* read anchor and seed without the lock, while clients come, go, start and stop,
\* no two timestamps of a seed are counted from different anchors, later seeds
\* have later anchors, and the client count that decides a restart is the table's.
\* The microphone's buffer is emptied exactly once for each seed, and never under
\* the IO thread of a running client.
OneClockPerSeed ==
    /\ \A s, t \in stamps : s.seed <= t.seed => s.base <= t.base
    /\ RunningCounted
    /\ driver = "microphone" =>
         /\ change = Unlocked => bufferResets = clockSeed
         /\ change.step \in {"reset", "anchor", "seed"} => \A c \in ClientIds : ~ioThread[c].on
====
