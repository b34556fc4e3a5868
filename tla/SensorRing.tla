----------------------------- MODULE SensorRing -----------------------------
(***************************************************************************)
(* The injected sensor and its ring (crates/injectee/src, driver/secoutfall*)
(* /Injection.cpp): the driver injects a DLL into a new process, the DLL   *)
(* shakes hands with the driver over the control device and then reports   *)
(* hooked calls through a ring in shared memory, which the drain of the    *)
(* agent empties without a lock while the process runs, calls and exits.   *)
(*                                                                         *)
(* One process id, used by up to Lives processes one after the other.  A   *)
(* call is known by the index its emit claimed, so a field holding i was   *)
(* written by the emit that claimed i.  What is lock protected in the      *)
(* driver is one step here, what is not is as many steps as it has         *)
(* accesses that matter.                                                   *)
(*                                                                         *)
(* The geometry the driver wrote into the ring is a constant here.  The    *)
(* driver reads SlotCount and SlotSize again from the shared memory for    *)
(* every slot (Injection.cpp:893-902), so what follows is about hosts that *)
(* leave the two as they are.                                              *)
(***************************************************************************)
EXTENDS Naturals, FiniteSets

CONSTANTS
  Lives,       \* processes that get the process id
  Callers,     \* threads of the process that make hooked calls
  MaxCalls,    \* bound: life -> hooked calls of that process
  SlotCount,   \* SENSOR_SLOT_COUNT
  DrainCap,    \* slots one drain takes from a ring: 256 in the driver
  View         \* system addresses a ring can be mapped at

HandshakeTries == 3

ASSUME RingAssumption ==
  /\ Lives \in Nat \ {0} /\ MaxCalls \in [1 .. Lives -> Nat]
  /\ SlotCount \in Nat \ {0} /\ DrainCap \in Nat \ {0} /\ "none" \notin View

VARIABLES
  host,      \* [life, alive]: the process that has the id
  resolved,  \* LdrLoadDllRvaResolved
  ledger,    \* the id's InjectionEntry or NoEntry
  attempts,  \* attempts to inject whose lock is dropped
  apcs,      \* life -> APCs queued to its first thread
  sensor,    \* [pc, tries]: the sensor's init thread in the live process
  device,    \* who has the control device open
  views,     \* address -> the ring mapped there or Unmapped
  doomed,    \* address of an unlinked entry not yet torn down, or NoView
  emitter,   \* caller -> [pc, claimed]
  drain,     \* the drain in progress
  called,    \* BehaviorCall records the drain has pushed
  counted,   \* life -> calls of its ring in SensorEventsDropped or, for want of a record, in AllocFailures
  misled,    \* lives whose entry or ring another life's late step has changed
  crashed    \* the drain touched an address that is not mapped

ringVars == <<host, resolved, ledger, attempts, apcs, sensor, device, views, doomed,
              emitter, drain, called, counted, misled, crashed>>

NoEntry == [state |-> "none"]
NoView == "none"
Unmapped == [life |-> 0]
NoEmit == [pc |-> "idle", claimed |-> 0]
NoDrain == [pc |-> "idle"]
Life == 1 .. Lives
Slot == 0 .. SlotCount - 1

RingInit ==
  /\ host = [life |-> 0, alive |-> FALSE]
  /\ resolved = FALSE /\ ledger = NoEntry /\ attempts = {}
  /\ apcs = [l \in Life |-> 0]
  /\ sensor = [pc |-> "absent", tries |-> 0]
  /\ device = "free"
  /\ views = [v \in View |-> Unmapped] /\ doomed = NoView
  /\ emitter = [c \in Callers |-> NoEmit]
  /\ drain = NoDrain /\ called = {} /\ counted = [l \in Life |-> 0]
  /\ misled = {} /\ crashed = FALSE
-----------------------------------------------------------------------------
(* The ledger: Injection.cpp, in the callbacks for processes and images    *)

\* A new process, unless injection is disarmed, the name is on a blocklist or
\* the entry cannot be allocated.
InjectionOnProcessCreate ==
  /\ ~host.alive /\ host.life < Lives /\ doomed = NoView
  /\ host' = [life |-> host.life + 1, alive |-> TRUE]
  /\ sensor' = [pc |-> "absent", tries |-> 0]
  /\ \E wanted \in BOOLEAN :
       ledger' = IF wanted THEN [life |-> host.life + 1, state |-> "PendingThread",
                                 thread |-> FALSE, base |-> "none", view |-> NoView, cursor |-> 0]
                           ELSE NoEntry
  /\ UNCHANGED <<resolved, attempts, apcs, device, views, doomed, emitter, drain, called,
                 counted, misled, crashed>>

\* The claim of TryInjectLocked without the exchange that makes it exclusive.
TryInjectUnclaimed(entry, rva) ==
  IF entry.thread /\ entry.base # "none" /\ rva
    THEN /\ ledger' = [entry EXCEPT !.state = "Injected"]
         /\ attempts' = attempts \cup {[life |-> entry.life, found |-> "unknown"]}
    ELSE ledger' = entry /\ UNCHANGED attempts

\* The claim of the attempt; the lock is dropped before the process is looked up.
TryInjectLocked(entry, rva) ==
  IF entry.thread /\ entry.base # "none" /\ rva /\ entry.state = "Ready"
    THEN /\ ledger' = [entry EXCEPT !.state = "Injected"]
         /\ attempts' = attempts \cup {[life |-> entry.life, found |-> "unknown"]}
    ELSE ledger' = entry /\ UNCHANGED attempts

\* Of every new thread; the first one is recorded.
InjectionOnFirstThread ==
  /\ host.alive /\ ledger # NoEntry
  /\ LET target == IF ledger.base # "none" THEN "Ready" ELSE "PendingNtdll"
         entry == IF ledger.thread THEN ledger
                  ELSE [ledger EXCEPT !.thread = TRUE,
                                      !.state = IF @ = "PendingThread" THEN target ELSE @]
     IN TryInjectLocked(entry, resolved)
  /\ UNCHANGED <<host, resolved, apcs, sensor, device, views, doomed, emitter, drain, called,
                 counted, misled, crashed>>

\* Of every image, the executable's included: the first base is recorded
\* whatever the image is.  ntdll also tells where LdrLoadDll is.
InjectionOnImageLoad(image) ==
  /\ host.alive
  /\ \E walks \in BOOLEAN : resolved' = (resolved \/ (image = "ntdll" /\ walks))
  /\ IF ledger = NoEntry
       THEN UNCHANGED <<ledger, attempts>>
       ELSE LET expected == IF ledger.thread THEN "PendingNtdll" ELSE "PendingThread"
                entry == IF ledger.base # "none" THEN ledger
                         ELSE [ledger EXCEPT !.base = image,
                                             !.state = IF @ = expected THEN "Ready" ELSE @]
            IN TryInjectLocked(entry, resolved')
  /\ UNCHANGED <<host, apcs, sensor, device, views, doomed, emitter, drain, called, counted,
                 misled, crashed>>

\* PsLookupProcessByProcessId finds whoever has the id now.  An APC can be
\* queued to the thread of the snapshot only while its own process lives.
InjectSnapshot(a) ==
  /\ a.found = "unknown"
  /\ \E found \in {"gone", "failed", "queued"} :
       /\ (found = "gone") = ~host.alive
       /\ found = "queued" => host.life = a.life
       /\ attempts' = (attempts \ {a}) \cup {[a EXCEPT !.found = found]}
       /\ apcs' = IF found = "queued" THEN [apcs EXCEPT ![a.life] = @ + 1] ELSE apcs
  /\ UNCHANGED <<host, resolved, ledger, sensor, device, views, doomed, emitter, drain, called,
                 counted, misled, crashed>>

\* The lock again, and whatever entry the id has now.
InjectFixup(a) ==
  /\ a.found # "unknown"
  /\ attempts' = attempts \ {a}
  /\ IF ledger = NoEntry \/ a.found = "queued"
       THEN UNCHANGED <<ledger, misled>>
       ELSE /\ ledger' = [ledger EXCEPT !.state = IF a.found = "gone" THEN "Ready" ELSE "Failed"]
            /\ misled' = IF ledger.life = a.life THEN misled ELSE misled \cup {ledger.life}
  /\ UNCHANGED <<host, resolved, apcs, sensor, device, views, doomed, emitter, drain, called,
                 counted, crashed>>

\* The entry is unlinked under the lock and torn down after it.
InjectionOnProcessExit ==
  /\ host.alive
  /\ host' = [host EXCEPT !.alive = FALSE]
  /\ device' = IF device = "sensor" THEN "free" ELSE device
  /\ doomed' = IF ledger = NoEntry THEN NoView ELSE ledger.view
  /\ ledger' = NoEntry
  /\ sensor' = [sensor EXCEPT !.pc = "absent"]
  /\ emitter' = [c \in Callers |-> NoEmit]
  /\ UNCHANGED <<resolved, attempts, apcs, views, drain, called, counted, misled, crashed>>

DestroyLedgerEntry ==
  /\ doomed # NoView
  /\ views' = [views EXCEPT ![doomed] = Unmapped]
  /\ doomed' = NoView
  /\ UNCHANGED <<host, resolved, ledger, attempts, apcs, sensor, device, emitter, drain, called,
                 counted, misled, crashed>>
-----------------------------------------------------------------------------
(* The sensor's init thread: sensor.rs, hooking.rs, and the driver's answers*)

\* The APC loads the DLL when it was given the base of ntdll, and its DllMain
\* spawns the init thread; a code integrity check may refuse the DLL.  With
\* another base the APC runs whatever lies there, and the process ends.
ApcRuns ==
  /\ host.alive /\ apcs[host.life] > 0 /\ sensor.pc = "absent"
  /\ ledger # NoEntry
  /\ IF ledger.base = "ntdll"
       THEN \E pc \in {"start", "idle"} : sensor' = [sensor EXCEPT !.pc = pc]
       ELSE sensor' = [sensor EXCEPT !.pc = "wild"]
  /\ UNCHANGED <<host, resolved, ledger, attempts, apcs, device, views, doomed, emitter, drain,
                 called, counted, misled, crashed>>

\* A handshake that failed closes the device and is tried again two seconds
\* later, three times in all.
TryFailed ==
  sensor' = [tries |-> sensor.tries + 1,
             pc |-> IF sensor.tries + 1 < HandshakeTries THEN "start" ELSE "idle"]

\* The device is exclusive (secoutfall.cpp, IoCreateDeviceSecure): whoever has it
\* open keeps all others out.
OpenDevice ==
  /\ sensor.pc = "start"
  /\ IF device = "free"
       THEN device' = "sensor" /\ sensor' = [sensor EXCEPT !.pc = "challenge"]
       ELSE TryFailed /\ UNCHANGED device
  /\ UNCHANGED <<host, resolved, ledger, attempts, apcs, views, doomed, emitter, drain, called,
                 counted, misled, crashed>>

FreshRing(life) ==
  [life |-> life, active |-> FALSE, write |-> 0, dropped |-> 0, overrun |-> {},
   slot |-> [s \in Slot |-> [seq |-> 0, api |-> 0, thread |-> 0, args |-> 0]]]

\* The driver answers for an injected entry: with the entry's own ring when an
\* earlier try left one there, with a fresh one otherwise.  It runs on a thread
\* of the process, which cannot end before it returns.
Answered ==
  /\ ledger # NoEntry /\ ledger.state = "Injected"
  /\ IF ledger.view # NoView
       THEN UNCHANGED <<ledger, views>>
       ELSE \E v \in View :
              /\ views[v] = Unmapped
              /\ ledger' = [ledger EXCEPT !.view = v, !.cursor = 0]
              /\ views' = [views EXCEPT ![v] = FreshRing(host.life)]

\* handshake: the challenge, which is refused or fails for want of memory, and
\* the mapping of the ring, which may fail too.
Challenge ==
  /\ sensor.pc = "challenge"
  /\ \/ /\ Answered
        /\ \/ sensor' = [sensor EXCEPT !.pc = "register"] /\ UNCHANGED device
           \/ TryFailed /\ device' = "free"
     \/ TryFailed /\ device' = "free" /\ UNCHANGED <<ledger, views>>
  /\ UNCHANGED <<host, resolved, attempts, apcs, doomed, emitter, drain, called, counted, misled,
                 crashed>>

\* One-shot: the nonce is the entry's own, and the ring is activated.
Registered ==
  /\ ledger.state = "Injected"
  /\ ledger' = [ledger EXCEPT !.state = "Registered"]
  /\ views' = [views EXCEPT ![ledger.view].active = TRUE]

\* handshake: the register, and the check of the ring's geometry, which the
\* driver has set to what the sensor expects.
Register ==
  /\ sensor.pc = "register" /\ device' = "free"
  /\ \/ Registered /\ sensor' = [sensor EXCEPT !.pc = "wait"]
     \/ ledger.state # "Injected" /\ TryFailed /\ UNCHANGED <<ledger, views>>
  /\ UNCHANGED <<host, resolved, attempts, apcs, doomed, emitter, drain, called, counted, misled,
                 crashed>>

\* The sensor stays idle when the ring is not active within 30 seconds.
WaitActive ==
  /\ sensor.pc = "wait"
  /\ sensor' = [sensor EXCEPT !.pc = IF views[ledger.view].active THEN "active" ELSE "idle"]
  /\ UNCHANGED <<host, resolved, ledger, attempts, apcs, device, views, doomed, emitter, drain,
                 called, counted, misled, crashed>>

Hooks == {"NtCreateFile", "NtWriteFile", "NtCreateThreadEx", "NtDelayExecution"}

\* Installing a hook resolves its symbol and enables its detour, or fails: any
\* may fail on its own.
Installs == SUBSET Hooks

\* Every hook is tried; those that failed are reported and forgotten, those
\* that did not emit from here on.
InstallHooks ==
  /\ sensor.pc = "active"
  /\ \E installed \in Installs :
       sensor' = [sensor EXCEPT !.pc = IF installed = {} THEN "idle" ELSE "hooked"]
  /\ UNCHANGED <<host, resolved, ledger, attempts, apcs, device, views, doomed, emitter, drain,
                 called, counted, misled, crashed>>
-----------------------------------------------------------------------------
(* emit, on any thread of the process whose call is hooked                 *)

Ring == views[ledger.view]
SlotOf(claimed) == claimed % SlotCount
Mark(claimed) == claimed + 1
Reached == IF drain # NoDrain /\ drain.life = ledger.life THEN drain.cursor ELSE ledger.cursor

\* A detour reports the call and passes it on unchanged.
Detour(c) == sensor.pc = "hooked" /\ emitter[c].pc = "idle"

\* The ring is mapped and active; fetch_add claims a slot, also one whose last
\* call is not drained yet (overrun remembers these slots).
EmitClaim(c) ==
  /\ Detour(c)
  /\ Ring.active /\ Ring.write < MaxCalls[host.life]
  /\ emitter' = [emitter EXCEPT ![c] = [pc |-> "head", claimed |-> Ring.write]]
  /\ views' = [views EXCEPT
       ![ledger.view].write = @ + 1,
       ![ledger.view].overrun = IF Ring.write < Reached + SlotCount THEN @
                                ELSE @ \cup {SlotOf(Ring.write)}]
  /\ UNCHANGED <<host, resolved, ledger, attempts, apcs, sensor, device, doomed, drain, called,
                 counted, misled, crashed>>

\* Overflow is told from the sequence the slot still has; then the words for
\* the API and the thread.
EmitHead(c) ==
  /\ emitter[c].pc = "head"
  /\ LET i == emitter[c].claimed
         previous == Ring.slot[SlotOf(i)].seq
         over == previous # 0 /\ i + 1 >= previous + SlotCount
     IN views' = [views EXCEPT
          ![ledger.view].dropped = IF over THEN @ + 1 ELSE @,
          ![ledger.view].slot[SlotOf(i)] = [@ EXCEPT !.api = Mark(i), !.thread = Mark(i)]]
  /\ emitter' = [emitter EXCEPT ![c].pc = "args"]
  /\ UNCHANGED <<host, resolved, ledger, attempts, apcs, sensor, device, doomed, drain, called,
                 counted, misled, crashed>>

\* A commit that comes before the arguments.
EmitArgsEarly(c) ==
  /\ emitter[c].pc = "args"
  /\ LET i == emitter[c].claimed
     IN views' = [views EXCEPT ![ledger.view].slot[SlotOf(i)].seq = Mark(i)]
  /\ emitter' = [emitter EXCEPT ![c].pc = "commit"]
  /\ UNCHANGED <<host, resolved, ledger, attempts, apcs, sensor, device, doomed, drain, called,
                 counted, misled, crashed>>

EmitArgs(c) ==
  /\ emitter[c].pc = "args"
  /\ LET i == emitter[c].claimed
     IN views' = [views EXCEPT ![ledger.view].slot[SlotOf(i)].args = Mark(i)]
  /\ emitter' = [emitter EXCEPT ![c].pc = "commit"]
  /\ UNCHANGED <<host, resolved, ledger, attempts, apcs, sensor, device, doomed, drain, called,
                 counted, misled, crashed>>

\* The sequence is stored last and releases the payload.
EmitCommit(c) ==
  /\ emitter[c].pc = "commit"
  /\ LET i == emitter[c].claimed
     IN views' = [views EXCEPT ![ledger.view].slot[SlotOf(i)].seq = Mark(i)]
  /\ emitter' = [emitter EXCEPT ![c] = NoEmit]
  /\ UNCHANGED <<host, resolved, ledger, attempts, apcs, sensor, device, doomed, drain, called,
                 counted, misled, crashed>>
-----------------------------------------------------------------------------
(* The drain of the agent: InjectionDrainRings, without the ledger's lock  *)

AgentOpens ==
  /\ device = "free" /\ device' = "agent"
  /\ UNCHANGED <<host, resolved, ledger, attempts, apcs, sensor, views, doomed, emitter, drain,
                 called, counted, misled, crashed>>

AgentCloses ==
  /\ device = "agent" /\ drain = NoDrain /\ device' = "free"
  /\ UNCHANGED <<host, resolved, ledger, attempts, apcs, sensor, views, doomed, emitter, drain,
                 called, counted, misled, crashed>>

\* Under the lock: the rings of registered entries, and how far each is read.
DrainSnapshot ==
  /\ device = "agent" /\ drain = NoDrain
  /\ ledger.state = "Registered" /\ ledger.view # NoView
  /\ drain' = [pc |-> "begin", view |-> ledger.view, life |-> ledger.life,
               cursor |-> ledger.cursor, end |-> 0, taken |-> 0, api |-> 0, thread |-> 0]
  /\ UNCHANGED <<host, resolved, ledger, attempts, apcs, sensor, device, views, doomed, emitter,
                 called, counted, misled, crashed>>

Seen == views[drain.view]

\* Every access to the ring: at an address that is no longer mapped it ends
\* the machine, at one mapped anew it is to another life's ring.
Touch(pc) ==
  /\ drain.pc = pc
  /\ crashed' = (Seen = Unmapped)
  /\ misled' = IF Seen.life \in {0, drain.life} THEN misled ELSE misled \cup {Seen.life}
  /\ UNCHANGED <<host, resolved, ledger, attempts, apcs, sensor, device, views, doomed, emitter>>

\* Slots the producers have lapped are skipped and counted.
DrainBegin ==
  /\ Touch("begin")
  /\ UNCHANGED called
  /\ IF crashed' \/ ~Seen.active
       THEN drain' = NoDrain /\ UNCHANGED counted
       ELSE LET behind == Seen.write > drain.cursor + SlotCount
                from == IF behind THEN Seen.write - SlotCount ELSE drain.cursor
            IN /\ drain' = [drain EXCEPT !.pc = "slot", !.cursor = from, !.end = Seen.write]
               /\ counted' = [counted EXCEPT ![Seen.life] = @ + (from - drain.cursor)]

\* The sequence of the next slot; one not committed ends the drain of the ring.
DrainSlot ==
  /\ Touch("slot")
  /\ drain' = IF crashed' THEN NoDrain
              ELSE IF /\ drain.taken < DrainCap /\ drain.cursor < drain.end
                      /\ Seen.slot[SlotOf(drain.cursor)].seq = Mark(drain.cursor)
                THEN [drain EXCEPT !.pc = "head"] ELSE [drain EXCEPT !.pc = "back"]
  /\ UNCHANGED <<called, counted>>

DrainHead ==
  /\ Touch("head")
  /\ drain' = IF crashed' THEN NoDrain
              ELSE [drain EXCEPT !.pc = "args", !.api = Seen.slot[SlotOf(drain.cursor)].api,
                                 !.thread = Seen.slot[SlotOf(drain.cursor)].thread]
  /\ UNCHANGED <<called, counted>>

\* InjectionEmitBehaviorCall takes the thread first and the API second, and is
\* given the slot's words in the slot's order.  The process is the driver's.
BehaviorCall(first, second, args) ==
  [life |-> drain.life, ThreadId |-> first, Api |-> second, Args |-> args,
   ring |-> Seen.life, index |-> drain.cursor,
   lapped |-> SlotOf(drain.cursor) \in Seen.overrun]

\* EmitBehaviorCallInternal gives up when AllocRecord fails, which counts it; the
\* drain does not learn of it and goes on to the next slot.
DrainArgs ==
  /\ Touch("args")
  /\ IF crashed'
       THEN drain' = NoDrain /\ UNCHANGED <<called, counted>>
       ELSE /\ \/ /\ called' = called \cup {BehaviorCall(<<"api", drain.api>>, <<"thread", drain.thread>>,
                                                         Seen.slot[SlotOf(drain.cursor)].args)}
                  /\ UNCHANGED counted
               \/ counted' = [counted EXCEPT ![Seen.life] = @ + 1] /\ UNCHANGED called
            /\ drain' = [drain EXCEPT !.pc = "slot", !.cursor = @ + 1, !.taken = @ + 1,
                                      !.api = 0, !.thread = 0]

\* The cursor goes to the entry whose ring has the address, under the lock.
WriteBack ==
  /\ drain.pc = "back" /\ drain' = NoDrain
  /\ IF ledger # NoEntry /\ ledger.view = drain.view
       THEN /\ ledger' = [ledger EXCEPT !.cursor = drain.cursor]
            /\ misled' = IF ledger.life = drain.life THEN misled ELSE misled \cup {ledger.life}
       ELSE UNCHANGED <<ledger, misled>>
  /\ UNCHANGED <<host, resolved, attempts, apcs, sensor, device, views, doomed, emitter, called,
                 counted, crashed>>
-----------------------------------------------------------------------------
Ledger ==
  \/ InjectionOnProcessCreate \/ InjectionOnFirstThread
  \/ \E image \in {"exe", "ntdll"} : InjectionOnImageLoad(image)
  \/ \E a \in attempts : InjectSnapshot(a) \/ InjectFixup(a)
  \/ InjectionOnProcessExit \/ DestroyLedgerEntry

Sensor ==
  \/ ApcRuns \/ OpenDevice \/ Challenge \/ Register \/ WaitActive \/ InstallHooks
  \/ \E c \in Callers : EmitClaim(c) \/ EmitHead(c) \/ EmitArgs(c) \/ EmitCommit(c)

Drain ==
  \/ AgentOpens \/ AgentCloses
  \/ DrainSnapshot \/ DrainBegin \/ DrainSlot \/ DrainHead \/ DrainArgs \/ WriteBack

\* A crash of the machine ends everything.
RingNext == ~crashed /\ (Ledger \/ Sensor \/ Drain)

RingSpec == RingInit /\ [][RingNext]_ringVars
-----------------------------------------------------------------------------
(* Properties                                                              *)

\* Whatever the interleaving of emits, drains, handshakes and exits
\* (Injection.cpp, InjectionDrainRings), every index below the cursor of a ring
\* was pushed exactly once, or is in a counter of the driver: SensorEventsDropped
\* when it was lapped, AllocFailures when there was no memory for its record
\* (SensorEventsDrained counts that one as well, Injection.cpp:917); and a record names the process
\* whose ring it came from and carries the words of one call only, the one that
\* claimed the index ("slot sequences make torn/garbage reads detectable"), except
\* for a slot claimed again before it was drained.
RingExact ==
  /\ ledger # NoEntry =>
       Cardinality({r \in called : r.ring = ledger.life}) + counted[ledger.life] = Reached
  /\ \A r \in called :
       /\ r.life = r.ring
       /\ r.lapped \/ (/\ r.ThreadId[2] = Mark(r.index) /\ r.Api[2] = Mark(r.index)
                       /\ r.Args = Mark(r.index))

\* A process is injected at most once, in whichever order its first thread and
\* its images arrive, and only an injected one gets a ring (the claim of
\* TryInjectLocked and the gate of the challenge); unless the fixup of an attempt
\* on the process that had the id before has reset the entry.
InjectedOnce ==
  \A l \in Life \ misled :
    /\ apcs[l] <= 1
    /\ (\E v \in View : views[v].life = l) => apcs[l] = 1

\* "a hostile host can only damage its own ring (skipped + counted, never the
\* kernel)": the drain touches no address that is not mapped.
DrainSparesKernel == ~crashed
=============================================================================
