---------------------------- MODULE EngineLifecycle ----------------------------
(***************************************************************************)
(* Start-up, run and shutdown of one C++ engine per symbol by the Rust     *)
(* orchestrator (main and run_ingestor of main.rs, run_from_shared_memory, *)
(* SharedMemoryManager and run_daemon on the other side).  The processes   *)
(* share only the named region, so every access to it is a step.           *)
(*                                                                         *)
(* Time enters in one place: 120 s of waiting for Rust outlast the 5 s     *)
(* during which Rust tries to open the region, so the engine gives up only *)
(* when Rust is no longer trying.                                          *)
(*                                                                         *)
(* Assumed of an earlier run: its engines that still run are past the      *)
(* creation of their regions, so all they can do to the names is unlink    *)
(* them.                                                                   *)
(***************************************************************************)
EXTENDS Naturals, FiniteSets

CONSTANTS
  Symbols,     \* the target symbols, each with its engine and its region
  OpenPolls,   \* attempts at ShmProducer::open (100 in the code)
  MaxTicks     \* bound of the model: ticks per symbol in the replayed file

Nobody == 0

ASSUME LifecycleAssumption ==
  /\ IsFiniteSet(Symbols) /\ Nobody \notin Symbols
  /\ OpenPolls \in Nat \ {0} /\ MaxTicks \in Nat

VARIABLES
  named,      \* does the name of the region resolve
  region,     \* what the region holds: SharedMemoryHeader, ticks queued
  engine,     \* where each engine is
  running,    \* running_ of each engine
  asked,      \* history: the engine was sent SIGINT or SIGTERM
  leftover,   \* symbols with an engine of an earlier run that still runs
  rust,       \* where the orchestrator is
  opening,    \* the symbol it is starting, Nobody when none
  polls,      \* attempts to open it so far
  opened,     \* symbols in producers
  signalled,  \* history: symbols for which signal_ready was called
  pushed,     \* history: ticks pushed for each symbol
  children,   \* symbols of the handles still in children
  ending,     \* the one whose kill is awaited, Nobody when none
  doomed      \* engines to which SIGKILL was sent

regionVars == <<named, region>>
engineVars == <<engine, running, asked, leftover>>
killVars   == <<children, ending, doomed>>
rustVars   == <<rust, opening, polls, opened, signalled, pushed, killVars>>
vars == <<regionVars, engineVars, rustVars>>

(* A region of zeros, with or without its pages. *)
Zeros(sized) == [sized |-> sized, magic |-> FALSE, rust_ready |-> FALSE,
                 cpp_ready |-> FALSE, ticks |-> 0]
Empty == Zeros(FALSE)

(* What an earlier run of the system left behind. *)
Stale == [sized |-> TRUE, magic |-> TRUE, rust_ready |-> TRUE,
          cpp_ready |-> TRUE, ticks |-> 0]

Dead == {"exited", "failed", "killed"}

-----------------------------------------------------------------------------
Init ==
  /\ named \in [Symbols -> BOOLEAN]
  /\ region = [s \in Symbols |-> IF named[s] THEN Stale ELSE Empty]
  /\ engine = [s \in Symbols |-> "none"]
  /\ running = [s \in Symbols |-> FALSE]
  /\ asked = [s \in Symbols |-> FALSE]
  /\ leftover \in SUBSET Symbols
  /\ rust = "starting"
  /\ opening = Nobody
  /\ polls = 0
  /\ opened = {}
  /\ signalled = {}
  /\ pushed = [s \in Symbols |-> 0]
  /\ children = {} /\ ending = Nobody /\ doomed = {}

-----------------------------------------------------------------------------
(* The engine of symbol s. *)

Goto(s, from, to) ==
  /\ engine[s] = from
  /\ engine' = [engine EXCEPT ![s] = to]

(* shm_open with O_CREAT | O_TRUNC: an object of size zero, the old one    *)
(* truncated if the name still resolves.                                   *)
CreateRegion(s) ==
  /\ Goto(s, "spawned", "created")
  /\ named' = [named EXCEPT ![s] = TRUE]
  /\ region' = [region EXCEPT ![s] = Empty]
  /\ UNCHANGED <<running, asked, leftover, rustVars>>

(* ftruncate, then mmap. *)
SizeRegion(s) ==
  /\ Goto(s, "created", "sized")
  /\ region' = [region EXCEPT ![s].sized = TRUE]
  /\ UNCHANGED <<named, running, asked, leftover, rustVars>>

ZeroRegion(s) ==
  /\ Goto(s, "sized", "zeroed")
  /\ region' = [region EXCEPT ![s] = Zeros(TRUE)]
  /\ UNCHANGED <<named, running, asked, leftover, rustVars>>

WriteMagic(s) ==
  /\ Goto(s, "zeroed", "magic")
  /\ region' = [region EXCEPT ![s].magic = TRUE]
  /\ UNCHANGED <<named, running, asked, leftover, rustVars>>

ClearReadyFlags(s) ==
  /\ Goto(s, "magic", "cleared")
  /\ region' = [region EXCEPT ![s].rust_ready = FALSE, ![s].cpp_ready = FALSE]
  /\ UNCHANGED <<named, running, asked, leftover, rustVars>>

ResetQueue(s) ==
  /\ Goto(s, "cleared", "waiting")
  /\ region' = [region EXCEPT ![s].ticks = 0]
  /\ UNCHANGED <<named, running, asked, leftover, rustVars>>

(* Mutant: the engine does not look at rust_ready. *)
GoLiveAtOnce(s) ==
  /\ Goto(s, "waiting", "live")
  /\ region' = [region EXCEPT ![s].cpp_ready = TRUE]
  /\ running' = [running EXCEPT ![s] = TRUE]
  /\ UNCHANGED <<named, asked, leftover, rustVars>>

(* wait_for_rust returns; signal_cpp_ready; running_ is set and the event  *)
(* loop entered.                                                           *)
GoLive(s) ==
  /\ region[s].rust_ready
  /\ Goto(s, "waiting", "live")
  /\ region' = [region EXCEPT ![s].cpp_ready = TRUE]
  /\ running' = [running EXCEPT ![s] = TRUE]
  /\ UNCHANGED <<named, asked, leftover, rustVars>>

(* Mutant: wait_for_rust has no deadline. *)
WaitForever(s) == FALSE

(* wait_for_rust throws.  Nobody catches: the process ends without running *)
(* the destructor that would unlink the name.                              *)
WaitTimesOut(s) ==
  /\ ~region[s].rust_ready
  /\ s \in opened \/ rust = "dead"
  /\ Goto(s, "waiting", "failed")
  /\ UNCHANGED <<regionVars, running, asked, leftover, rustVars>>

(* One turn of the event loop that pops a tick. *)
ProcessTick(s) ==
  /\ engine[s] = "live"
  /\ running[s]
  /\ region[s].ticks > 0
  /\ region' = [region EXCEPT ![s].ticks = @ - 1]
  /\ UNCHANGED <<named, engine, running, asked, leftover, rustVars>>

(* The loop ends, and the destructor unlinks the name. *)
LeaveLoop(s) ==
  /\ ~running[s]
  /\ Goto(s, "live", "exited")
  /\ named' = [named EXCEPT ![s] = FALSE]
  /\ UNCHANGED <<region, running, asked, leftover, rustVars>>

(* signal_handler, on SIGINT or SIGTERM: stop(). *)
Interrupt(s) ==
  /\ engine[s] \notin Dead \union {"none", "spawned"}
  /\ ~asked[s]
  /\ asked' = [asked EXCEPT ![s] = TRUE]
  /\ running' = [running EXCEPT ![s] = FALSE]
  /\ UNCHANGED <<regionVars, engine, leftover, rustVars>>

(* An exception, or a signal that is not handled (yet), ends the process;  *)
(* again the name stays.                                                   *)
EngineDies(s) ==
  /\ engine[s] \notin Dead \union {"none"}
  /\ engine' = [engine EXCEPT ![s] = "failed"]
  /\ UNCHANGED <<regionVars, running, asked, leftover, rustVars>>

(* The kernel delivers SIGKILL, whether or not the sender still lives. *)
EngineKilled(s) ==
  /\ s \in doomed
  /\ engine[s] \notin Dead
  /\ engine' = [engine EXCEPT ![s] = "killed"]
  /\ UNCHANGED <<regionVars, running, asked, leftover, rustVars>>

(* An engine whose orchestrator died in an earlier run is stopped at last. *)
(* It has the old region mapped, but unlinks whatever the name stands for. *)
LeftoverEnds(s) ==
  /\ s \in leftover
  /\ leftover' = leftover \ {s}
  /\ named' = [named EXCEPT ![s] = FALSE]
  /\ UNCHANGED <<region, engine, running, asked, rustVars>>

EngineStep(s) ==
  \/ CreateRegion(s) \/ SizeRegion(s) \/ ZeroRegion(s) \/ WriteMagic(s)
  \/ ClearReadyFlags(s) \/ ResetQueue(s) \/ GoLive(s) \/ WaitTimesOut(s)
  \/ ProcessTick(s) \/ LeaveLoop(s)

-----------------------------------------------------------------------------
(* The orchestrator. *)

(* Mutant: the region of an earlier run is left in place. *)
SpawnBesideOld(s) ==
  /\ rust = "starting" /\ opening = Nobody
  /\ engine[s] = "none"
  /\ engine' = [engine EXCEPT ![s] = "spawned"]
  /\ opening' = s
  /\ polls' = 0
  /\ children' = children \union {s}
  /\ UNCHANGED <<regionVars, running, asked, leftover, rust, opened,
                 signalled, pushed, ending, doomed>>

(* remove_file on the region's file, then spawn; the handle goes into      *)
(* children before the region is looked for.                               *)
SpawnEngine(s) ==
  /\ rust = "starting" /\ opening = Nobody
  /\ engine[s] = "none"
  /\ named' = [named EXCEPT ![s] = FALSE]
  /\ engine' = [engine EXCEPT ![s] = "spawned"]
  /\ opening' = s
  /\ polls' = 0
  /\ children' = children \union {s}
  /\ UNCHANGED <<region, running, asked, leftover, rust, opened,
                 signalled, pushed, ending, doomed>>

(* ShmProducer::open up to its mmap, which succeeds on an object of any    *)
(* size.                                                                   *)
MapRegion ==
  /\ rust = "starting" /\ opening # Nobody
  /\ named[opening]
  /\ rust' = "mapped"
  /\ UNCHANGED <<regionVars, engineVars, opening, polls, opened, signalled, pushed, killVars>>

(* Mutant: one attempt too many. *)
OpenFailsLate ==
  /\ \/ rust = "starting" /\ opening # Nobody /\ ~named[opening]
     \/ rust = "mapped" /\ region[opening].sized /\ ~region[opening].magic
  /\ polls' = polls + 1
  /\ rust' = IF polls + 1 > OpenPolls THEN "dead" ELSE "starting"
  /\ UNCHANGED <<regionVars, engineVars, opening, opened, signalled, pushed, killVars>>

(* An attempt failed: no such name yet, or no magic in the region.  After  *)
(* the last one the orchestrator panics.                                   *)
OpenFails ==
  /\ \/ rust = "starting" /\ opening # Nobody /\ ~named[opening]
     \/ rust = "mapped" /\ region[opening].sized /\ ~region[opening].magic
  /\ polls' = polls + 1
  /\ rust' = IF polls + 1 >= OpenPolls THEN "dead" ELSE "starting"
  /\ UNCHANGED <<regionVars, engineVars, opening, opened, signalled, pushed, killVars>>

(* Reading the magic of a region that has no pages yet: SIGBUS. *)
OpenFaults ==
  /\ rust = "mapped" /\ ~region[opening].sized
  /\ rust' = "dead"
  /\ UNCHANGED <<regionVars, engineVars, opening, polls, opened, signalled, pushed, killVars>>

OpenSucceeds ==
  /\ rust = "mapped" /\ region[opening].sized /\ region[opening].magic
  /\ rust' = "opened"
  /\ UNCHANGED <<regionVars, engineVars, opening, polls, opened, signalled, pushed, killVars>>

(* signal_ready, and producers.insert. *)
SignalReady ==
  /\ rust = "opened"
  /\ region' = [region EXCEPT ![opening].rust_ready = TRUE]
  /\ signalled' = signalled \union {opening}
  /\ opened' = opened \union {opening}
  /\ opening' = Nobody
  /\ rust' = "starting"
  /\ UNCHANGED <<named, engineVars, polls, pushed, killVars>>

(* All engines started: run_ingestor finds the dataset, or exits at once.  *)
StartIngest ==
  /\ rust = "starting" /\ opened = Symbols
  /\ rust' \in {"ingesting", "dead"}
  /\ UNCHANGED <<regionVars, engineVars, opening, polls, opened, signalled, pushed, killVars>>

PushTick(s) ==
  /\ rust = "ingesting"
  /\ pushed[s] < MaxTicks
  /\ region' = [region EXCEPT ![s].ticks = @ + 1]
  /\ pushed' = [pushed EXCEPT ![s] = @ + 1]
  /\ UNCHANGED <<named, engineVars, rust, opening, polls, opened, signalled, killVars>>

(* End of the file and two seconds of sleep, or a panic of run_ingestor,   *)
(* which drops done_tx: done_rx is ready, and the loop over children       *)
(* starts.                                                                 *)
FinishFile ==
  /\ rust = "ingesting"
  /\ rust' = "killing"
  /\ UNCHANGED <<regionVars, engineVars, opening, polls, opened, signalled, pushed, killVars>>

(* Mutant: the child is asked to stop, and waited for. *)
KillSoftly(s) ==
  /\ rust = "killing" /\ ending = Nobody
  /\ s \in children
  /\ ending' = s
  /\ asked' = [asked EXCEPT ![s] = TRUE]
  /\ running' = [running EXCEPT ![s] = FALSE]
  /\ UNCHANGED <<regionVars, engine, leftover, rust, opening, polls, opened,
                 signalled, pushed, children, doomed>>

(* The loop takes the next handle, in whatever order they were spawned,    *)
(* and child.kill() sends SIGKILL; the engine goes on until the kernel     *)
(* delivers it, and it may have ended long before.                         *)
Kill(s) ==
  /\ rust = "killing" /\ ending = Nobody
  /\ s \in children
  /\ ending' = s
  /\ doomed' = doomed \union {s}
  /\ UNCHANGED <<regionVars, engineVars, rust, opening, polls, opened, signalled,
                 pushed, children>>

(* Mutant: the signal is sent, but the end of the child not awaited. *)
ReapAtOnce(s) ==
  /\ rust = "killing" /\ ending = s
  /\ children' = children \ {s}
  /\ ending' = Nobody
  /\ UNCHANGED <<regionVars, engineVars, rust, opening, polls, opened, signalled,
                 pushed, doomed>>

(* child.kill().await and child.wait().await return once the child has     *)
(* ended, of whatever cause, and the handle is dropped.                    *)
Reap(s) ==
  /\ rust = "killing" /\ ending = s
  /\ engine[s] \in Dead
  /\ children' = children \ {s}
  /\ ending' = Nobody
  /\ UNCHANGED <<regionVars, engineVars, rust, opening, polls, opened, signalled,
                 pushed, doomed>>

(* The loop has run out of handles. *)
Exit ==
  /\ rust = "killing" /\ children = {}
  /\ rust' = "exited"
  /\ UNCHANGED <<regionVars, engineVars, opening, polls, opened, signalled, pushed, killVars>>

(* The orchestrator is interrupted or crashes. *)
Crash ==
  /\ rust \notin {"exited", "dead"}
  /\ rust' = "dead"
  /\ UNCHANGED <<regionVars, engineVars, opening, polls, opened, signalled, pushed, killVars>>

RustStep ==
  \/ \E s \in Symbols : SpawnEngine(s) \/ PushTick(s) \/ Kill(s) \/ Reap(s)
  \/ MapRegion \/ OpenFails \/ OpenFaults \/ OpenSucceeds \/ SignalReady
  \/ StartIngest \/ FinishFile \/ Exit

Next ==
  \/ RustStep \/ Crash
  \/ \E s \in Symbols :
       \/ EngineStep(s) \/ Interrupt(s) \/ EngineDies(s) \/ EngineKilled(s)
       \/ LeftoverEnds(s)

(* Every process keeps running and SIGKILL is delivered in the end; nothing *)
(* makes a process crash or be interrupted.                                *)
Fairness ==
  /\ WF_vars(RustStep)
  /\ \A s \in Symbols : WF_vars(EngineStep(s)) /\ WF_vars(EngineKilled(s))

Spec == Init /\ [][Next]_vars /\ Fairness

-----------------------------------------------------------------------------
(* Properties. *)

(* Type invariant: no process is ever in a state its code has not. *)
TypeOK ==
  /\ named \in [Symbols -> BOOLEAN]
  /\ region \in [Symbols -> [sized : BOOLEAN, magic : BOOLEAN, rust_ready : BOOLEAN,
                             cpp_ready : BOOLEAN, ticks : 0 .. MaxTicks]]
  /\ engine \in [Symbols -> Dead \union
       {"none", "spawned", "created", "sized", "zeroed", "magic", "cleared", "waiting", "live"}]
  /\ running \in [Symbols -> BOOLEAN]
  /\ asked \in [Symbols -> BOOLEAN]
  /\ leftover \subseteq Symbols
  /\ rust \in {"starting", "mapped", "opened", "ingesting", "killing", "exited", "dead"}
  /\ opening \in Symbols \union {Nobody}
  /\ polls \in 0 .. OpenPolls
  /\ opened \subseteq Symbols /\ signalled \subseteq Symbols
  /\ pushed \in [Symbols -> 0 .. MaxTicks]
  /\ children \subseteq Symbols /\ doomed \subseteq Symbols
  /\ ending \in Symbols \union {Nobody}

(* Rust never takes the region of an earlier run for that of the engine it *)
(* has just spawned: when it maps one, this engine has created it, and     *)
(* when it accepts one, this engine has written its header.                *)
NeverOpensStaleRegion ==
  /\ rust = "mapped" => engine[opening] \notin {"none", "spawned"}
  /\ \A s \in opened \union (IF rust = "opened" THEN {opening} ELSE {}) :
       engine[s] \notin {"none", "spawned", "created", "sized", "zeroed"}

(* An engine enters its event loop only after Rust has signalled it in     *)
(* this run, however many flags an earlier run left behind.                *)
LiveOnlyAfterSignal ==
  \A s \in Symbols : engine[s] = "live" => s \in signalled

(* The orchestrator has a handle of every engine that runs, from its spawn *)
(* to its end, whichever engines die, are waited for or are being opened;  *)
(* so that a clean exit, which looks at the handles only, leaves no engine *)
(* behind.                                                                 *)
NoOrphanAfterExit ==
  /\ \A s \in Symbols : engine[s] \notin Dead \union {"none"} => s \in children
  /\ rust = "exited" => \A s \in Symbols : engine[s] \in Dead

(* No engine waits for Rust forever: it goes live or gives up, also when   *)
(* the orchestrator dies, or its signal comes too early.                   *)
WaitingEnds ==
  \A s \in Symbols : engine[s] = "waiting" ~> engine[s] # "waiting"

(* The orchestrator's start-up and run come to an end, one way or the      *)
(* other.                                                                  *)
OrchestratorEnds == <>(rust \in {"exited", "dead"})

(* "Rust opens the SAME region ... and sets rust_ready = 1.  C++ wakes up": *)
(* once Rust has signalled a waiting engine, the flag is there for it.     *)
SignalIsNotLost ==
  \A s \in signalled : engine[s] = "waiting" => region[s].rust_ready

(* "Press Ctrl+C to stop": an engine asked to stop leaves its loop. *)
StopIsHonoured ==
  \A s \in Symbols : asked[s] ~> engine[s] \in Dead
=============================================================================
