------------------------ MODULE EngineLifecycleProofs ------------------------
(***************************************************************************)
(* Proofs about EngineLifecycle, for every set of symbols, every number of *)
(* attempts and every length of the file: the type invariant, and the      *)
(* three safety invariants of the handshake and the shutdown.              *)
(***************************************************************************)
EXTENDS EngineLifecycle, TLAPS

(* The engine has a region of its own and still runs. *)
Attached == {"created", "sized", "zeroed", "magic", "cleared", "waiting", "live"}

(* The orchestrator starts one engine at a time, has spawned the one whose *)
(* region it opens, and has an attempt left while it tries.                *)
OneAtATime ==
  /\ rust \in {"mapped", "opened"} => opening \in Symbols
  /\ opening \in Symbols => engine[opening] # "none"
  /\ rust \in {"starting", "mapped", "opened"} => polls < OpenPolls

(* Nothing of an earlier run is left where it could be mistaken: the name  *)
(* is gone when an engine starts, the magic until it has written it, the   *)
(* flag until Rust has signalled.                                          *)
FreshRegions ==
  \A s \in Symbols :
    /\ engine[s] = "spawned" => ~named[s]
    /\ engine[s] \in {"created", "sized", "zeroed"} => ~region[s].magic
    /\ engine[s] \in Attached /\ region[s].rust_ready => s \in signalled

(* A ring holds no more ticks than were pushed into it. *)
TicksPushed == \A s \in Symbols : region[s].ticks <= pushed[s]

(* When the file is replayed, every engine has been spawned. *)
AllStarted ==
  rust \in {"ingesting", "killing", "exited"} => \A s \in Symbols : engine[s] # "none"

IInv ==
  /\ TypeOK /\ OneAtATime /\ FreshRegions /\ TicksPushed /\ AllStarted
  /\ NeverOpensStaleRegion /\ LiveOnlyAfterSignal /\ NoOrphanAfterExit

(* Types are kept: an attempt is counted only while one is left, and a tick *)
(* taken only when one is there.                                           *)
LEMMA TypeStep ==
  TypeOK /\ OneAtATime /\ TicksPushed /\ [Next]_vars
    => TypeOK'
<1> SUFFICES ASSUME TypeOK, OneAtATime, TicksPushed, [Next]_vars
             PROVE  TypeOK'
  OBVIOUS
<1> USE LifecycleAssumption DEF TypeOK, OneAtATime, TicksPushed, Dead,
  Empty, Zeros, Nobody, regionVars, engineVars, rustVars, killVars
<1>1. ASSUME NEW s \in Symbols, CreateRegion(s) PROVE TypeOK'
  BY <1>1 DEF CreateRegion, Goto
<1>2. ASSUME NEW s \in Symbols, SizeRegion(s) PROVE TypeOK'
  BY <1>2 DEF SizeRegion, Goto
<1>3. ASSUME NEW s \in Symbols, ZeroRegion(s) PROVE TypeOK'
  BY <1>3 DEF ZeroRegion, Goto
<1>4. ASSUME NEW s \in Symbols, WriteMagic(s) PROVE TypeOK'
  BY <1>4 DEF WriteMagic, Goto
<1>5. ASSUME NEW s \in Symbols, ClearReadyFlags(s) PROVE TypeOK'
  BY <1>5, ZenonT(40) DEF ClearReadyFlags, Goto
<1>6. ASSUME NEW s \in Symbols, ResetQueue(s) PROVE TypeOK'
  BY <1>6 DEF ResetQueue, Goto
<1>7. ASSUME NEW s \in Symbols, GoLive(s) PROVE TypeOK'
  BY <1>7 DEF GoLive, Goto
<1>8. ASSUME NEW s \in Symbols, ProcessTick(s) PROVE TypeOK'
  BY <1>8 DEF ProcessTick, Goto
<1>9. ASSUME NEW s \in Symbols, SpawnEngine(s) PROVE TypeOK'
  BY <1>9 DEF SpawnEngine
<1>10. ASSUME NEW s \in Symbols, PushTick(s) PROVE TypeOK'
  BY <1>10 DEF PushTick
<1>11. CASE OpenFails
  BY <1>11 DEF OpenFails
<1>12. CASE SignalReady
  <2>1. opening \in Symbols
    BY <1>12 DEF SignalReady
  <2>2. region' \in [Symbols -> [sized : BOOLEAN, magic : BOOLEAN, rust_ready : BOOLEAN,
                                  cpp_ready : BOOLEAN, ticks : 0..MaxTicks]]
    BY <1>12, <2>1, ZenonT(40) DEF SignalReady
  <2> QED
    BY <1>12, <2>1, <2>2 DEF SignalReady
<1>13. ASSUME NEW s \in Symbols,
              WaitTimesOut(s) \/ LeaveLoop(s) \/ Interrupt(s) \/ LeftoverEnds(s) \/
                EngineDies(s) \/ EngineKilled(s) \/ Kill(s) \/ Reap(s)
      PROVE  TypeOK'
  BY <1>13 DEF Goto, WaitTimesOut, LeaveLoop, Interrupt, LeftoverEnds, EngineDies,
    EngineKilled, Kill, Reap
<1>14. CASE MapRegion \/ OpenFaults \/ OpenSucceeds \/ StartIngest \/
  FinishFile \/ Exit \/ Crash
  BY <1>14 DEF MapRegion, OpenFaults, OpenSucceeds, StartIngest,
    FinishFile, Exit, Crash
<1>15. CASE UNCHANGED vars
  BY <1>15 DEF vars
<1> QED
  BY <1>1, <1>2, <1>3, <1>4, <1>5, <1>6, <1>7, <1>8, <1>9, <1>10, <1>11,
    <1>12, <1>13, <1>14, <1>15
  DEF Next, EngineStep, RustStep

(* Only SpawnEngine sets opening, to an engine it starts with all attempts *)
(* left.                                                                   *)
LEMMA OneAtATimeStep ==
  TypeOK /\ OneAtATime /\ [Next]_vars
    => OneAtATime'
<1> SUFFICES ASSUME TypeOK, OneAtATime, [Next]_vars
             PROVE  OneAtATime'
  OBVIOUS
<1> USE LifecycleAssumption DEF OneAtATime, TypeOK, Dead, Nobody,
  regionVars, engineVars, rustVars, killVars
<1>1. ASSUME NEW s \in Symbols, SpawnEngine(s) PROVE OneAtATime'
  BY <1>1 DEF SpawnEngine
<1>2. CASE MapRegion
  BY <1>2 DEF MapRegion
<1>3. CASE OpenFails
  BY <1>3 DEF OpenFails
<1>4. CASE OpenSucceeds
  BY <1>4 DEF OpenSucceeds
<1>5. CASE SignalReady
  BY <1>5 DEF SignalReady
<1>6. ASSUME NEW s \in Symbols,
              CreateRegion(s) \/ SizeRegion(s) \/ ZeroRegion(s) \/
                WriteMagic(s) \/ ClearReadyFlags(s) \/ ResetQueue(s) \/
                GoLive(s) \/ WaitTimesOut(s) \/ ProcessTick(s) \/
                LeaveLoop(s) \/ Interrupt(s) \/ LeftoverEnds(s) \/ EngineDies(s) \/
                PushTick(s) \/ EngineKilled(s) \/ Kill(s) \/ Reap(s)
      PROVE  OneAtATime'
  BY <1>6, ZenonT(40) DEF Goto, CreateRegion, SizeRegion, ZeroRegion, WriteMagic,
    ClearReadyFlags, ResetQueue, GoLive, WaitTimesOut, ProcessTick,
    LeaveLoop, Interrupt, LeftoverEnds, EngineDies, PushTick, EngineKilled, Kill, Reap
<1>7. CASE OpenFaults \/ StartIngest \/ FinishFile \/ Exit \/ Crash
  BY <1>7 DEF OpenFaults, StartIngest, FinishFile, Exit, Crash
<1>8. CASE UNCHANGED vars
  BY <1>8 DEF vars
<1> QED
  BY <1>1, <1>2, <1>3, <1>4, <1>5, <1>6, <1>7, <1>8
  DEF Next, EngineStep, RustStep

(* Only PushTick adds a tick to a region, and it counts it.                *)
LEMMA TicksStep ==
  TypeOK /\ OneAtATime /\ TicksPushed /\ [Next]_vars
    => TicksPushed'
<1> SUFFICES ASSUME TypeOK, OneAtATime, TicksPushed, [Next]_vars
             PROVE  TicksPushed'
  OBVIOUS
<1> USE LifecycleAssumption DEF TicksPushed, OneAtATime, Empty, Zeros,
  TypeOK, Dead, Nobody, regionVars, engineVars, rustVars, killVars
<1>1. ASSUME NEW s \in Symbols, CreateRegion(s) PROVE TicksPushed'
  BY <1>1 DEF CreateRegion, Goto
<1>2. ASSUME NEW s \in Symbols, ZeroRegion(s) PROVE TicksPushed'
  BY <1>2 DEF ZeroRegion, Goto
<1>3. ASSUME NEW s \in Symbols, ResetQueue(s) PROVE TicksPushed'
  BY <1>3 DEF ResetQueue, Goto
<1>4. ASSUME NEW s \in Symbols, ProcessTick(s) PROVE TicksPushed'
  BY <1>4 DEF ProcessTick, Goto
<1>5. ASSUME NEW s \in Symbols, PushTick(s) PROVE TicksPushed'
  BY <1>5 DEF PushTick
<1>6. ASSUME NEW s \in Symbols,
              SizeRegion(s) \/ WriteMagic(s) \/ ClearReadyFlags(s) \/ GoLive(s)
      PROVE  TicksPushed'
  BY <1>6, SMTT(30) DEF Goto, SizeRegion, WriteMagic, ClearReadyFlags, GoLive
<1>7. ASSUME NEW s \in Symbols,
              WaitTimesOut(s) \/ LeaveLoop(s) \/ Interrupt(s) \/
                LeftoverEnds(s) \/ EngineDies(s) \/ SpawnEngine(s) \/
                EngineKilled(s) \/ Kill(s) \/ Reap(s)
      PROVE  TicksPushed'
  BY <1>7 DEF Goto, WaitTimesOut, LeaveLoop, Interrupt, LeftoverEnds,
    EngineDies, SpawnEngine, EngineKilled, Kill, Reap
<1>8. CASE MapRegion \/ OpenFails \/ OpenFaults \/ OpenSucceeds \/
  SignalReady \/ StartIngest \/ FinishFile \/ Exit \/ Crash
  BY <1>8 DEF MapRegion, OpenFails, OpenFaults, OpenSucceeds, SignalReady,
    StartIngest, FinishFile, Exit, Crash
<1>9. CASE UNCHANGED vars
  BY <1>9 DEF vars
<1> QED
  BY <1>1, <1>2, <1>3, <1>4, <1>5, <1>6, <1>7, <1>8, <1>9
  DEF Next, EngineStep, RustStep

(* The engine's own stores make a region fresh, and only SignalReady sets the *)
(* flag.                                                                   *)
LEMMA FreshStep ==
  TypeOK /\ OneAtATime /\ FreshRegions /\ [Next]_vars
    => FreshRegions'
<1> SUFFICES ASSUME TypeOK, OneAtATime, FreshRegions, [Next]_vars
             PROVE  FreshRegions'
  OBVIOUS
<1> USE LifecycleAssumption DEF FreshRegions, OneAtATime, Attached, Empty,
  Zeros, TypeOK, Dead, Nobody, regionVars, engineVars, rustVars, killVars
<1>1. ASSUME NEW s \in Symbols, CreateRegion(s) PROVE FreshRegions'
  BY <1>1 DEF CreateRegion, Goto
<1>2. ASSUME NEW s \in Symbols, SizeRegion(s) PROVE FreshRegions'
  BY <1>2 DEF SizeRegion, Goto
<1>3. ASSUME NEW s \in Symbols, ZeroRegion(s) PROVE FreshRegions'
  BY <1>3 DEF ZeroRegion, Goto
<1>4. ASSUME NEW s \in Symbols, WriteMagic(s) PROVE FreshRegions'
  BY <1>4 DEF WriteMagic, Goto
<1>5. ASSUME NEW s \in Symbols, ClearReadyFlags(s) PROVE FreshRegions'
  BY <1>5 DEF ClearReadyFlags, Goto
<1>6. ASSUME NEW s \in Symbols, ResetQueue(s) PROVE FreshRegions'
  BY <1>6 DEF ResetQueue, Goto
<1>7. ASSUME NEW s \in Symbols, GoLive(s) PROVE FreshRegions'
  BY <1>7 DEF GoLive, Goto
<1>8. ASSUME NEW s \in Symbols, ProcessTick(s) PROVE FreshRegions'
  BY <1>8 DEF ProcessTick, Goto
<1>9. ASSUME NEW s \in Symbols, SpawnEngine(s) PROVE FreshRegions'
  BY <1>9 DEF SpawnEngine
<1>10. ASSUME NEW s \in Symbols, PushTick(s) PROVE FreshRegions'
  BY <1>10 DEF PushTick
<1>11. CASE SignalReady
  BY <1>11 DEF SignalReady
<1>12. ASSUME NEW s \in Symbols,
              WaitTimesOut(s) \/ LeaveLoop(s) \/ Interrupt(s) \/ LeftoverEnds(s) \/
                EngineDies(s) \/ EngineKilled(s) \/ Kill(s) \/ Reap(s)
      PROVE  FreshRegions'
  BY <1>12 DEF Goto, WaitTimesOut, LeaveLoop, Interrupt, LeftoverEnds, EngineDies,
    EngineKilled, Kill, Reap
<1>13. CASE MapRegion \/ OpenFails \/ OpenFaults \/ OpenSucceeds \/
  StartIngest \/ FinishFile \/ Exit \/ Crash
  BY <1>13 DEF MapRegion, OpenFails, OpenFaults, OpenSucceeds, StartIngest,
    FinishFile, Exit, Crash
<1>14. CASE UNCHANGED vars
  BY <1>14 DEF vars
<1> QED
  BY <1>1, <1>2, <1>3, <1>4, <1>5, <1>6, <1>7, <1>8, <1>9, <1>10, <1>11,
    <1>12, <1>13, <1>14
  DEF Next, EngineStep, RustStep

(* A name that resolves is the new engine's, and a magic too.              *)
LEMMA StaleStep ==
  TypeOK /\ OneAtATime /\ FreshRegions /\ NeverOpensStaleRegion /\ [Next]_vars
    => NeverOpensStaleRegion'
<1> SUFFICES ASSUME TypeOK, OneAtATime, FreshRegions, NeverOpensStaleRegion, [Next]_vars
             PROVE  NeverOpensStaleRegion'
  OBVIOUS
<1> USE LifecycleAssumption DEF NeverOpensStaleRegion, FreshRegions,
  OneAtATime, TypeOK, Dead, Nobody, regionVars, engineVars, rustVars, killVars
<1>1. ASSUME NEW s \in Symbols, CreateRegion(s) PROVE NeverOpensStaleRegion'
  BY <1>1 DEF CreateRegion, Goto
<1>2. ASSUME NEW s \in Symbols, SizeRegion(s) PROVE NeverOpensStaleRegion'
  BY <1>2 DEF SizeRegion, Goto
<1>3. ASSUME NEW s \in Symbols, ZeroRegion(s) PROVE NeverOpensStaleRegion'
  BY <1>3 DEF ZeroRegion, Goto
<1>4. ASSUME NEW s \in Symbols, WriteMagic(s) PROVE NeverOpensStaleRegion'
  BY <1>4 DEF WriteMagic, Goto
<1>5. ASSUME NEW s \in Symbols, ClearReadyFlags(s) PROVE NeverOpensStaleRegion'
  BY <1>5 DEF ClearReadyFlags, Goto
<1>6. ASSUME NEW s \in Symbols, ResetQueue(s) PROVE NeverOpensStaleRegion'
  BY <1>6 DEF ResetQueue, Goto
<1>7. ASSUME NEW s \in Symbols, GoLive(s) PROVE NeverOpensStaleRegion'
  BY <1>7 DEF GoLive, Goto
<1>8. ASSUME NEW s \in Symbols, LeaveLoop(s) PROVE NeverOpensStaleRegion'
  BY <1>8 DEF LeaveLoop, Goto
<1>9. ASSUME NEW s \in Symbols, EngineDies(s) PROVE NeverOpensStaleRegion'
  BY <1>9 DEF EngineDies
<1>10. ASSUME NEW s \in Symbols, SpawnEngine(s) PROVE NeverOpensStaleRegion'
  BY <1>10 DEF SpawnEngine
<1>11. ASSUME NEW s \in Symbols, EngineKilled(s) \/ Kill(s) \/ Reap(s)
      PROVE  NeverOpensStaleRegion'
  BY <1>11 DEF EngineKilled, Kill, Reap
<1>12. CASE MapRegion
  BY <1>12 DEF MapRegion
<1>13. CASE OpenSucceeds
  BY <1>13 DEF OpenSucceeds
<1>14. CASE SignalReady
  BY <1>14 DEF SignalReady
<1>15. ASSUME NEW s \in Symbols,
              WaitTimesOut(s) \/ ProcessTick(s) \/ Interrupt(s) \/ LeftoverEnds(s) \/
                PushTick(s)
      PROVE  NeverOpensStaleRegion'
  BY <1>15 DEF Goto, WaitTimesOut, ProcessTick, Interrupt, LeftoverEnds, PushTick
<1>16. CASE OpenFails \/ OpenFaults \/ StartIngest \/ FinishFile \/ Exit \/
  Crash
  BY <1>16 DEF OpenFails, OpenFaults, StartIngest, FinishFile, Exit, Crash
<1>17. CASE UNCHANGED vars
  BY <1>17 DEF vars
<1> QED
  BY <1>1, <1>2, <1>3, <1>4, <1>5, <1>6, <1>7, <1>8, <1>9, <1>10, <1>11,
    <1>12, <1>13, <1>14, <1>15, <1>16, <1>17
  DEF Next, EngineStep, RustStep

(* GoLive finds a flag that is Rust's.                                     *)
LEMMA LiveStep ==
  TypeOK /\ FreshRegions /\ LiveOnlyAfterSignal /\ [Next]_vars
    => LiveOnlyAfterSignal'
<1> SUFFICES ASSUME TypeOK, FreshRegions, LiveOnlyAfterSignal, [Next]_vars
             PROVE  LiveOnlyAfterSignal'
  OBVIOUS
<1> USE LifecycleAssumption DEF LiveOnlyAfterSignal, FreshRegions,
  Attached, TypeOK, Dead, Nobody, regionVars, engineVars, rustVars, killVars
<1>1. ASSUME NEW s \in Symbols, GoLive(s) PROVE LiveOnlyAfterSignal'
  BY <1>1 DEF GoLive, Goto
<1>2. CASE SignalReady
  BY <1>2 DEF SignalReady
<1>3. ASSUME NEW s \in Symbols,
              CreateRegion(s) \/ SizeRegion(s) \/ ZeroRegion(s) \/
                WriteMagic(s) \/ ClearReadyFlags(s) \/ ResetQueue(s) \/
                WaitTimesOut(s) \/ ProcessTick(s) \/ LeaveLoop(s) \/
                Interrupt(s) \/ LeftoverEnds(s) \/ EngineDies(s) \/ SpawnEngine(s) \/
                PushTick(s) \/ EngineKilled(s) \/ Kill(s) \/ Reap(s)
      PROVE  LiveOnlyAfterSignal'
  BY <1>3 DEF Goto, CreateRegion, SizeRegion, ZeroRegion, WriteMagic,
    ClearReadyFlags, ResetQueue, WaitTimesOut, ProcessTick, LeaveLoop,
    Interrupt, LeftoverEnds, EngineDies, SpawnEngine, PushTick, EngineKilled, Kill, Reap
<1>4. CASE MapRegion \/ OpenFails \/ OpenFaults \/ OpenSucceeds \/
  StartIngest \/ FinishFile \/ Exit \/ Crash
  BY <1>4 DEF MapRegion, OpenFails, OpenFaults, OpenSucceeds, StartIngest,
    FinishFile, Exit, Crash
<1>5. CASE UNCHANGED vars
  BY <1>5 DEF vars
<1> QED
  BY <1>1, <1>2, <1>3, <1>4, <1>5
  DEF Next, EngineStep, RustStep

(* Only SpawnEngine adds a running engine, and lists its handle; Reap      *)
(* strikes off the dead only; and when the list is empty, every engine has *)
(* been spawned, so that all are dead.                                     *)
LEMMA OrphanStep ==
  TypeOK /\ OneAtATime /\ NeverOpensStaleRegion /\ AllStarted /\ NoOrphanAfterExit /\ [Next]_vars
    => AllStarted' /\ NoOrphanAfterExit'
<1> SUFFICES ASSUME TypeOK, OneAtATime, NeverOpensStaleRegion, AllStarted, NoOrphanAfterExit,
                    [Next]_vars
             PROVE  AllStarted' /\ NoOrphanAfterExit'
  OBVIOUS
<1> USE LifecycleAssumption DEF NoOrphanAfterExit, AllStarted, TypeOK, Dead, Nobody,
  regionVars, engineVars, rustVars, killVars
<1>1. ASSUME NEW s \in Symbols, SpawnEngine(s) PROVE AllStarted' /\ NoOrphanAfterExit'
  BY <1>1 DEF SpawnEngine
<1>2. CASE Exit
  BY <1>2 DEF Exit
<1>3. ASSUME NEW s \in Symbols, Reap(s) PROVE AllStarted' /\ NoOrphanAfterExit'
  BY <1>3 DEF Reap
<1>4. CASE StartIngest
  BY <1>4 DEF StartIngest, NeverOpensStaleRegion
<1>5. ASSUME NEW s \in Symbols,
              CreateRegion(s) \/ SizeRegion(s) \/ ZeroRegion(s) \/
                WriteMagic(s) \/ ClearReadyFlags(s) \/ ResetQueue(s) \/
                GoLive(s) \/ WaitTimesOut(s) \/ LeaveLoop(s)
      PROVE  AllStarted' /\ NoOrphanAfterExit'
  <2>1. CASE CreateRegion(s) \/ SizeRegion(s) \/ ZeroRegion(s)
    BY <2>1 DEF Goto, CreateRegion, SizeRegion, ZeroRegion
  <2>2. CASE WriteMagic(s)
    BY <2>2 DEF Goto, WriteMagic
  <2>3. CASE ClearReadyFlags(s)
    BY <2>3 DEF Goto, ClearReadyFlags
  <2>4. CASE ResetQueue(s)
    BY <2>4 DEF Goto, ResetQueue
  <2>5. CASE GoLive(s)
    BY <2>5 DEF Goto, GoLive
  <2>6. CASE WaitTimesOut(s) \/ LeaveLoop(s)
    BY <2>6 DEF Goto, WaitTimesOut, LeaveLoop
  <2> QED
    BY <1>5, <2>1, <2>2, <2>3, <2>4, <2>5, <2>6
<1>6. ASSUME NEW s \in Symbols,
              ProcessTick(s) \/ Interrupt(s) \/ LeftoverEnds(s) \/ EngineDies(s) \/
                PushTick(s) \/ EngineKilled(s) \/ Kill(s)
      PROVE  AllStarted' /\ NoOrphanAfterExit'
  BY <1>6 DEF ProcessTick, Interrupt, LeftoverEnds, EngineDies, PushTick, EngineKilled, Kill
<1>7. CASE MapRegion \/ OpenFails \/ OpenFaults \/ OpenSucceeds \/
  SignalReady \/ FinishFile \/ Crash
  BY <1>7 DEF MapRegion, OpenFails, OpenFaults, OpenSucceeds, SignalReady, FinishFile, Crash
<1>8. CASE UNCHANGED vars
  BY <1>8 DEF vars
<1> QED
  BY <1>1, <1>2, <1>3, <1>4, <1>5, <1>6, <1>7, <1>8
  DEF Next, EngineStep, RustStep

(* Whatever regions an earlier run left, no engine runs yet. *)
LEMMA InvariantInit == Init => IInv
<1> SUFFICES ASSUME Init PROVE IInv
  OBVIOUS
<1> USE LifecycleAssumption DEF Init, Nobody, Empty, Zeros, Stale, Dead
<1>1. TypeOK
  BY DEF TypeOK
<1>2. OneAtATime
  BY DEF OneAtATime
<1>3. FreshRegions
  BY DEF FreshRegions, Attached
<1>4. TicksPushed
  BY DEF TicksPushed
<1>5. NeverOpensStaleRegion /\ LiveOnlyAfterSignal /\ AllStarted /\ NoOrphanAfterExit
  BY DEF NeverOpensStaleRegion, LiveOnlyAfterSignal, AllStarted, NoOrphanAfterExit
<1> QED
  BY <1>1, <1>2, <1>3, <1>4, <1>5 DEF IInv

(* Every step of every process keeps the invariant. *)
LEMMA InvariantStep == IInv /\ [Next]_vars => IInv'
  BY TypeStep, OneAtATimeStep, TicksStep, FreshStep, StaleStep, LiveStep,
     OrphanStep DEF IInv

(* The invariant holds of every reachable state. *)
THEOREM InductiveInvariant == Spec => []IInv
  BY InvariantInit, InvariantStep, PTL DEF Spec

(* No process ever leaves the states its code has, and no ring and no      *)
(* count of attempts its bounds, for all symbols.                          *)
THEOREM TypeCorrect == Spec => []TypeOK
<1>1. IInv => TypeOK
  BY DEF IInv
<1> QED
  BY InductiveInvariant, <1>1, PTL

(* The orchestrator never opens what an earlier run left behind, however   *)
(* many engines it starts and whenever they die: it removes the name       *)
(* before it spawns, and the magic is the last thing it looks at.          *)
THEOREM StaleRegionNeverOpened == Spec => []NeverOpensStaleRegion
<1>1. IInv => NeverOpensStaleRegion
  BY DEF IInv
<1> QED
  BY InductiveInvariant, <1>1, PTL

(* No engine enters its event loop before this run's orchestrator has      *)
(* signalled it.                                                           *)
THEOREM LiveAfterSignal == Spec => []LiveOnlyAfterSignal
<1>1. IInv => LiveOnlyAfterSignal
  BY DEF IInv
<1> QED
  BY InductiveInvariant, <1>1, PTL

(* main's registry of children and the loop that kills and awaits them: an *)
(* engine that runs is always listed, so when the loop has run out of      *)
(* handles and the orchestrator exits, every engine is gone.               *)
THEOREM NoOrphans == Spec => []NoOrphanAfterExit
<1>1. IInv => NoOrphanAfterExit
  BY DEF IInv
<1> QED
  BY InductiveInvariant, <1>1, PTL
=============================================================================
