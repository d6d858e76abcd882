------------------------------ MODULE FeedStore ------------------------------
(***************************************************************************)
(* The browser's connection to the gateway (FeedStore in feed.ts): a       *)
(* WebSocket that is opened, guarded by a timeout and retried, the local   *)
(* simulator that stands in while there is none, and the user's switch     *)
(* between the two.  Callbacks run one at a time on the browser's event    *)
(* loop, in any order in which their timers and sockets may fire.          *)
(*                                                                         *)
(* App's effect calls start() and has no cleanup, and main.tsx wraps App   *)
(* in StrictMode: the built bundle runs the effect once, "npm run dev"     *)
(* runs it twice, and the second connect() leaves the first socket         *)
(* connecting, with its callbacks, and unknown to this.ws: a stray.        *)
(***************************************************************************)
EXTENDS Naturals, FiniteSets

CONSTANTS
  Sockets,    \* identities of WebSocket objects, used again once closed
  NoSocket,   \* null
  EffectRuns  \* how often React may run App's effect when it mounts it

ASSUME FeedAssumption ==
  /\ IsFiniteSet(Sockets)
  /\ NoSocket \notin Sockets
  /\ EffectRuns \subseteq Nat \ {0}

VARIABLES
  mounts,      \* how often the page has called start()
  status,      \* what the badge shows
  preferSim,   \* "Force simulator" in the settings
  ws,          \* this.ws
  ready,       \* readyState of each socket
  attached,    \* sockets whose onclose is still set
  guard,       \* sockets whose guard timeout is pending
  simTimer,    \* is the simulator's interval set
  retryTimer,  \* is the retry interval set
  market,      \* sources of the snapshots held in market: "sim", "live"
  backend,     \* is the gateway up
  urlValid     \* does new WebSocket(BACKEND_URL) succeed at all

storeVars == <<status, preferSim, ws, attached, guard, simTimer, retryTimer, market>>
vars == <<mounts, storeVars, ready, backend, urlValid>>

Mounted == mounts > 0

Unused == {s \in Sockets : ready[s] = "closed"}

-----------------------------------------------------------------------------
Init ==
  /\ mounts = 0
  /\ status = "connecting"
  /\ preferSim = FALSE
  /\ ws = NoSocket
  /\ ready = [s \in Sockets |-> "closed"]
  /\ attached = {}
  /\ guard = {}
  /\ simTimer = FALSE
  /\ retryTimer = FALSE
  /\ market = {}
  /\ backend \in BOOLEAN
  /\ urlValid \in BOOLEAN

-----------------------------------------------------------------------------
(* The steps the callbacks are made of. *)

(* startSim() returns at once if the interval is already set, and starts   *)
(* with an empty market otherwise.                                         *)
StartSim(already) ==
  /\ simTimer' = TRUE
  /\ IF already THEN UNCHANGED <<status, market>> ELSE status' = "sim" /\ market' = {}

(* What teardown() does to the current socket, if there is one: its        *)
(* onclose is removed and it is asked to close.  Its guard stays.          *)
Detached == attached \ {ws}
Closed == [s \in Sockets |-> IF s = ws /\ ready[s] # "closed" THEN "closing" ELSE ready[s]]

(* connect() writes this.ws over without looking at what it held.  What    *)
(* its caller leaves of the sockets is rdy, and of their callbacks, att.   *)
Connect(s, rdy, att) ==
  /\ urlValid
  /\ s \in Unused
  /\ ws' = s
  /\ ready' = [rdy EXCEPT ![s] = "connecting"]
  /\ attached' = att \union {s}
  /\ guard' = guard \union {s}

(* connect() when the constructor throws: fallback() at once. *)
ConnectRefused ==
  /\ ~urlValid
  /\ StartSim(FALSE)
  /\ retryTimer' = TRUE
  /\ UNCHANGED guard

-----------------------------------------------------------------------------
(* The page and its user. *)

(* The calls of start(), all in the task that mounts the page, before any  *)
(* callback and before the user can have changed anything: every call      *)
(* connects, or every one is refused, the later ones then finding the      *)
(* simulator and the interval set.  this.ws is the last call's socket.     *)
Start ==
  /\ ~Mounted
  /\ mounts' \in EffectRuns
  /\ \/ \E S \in SUBSET Unused :
           /\ urlValid
           /\ Cardinality(S) = mounts'
           /\ ws' \in S
           /\ ready' = [s \in Sockets |-> IF s \in S THEN "connecting" ELSE ready[s]]
           /\ attached' = S /\ guard' = S
           /\ UNCHANGED <<status, simTimer, retryTimer, market>>
     \/ ConnectRefused /\ UNCHANGED <<ws, ready, attached>>
  /\ UNCHANGED <<preferSim, backend, urlValid>>

(* Mutant: teardown forgets the socket without closing it. *)
ForceSimUnclosed ==
  /\ Mounted /\ ~preferSim
  /\ preferSim' = TRUE
  /\ retryTimer' = FALSE
  /\ attached' = Detached
  /\ ws' = NoSocket
  /\ StartSim(FALSE)
  /\ UNCHANGED <<mounts, ready, guard, backend, urlValid>>

(* setPreferSim(true): teardown, then the simulator from the beginning.    *)
(* A stray is not torn down.                                               *)
ForceSim ==
  /\ Mounted /\ ~preferSim
  /\ preferSim' = TRUE
  /\ retryTimer' = FALSE
  /\ attached' = Detached
  /\ ready' = Closed
  /\ ws' = NoSocket
  /\ StartSim(FALSE)
  /\ UNCHANGED <<mounts, guard, backend, urlValid>>

(* setPreferSim(false): teardown, then a new connection. *)
AllowLive ==
  /\ preferSim
  /\ preferSim' = FALSE
  /\ \/ /\ \E s \in Sockets : Connect(s, Closed, Detached)
        /\ status' = "connecting" /\ simTimer' = FALSE /\ retryTimer' = FALSE
        /\ UNCHANGED market
     \/ /\ ConnectRefused
        /\ ws' = NoSocket /\ ready' = Closed /\ attached' = Detached
  /\ UNCHANGED <<mounts, backend, urlValid>>

-----------------------------------------------------------------------------
(* Callbacks of socket s. *)

(* Mutant: the simulator goes on beside the live feed. *)
OnOpenBesideSim(s) ==
  /\ backend
  /\ ready[s] = "connecting"
  /\ ready' = [ready EXCEPT ![s] = "open"]
  /\ guard' = guard \ {s}
  /\ status' = "live"
  /\ UNCHANGED <<mounts, preferSim, ws, attached, simTimer, retryTimer, market,
                 backend, urlValid>>

(* The simulator is stopped; what it has put into the market stays.  A     *)
(* stray does the same, also while the simulator is forced.                *)
OnOpen(s) ==
  /\ backend
  /\ ready[s] = "connecting"
  /\ ready' = [ready EXCEPT ![s] = "open"]
  /\ guard' = guard \ {s}
  /\ simTimer' = FALSE
  /\ status' = "live"
  /\ UNCHANGED <<mounts, preferSim, ws, attached, retryTimer, market, backend, urlValid>>

OnMessage(s) ==
  /\ backend
  /\ ready[s] = "open"
  /\ market' = market \union {"live"}
  /\ UNCHANGED <<mounts, status, preferSim, ws, ready, attached, guard, simTimer,
                 retryTimer, backend, urlValid>>

(* The guard fires: a socket that has not opened in time is closed, unless *)
(* the feed is live.                                                       *)
GuardFires(s) ==
  /\ s \in guard
  /\ guard' = guard \ {s}
  /\ ready' = IF status = "live" THEN ready ELSE [ready EXCEPT ![s] = "closing"]
  /\ UNCHANGED <<mounts, status, preferSim, ws, attached, simTimer, retryTimer,
                 market, backend, urlValid>>

(* fallback(), for a store whose simulator may be running already. *)
Fallback == StartSim(simTimer) /\ retryTimer' = TRUE

(* Mutant: onclose leaves the dead socket in this.ws. *)
OnCloseKeepingSocket(s) ==
  /\ ready[s] # "closed"
  /\ ready' = [ready EXCEPT ![s] = "closed"]
  /\ guard' = guard \ {s}
  /\ attached' = attached \ {s}
  /\ IF s \in attached /\ ~preferSim THEN Fallback
     ELSE UNCHANGED <<status, simTimer, retryTimer, market>>
  /\ UNCHANGED <<mounts, preferSim, ws, backend, urlValid>>

(* A socket closes because it was asked to, or was refused, or the         *)
(* connection broke.  Unless it was torn down, its onclose sets this.ws to *)
(* null, whichever socket that is, and falls back if the simulator is not  *)
(* forced.  (The guard of a torn-down socket would find it closed already  *)
(* and do nothing: it is dropped here.)                                    *)
OnClose(s) ==
  /\ ready[s] # "closed"
  /\ ready' = [ready EXCEPT ![s] = "closed"]
  /\ guard' = guard \ {s}
  /\ attached' = attached \ {s}
  /\ ws' = IF s \in attached THEN NoSocket ELSE ws
  /\ IF s \in attached /\ ~preferSim THEN Fallback
     ELSE UNCHANGED <<status, simTimer, retryTimer, market>>
  /\ UNCHANGED <<mounts, preferSim, backend, urlValid>>

-----------------------------------------------------------------------------
(* Intervals. *)

SimTicks ==
  /\ simTimer
  /\ market' = market \union {"sim"}
  /\ UNCHANGED <<mounts, status, preferSim, ws, ready, attached, guard, simTimer,
                 retryTimer, backend, urlValid>>

(* Mutant: the interval connects while an attempt is still under way. *)
RetryAnyway ==
  /\ retryTimer
  /\ status # "live" /\ ~preferSim
  /\ \E s \in Sockets : Connect(s, ready, attached)
  /\ UNCHANGED <<mounts, status, preferSim, simTimer, retryTimer, market, backend, urlValid>>

(* A retry that the constructor refuses finds the simulator running and    *)
(* the interval set, and changes nothing.                                  *)
RetryTicks ==
  /\ retryTimer
  /\ status # "live" /\ ws = NoSocket /\ ~preferSim
  /\ \E s \in Sockets : Connect(s, ready, attached)
  /\ UNCHANGED <<mounts, status, preferSim, simTimer, retryTimer, market, backend, urlValid>>

(* The gateway goes down or comes up; its sockets break in their own time. *)
Gateway ==
  /\ backend' = ~backend
  /\ UNCHANGED <<mounts, storeVars, ready, urlValid>>

Next ==
  \/ Start \/ ForceSim \/ AllowLive \/ RetryTicks \/ SimTicks \/ Gateway
  \/ \E s \in Sockets : OnOpen(s) \/ OnMessage(s) \/ GuardFires(s) \/ OnClose(s)

(* Timers fire and sockets asked to close do.  A gateway that is up answers *)
(* some attempt before its guard fires, though not necessarily each.        *)
Fairness ==
  /\ WF_vars(RetryTicks)
  /\ \A s \in Sockets : WF_vars(GuardFires(s)) /\ WF_vars(ready[s] = "closing" /\ OnClose(s))
  /\ SF_vars(\E s \in Sockets : OnOpen(s))

Spec == Init /\ [][Next]_vars /\ Fairness

-----------------------------------------------------------------------------
(* Properties. *)

(* The store never holds more connections than start() was called: every   *)
(* socket that may still open or deliver has its callbacks in place, there *)
(* are at most as many of these as calls, one less while this.ws is null,  *)
(* and this.ws is one of them.  With one call, there is one connection and *)
(* it is this.ws; with two, the stray of the first call is never joined by *)
(* a second one, however often the feed falls back, retries and is forced. *)
ConnectionsBounded ==
  /\ \A s \in Sockets : ready[s] \in {"connecting", "open"} => s \in attached
  /\ ws # NoSocket => ready[ws] # "closed" /\ ws \in attached
  /\ Cardinality(attached) <= mounts
  /\ ws = NoSocket /\ Mounted => Cardinality(attached) < mounts

(* "SIM: backend unreachable - auto-fallback": when the simulator is not   *)
(* forced, it stands in only while no connection is open.  Violated where  *)
(* start() ran twice: the onclose of one socket starts the simulator       *)
(* beside the other, which goes on delivering.                             *)
SimOnlyWhenUnreachable ==
  status = "sim" /\ ~preferSim => \A s \in Sockets : ready[s] # "open"

(* Unless the simulator is forced, the badge says LIVE only while some     *)
(* connection is open and able to fall back; and the simulator produces    *)
(* snapshots exactly while the badge says SIM: through any sequence of     *)
(* failures, late answers and toggles of the switch, with a stray or not.  *)
(* Where start() ran once, an open connection also keeps SIM away.         *)
BadgeTellsTheFeed ==
  /\ status = "live" /\ ~preferSim => \E s \in attached : ready[s] = "open"
  /\ simTimer <=> status = "sim"
  /\ mounts = 1 => SimOnlyWhenUnreachable

(* While the user forces the simulator there is no this.ws and nothing     *)
(* reconnects; and where start() ran once, as in the built bundle, nothing *)
(* live is shown, whatever the sockets of before still do.                 *)
ForcedSimIsAlone ==
  preferSim => /\ ws = NoSocket /\ ~retryTimer
               /\ mounts = 1 => status = "sim" /\ "live" \notin market

(* "Auto-fallback, retries every 5 s": with the gateway up from some time  *)
(* on and the simulator not forced, the feed keeps coming back to LIVE.    *)
Reconnects ==
  <>[](Mounted /\ urlValid /\ backend /\ ~preferSim) => []<>(status = "live")
=============================================================================
