----------------------------- MODULE Reconnect -----------------------------
(* Which platform adapters of one gateway are connected: the boot stage that *)
(* starts them (lifecycle.ts, entrypoints/gateway-run.ts), the queue of the  *)
(* failed ones and the watcher that retries it (reconnect-watcher.ts), the   *)
(* hook by which a dying adapter asks to be retried, and the drain.          *)
(* All of it runs on one event loop: an action is what runs between awaits.  *)
(* A retry makes a fresh instance every time, so that the instances of a     *)
(* platform are the booted one and a number of fresh ones.                   *)
EXTENDS Integers, FiniteSets

CONSTANTS
    Platforms,  \* the configured platforms
    Passes,     \* bound on the watcher passes in flight at a time
    MaxFresh,   \* bound on the live fresh instances of a platform
    Initial,    \* initialDelayMs
    Interval,   \* pollIntervalMs
    Base, Cap   \* the first delay of the backoff, and its greatest

ASSUME ReconnectAssumption ==
    /\ IsFiniteSet(Platforms) /\ "none" \notin Platforms
    /\ MaxFresh \in Nat /\ Initial \in Nat
    /\ Interval \in Nat \ {0}
    /\ Base \in Nat \ {0}
    /\ Cap \in Nat /\ Cap >= Base

VARIABLES
    phase,   \* of the gateway: "starting", "serving", "closing", "draining", "stopped"
    boot,    \* of a platform's booted instance: "no", "up", "off" or "down"
    fresh,   \* the live instances of a platform that retries have connected
    row,     \* the platform's row in the queue: failed attempts, time to its retry
    pass,    \* the passes in flight: the platforms still to visit, the one awaited
    arm,     \* the time to the next tick of the watcher
    overlap  \* history: a pass has begun while another was in flight

vars == <<phase, boot, fresh, row, pass, arm, overlap>>

None == "none"
Idle == [todo |-> {}, at |-> None, tries |-> 0]
NoRow == [attempts |-> 0, due |-> 0]
Queued(p) == row[p] # NoRow
Waiting(k, p) == pass[k].at = p
Connecting(p) == {k \in Passes : Waiting(k, p)}

(* reconnectBackoffDelayMs *)
Backoff(attempts) ==
    IF Base * 2^(attempts - 1) < Cap THEN Base * 2^(attempts - 1) ELSE Cap

(* Attempts are counted up to the first that is put off by Cap. *)
Counted(attempts) == IF attempts > 1 /\ Backoff(attempts - 1) = Cap
                     THEN attempts - 1 ELSE attempts

Init ==
    /\ phase = "starting"
    /\ boot = [p \in Platforms |-> "no"]
    /\ fresh = [p \in Platforms |-> 0]
    /\ row = [p \in Platforms |-> NoRow]
    /\ pass = [k \in Passes |-> Idle]
    /\ arm = Initial
    /\ overlap = FALSE

----------------------------------------------------------------------------
(* FailedPlatformQueue.enqueue.  The row it writes is not due by the clock   *)
(* that a pass in flight has read: no such pass visits p any more.           *)

Row(attempts) == [attempts |-> Counted(attempts), due |-> Backoff(attempts)]

Passed(ps, p) == [k \in Passes |-> [ps[k] EXCEPT !.todo = @ \ {p}]]

Enqueue(p, attempts) == row' = [row EXCEPT ![p] = Row(attempts)]

----------------------------------------------------------------------------
(* stagePlatformAdapters: startOne of one platform after the other *)

BootConnects(p) ==
    /\ phase = "starting" /\ boot[p] = "no"
    /\ boot' = [boot EXCEPT ![p] = "up"]
    /\ UNCHANGED <<phase, fresh, row, pass, arm, overlap>>

BootFails(p) ==
    /\ phase = "starting" /\ boot[p] = "no"
    /\ boot' = [boot EXCEPT ![p] = "down"]
    /\ Enqueue(p, row[p].attempts + 1)
    /\ pass' = Passed(pass, p)
    /\ UNCHANGED <<phase, fresh, arm, overlap>>

(* A missing secret, or an error that names a disabled or fatal adapter. *)
BootDisables(p) ==
    /\ phase = "starting" /\ boot[p] = "no"
    /\ boot' = [boot EXCEPT ![p] = "off"]
    /\ UNCHANGED <<phase, fresh, row, pass, arm, overlap>>

Booted ==
    /\ phase = "starting" /\ \A p \in Platforms : boot[p] # "no"
    /\ phase' = "serving"
    /\ UNCHANGED <<boot, fresh, row, pass, arm, overlap>>

----------------------------------------------------------------------------
(* Adapters that die *)

(* onRuntimeFatal, attached by startOne *)
BootedDies(p) ==
    /\ boot[p] = "up"
    /\ boot' = [boot EXCEPT ![p] = "down"]
    /\ Enqueue(p, row[p].attempts + 1)
    /\ pass' = Passed(pass, p)
    /\ UNCHANGED <<phase, fresh, arm, overlap>>

(* The instance that a retry has made has no such hook. *)
FreshDies(p) ==
    /\ fresh[p] > 0
    /\ fresh' = [fresh EXCEPT ![p] = @ - 1]
    /\ UNCHANGED <<phase, boot, row, pass, arm, overlap>>

----------------------------------------------------------------------------
(* The watcher: tick and passOnce *)

Due == {p \in Platforms : Queued(p) /\ row[p].due = 0}

(* To the next platform of todo that is still queued, or to the end.         *)
Proceeds(k, ps, todo, rows) ==
    LET left == {p \in todo : rows[p] # NoRow}
    IN  IF left = {}
        THEN pass' = [ps EXCEPT ![k] = Idle]
        ELSE \E p \in left :
                pass' = [ps EXCEPT ![k] = [todo  |-> left \ {p},
                                           at    |-> p,
                                           tries |-> rows[p].attempts]]

PassBegins(k) ==
    /\ phase # "stopped" /\ arm = 0
    /\ pass[k] = Idle
    /\ arm' = Interval
    /\ Proceeds(k, pass, Due, row)
    /\ overlap' = (overlap \/ (Due # {} /\ \E j \in Passes : pass[j] # Idle))
    /\ UNCHANGED <<phase, boot, fresh, row>>

(* Mutant: a served row stays in the queue. *)
ConnectsKeepingRow(k, p) ==
    /\ Waiting(k, p) /\ fresh[p] < MaxFresh
    /\ fresh' = [fresh EXCEPT ![p] = @ + 1]
    /\ Proceeds(k, pass, pass[k].todo, row)
    /\ UNCHANGED <<phase, boot, row, arm, overlap>>

Connects(k, p) ==
    /\ Waiting(k, p) /\ fresh[p] < MaxFresh
    /\ fresh' = [fresh EXCEPT ![p] = @ + 1]
    /\ IF phase = "stopped"
       THEN UNCHANGED row /\ pass' = [pass EXCEPT ![k] = Idle]
       ELSE /\ row' = [row EXCEPT ![p] = NoRow]
            /\ Proceeds(k, pass, pass[k].todo, row')
    /\ UNCHANGED <<phase, boot, arm, overlap>>

(* Mutant: the row is taken out before the attempt, and lost with it. *)
ConnectFailsForgets(k, p) ==
    /\ Waiting(k, p)
    /\ row' = [row EXCEPT ![p] = NoRow]
    /\ Proceeds(k, pass, pass[k].todo, row')
    /\ UNCHANGED <<phase, boot, fresh, arm, overlap>>

(* connect refuses or throws, the factory throws, or there is no connect. *)
ConnectFails(k, p) ==
    /\ Waiting(k, p)
    /\ IF phase = "stopped"
       THEN UNCHANGED row /\ pass' = [pass EXCEPT ![k] = Idle]
       ELSE /\ Enqueue(p, pass[k].tries + 1)
            /\ Proceeds(k, Passed(pass, p), pass[k].todo \ {p}, row')
    /\ UNCHANGED <<phase, boot, fresh, arm, overlap>>

TimePasses ==
    /\ phase # "stopped" /\ arm > 0
    /\ arm' = arm - 1
    /\ row' = [p \in Platforms |->
                 [row[p] EXCEPT !.due = IF @ > 0 THEN @ - 1 ELSE 0]]
    /\ UNCHANGED <<phase, boot, fresh, pass, overlap>>

----------------------------------------------------------------------------
(* requestShutdown: stop_ingress, the rest of the drain, and only then the   *)
(* join of the embedded services, the watcher among them                     *)

ShutdownBegins ==
    /\ phase = "serving" /\ phase' = "closing"
    /\ UNCHANGED <<boot, fresh, row, pass, arm, overlap>>

Disconnects(p) ==
    /\ phase = "closing" /\ boot[p] = "up"
    /\ boot' = [boot EXCEPT ![p] = "off"]
    /\ UNCHANGED <<phase, fresh, row, pass, arm, overlap>>

IngressStopped ==
    /\ phase = "closing" /\ \A p \in Platforms : boot[p] # "up"
    /\ phase' = "draining"
    /\ UNCHANGED <<boot, fresh, row, pass, arm, overlap>>

WatcherStops ==
    /\ phase = "draining" /\ phase' = "stopped"
    /\ UNCHANGED <<boot, fresh, row, pass, arm, overlap>>

----------------------------------------------------------------------------
Boot(p) == BootConnects(p) \/ BootFails(p) \/ BootDisables(p)
Retry(k) == PassBegins(k) \/ \E p \in Platforms : Connects(k, p) \/ ConnectFails(k, p)

Next ==
    \/ \E p \in Platforms : Boot(p) \/ BootedDies(p) \/ FreshDies(p) \/ Disconnects(p)
    \/ \E k \in Passes : Retry(k)
    \/ TimePasses \/ Booted \/ ShutdownBegins \/ IngressStopped \/ WatcherStops

Spec == Init /\ [][Next]_vars

(* Timers fire, a connect comes to an end, and a platform that is tried      *)
(* again and again lets one attempt through in the end.                      *)
Fairness ==
    /\ WF_vars(TimePasses) /\ WF_vars(\E k \in Passes : PassBegins(k))
    /\ \A k \in Passes : \A p \in Platforms :
          WF_vars(Connects(k, p) \/ ConnectFails(k, p))
    /\ \A p \in Platforms : SF_vars(\E k \in Passes : Connects(k, p))

FairSpec == Spec /\ Fairness

----------------------------------------------------------------------------
Live(p) == fresh[p] > 0 \/ boot[p] = "up"

TypeOK ==
    /\ phase \in {"starting", "serving", "closing", "draining", "stopped"}
    /\ boot \in [Platforms -> {"no", "up", "off", "down"}]
    /\ fresh \in [Platforms -> 0 .. MaxFresh]
    /\ row \in [Platforms -> [attempts : Nat, due : Int]]
    /\ pass \in [Passes -> [todo : SUBSET Platforms,
                           at : Platforms \cup {None}, tries : Nat]]
    /\ arm \in 0 .. Interval + Initial /\ overlap \in BOOLEAN

(* As long as no pass of the watcher outlives its interval, a platform has   *)
(* one consumer: one live instance or one that connects, and it is queued    *)
(* only while it has no live one (passOnce removes the row it has served).   *)
OneConsumer ==
    /\ TypeOK
    /\ overlap \/ \A p \in Platforms :
          /\ ~ (boot[p] = "up" /\ fresh[p] > 0) /\ fresh[p] < 2
          /\ Cardinality(Connecting(p)) < 2
          /\ Live(p) /\ phase # "stopped" => ~ Queued(p) /\ Connecting(p) = {}

(* A platform in the queue is connected in the end, however its attempts     *)
(* fail, are put off and overlap, unless the watcher is stopped before.      *)
Recovers == \A p \in Platforms : Queued(p) ~> (Live(p) \/ phase = "stopped")

(* A platform whose connection was lost at run time is retried "instead of   *)
(* staying down until restart" (gateway-run.ts:627-629).  The code: true of  *)
(* the booted instance only.                                                 *)
NoneForgotten ==
    \A p \in Platforms :
        phase = "serving" /\ boot[p] = "down" => Live(p) \/ Queued(p)

(* Once the drain has stopped ingress, no adapter brings in traffic          *)
(* (shutdown.ts:25).  The code: a fresh instance is stopped by nobody, and   *)
(* the watcher goes on making them until the drain is over.                  *)
IngressStops == phase = "draining" => \A p \in Platforms : ~ Live(p)

=============================================================================
