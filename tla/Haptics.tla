------------------------------ MODULE Haptics ------------------------------
(***************************************************************************)
(* ButtplugService (plugin-buttplug): one device behind the Intiface       *)
(* engine, a process of its own.  The runtime initializes every service    *)
(* twice; each time a new client takes the place of the one before, but    *)
(* only the first is connected, and none of them has the listeners, which  *)
(* the constructor gave to a client nobody uses.  Vibrations wait in a     *)
(* queue that the call which finds it idle works off; rotations do not.    *)
(***************************************************************************)
EXTENDS Naturals, Sequences

CONSTANTS
    Vibrations, Rotations, \* calls of the two actions
    MaxRetries,            \* attempts to connect; the code has five
    MaxFaults              \* bound: commands that fail, and the device's
                           \* coming and going

HapticsAssumption ==
    /\ Vibrations \cap Rotations = {}
    /\ MaxRetries \in Nat \ {0} /\ MaxFaults \in Nat

Calls == Vibrations \cup Rotations
Nothing == "none"

VARIABLES
    client,    \* how many clients initialize has made
    linked,    \* the client whose connection is open, 0 for none
    connected, \* this.connected
    retries,   \* attempts left to the running connect
    setup,     \* where initialization is
    present,   \* the device is switched on and near
    devices,   \* the map of devices holds it
    queue,     \* this.vibrateQueue
    processing,\* this.isProcessingQueue
    at,        \* at[c]: what call c waits for
    moving,    \* the device moves
    done,      \* vibrations that lasted their time
    faults, alive

vars == <<client, linked, connected, retries, setup, present, devices, queue, processing, at,
          moving, done, faults, alive>>

Init ==
    /\ client = 0 /\ linked = 0 /\ connected = FALSE /\ retries = 0
    /\ setup = "first"
    /\ present \in BOOLEAN /\ devices = FALSE
    /\ queue = <<>> /\ processing = FALSE
    /\ at = [c \in Calls |-> "new"]
    /\ moving = FALSE /\ done = {}
    /\ faults = 0 /\ alive = TRUE

Fault == faults < MaxFaults /\ faults' = faults + 1
Driving == <<queue, processing, at, moving, done>>

----------------------------------------------------------------------------
(* initialize: connect returns at once when the service is connected.      *)
Initialize ==
    /\ alive /\ setup \in {"first", "second"}
    /\ client' = client + 1
    /\ IF connected THEN setup' = "ready" /\ UNCHANGED retries
       ELSE setup' \in {"spawning", "connecting"} /\ retries' = MaxRetries
    /\ UNCHANGED <<linked, connected, present, devices, Driving, faults, alive>>

(* startIntifaceEngine: what spawn cannot start is an event nobody listens *)
(* to, which ends the process.                                             *)
Spawned ==
    /\ alive /\ setup = "spawning"
    /\ \/ setup' = "connecting" /\ UNCHANGED <<faults, alive>>
       \/ Fault /\ alive' = FALSE /\ UNCHANGED setup
    /\ UNCHANGED <<client, linked, connected, retries, present, devices, Driving>>

(* An attempt that fails when the connection is open leaves it open, and   *)
(* this.connected set.  The last one that fails ends the start.            *)
Retry ==
    /\ retries' = retries - 1
    /\ setup' = IF retries = 1 THEN "failed" ELSE "connecting"

Connect ==
    /\ alive /\ setup = "connecting"
    /\ \/ /\ linked' = client /\ connected' = TRUE /\ setup' = "scanning"
          /\ UNCHANGED <<retries, faults>>
       \/ Fault /\ Retry /\ UNCHANGED <<linked, connected>>
    /\ UNCHANGED <<client, present, devices, Driving, alive>>

Scanned ==
    /\ alive /\ setup = "scanning"
    /\ \/ /\ devices' = (devices \/ present)
          /\ setup' = IF client = 1 THEN "second" ELSE "ready"
          /\ UNCHANGED <<retries, faults>>
       \/ Fault /\ Retry /\ UNCHANGED devices
    /\ UNCHANGED <<client, linked, connected, present, Driving, alive>>

(* handleDeviceRemoved is never called: the map keeps what has gone.       *)
ComeOrGo ==
    /\ alive /\ Fault /\ present' = ~present
    /\ moving' = (moving /\ present')
    /\ UNCHANGED <<client, linked, connected, retries, setup, devices, queue, processing, at,
                   done, alive>>

----------------------------------------------------------------------------
Same == UNCHANGED <<client, linked, connected, retries, setup, present, alive>>

(* ensureDeviceAvailable: an empty map is a reason to scan again, with the *)
(* client that may never have been connected.                              *)
Ensure(c) ==
    /\ alive /\ setup = "ready" /\ at[c] = "new"
    /\ at' = [at EXCEPT ![c] = IF ~connected THEN "thrown"
                               ELSE IF devices THEN "ensured" ELSE "scanning"]
    /\ Same /\ UNCHANGED <<devices, queue, processing, moving, done, faults>>

Scan(c) ==
    /\ alive /\ at[c] = "scanning"
    /\ IF client = linked /\ present
       THEN devices' = TRUE /\ at' = [at EXCEPT ![c] = "ensured"]
       ELSE at' = [at EXCEPT ![c] = "thrown"] /\ UNCHANGED devices
    /\ Same /\ UNCHANGED <<queue, processing, moving, done, faults>>

(* addToVibrateQueue: only the call that finds the queue idle waits.       *)
(* Mutant: every call works on the queue.                                  *)
Waits_Not == FALSE
Waits == processing
Add(c) ==
    /\ alive /\ c \in Vibrations /\ at[c] = "ensured"
    /\ queue' = Append(queue, c)
    /\ processing' = TRUE
    /\ at' = [at EXCEPT ![c] = IF Waits THEN "told" ELSE "start"]
    /\ Same /\ UNCHANGED <<devices, moving, done, faults>>

Throw(c) ==
    /\ Fault \/ (~present /\ UNCHANGED faults)
    /\ at' = [at EXCEPT ![c] = "thrown"]
    /\ UNCHANGED <<queue, processing, moving, done>>

(* handleVibrate: vibrate, wait, stop.  What throws leaves the head in the *)
(* queue and isProcessingQueue set.                                        *)
Start(c) ==
    /\ alive /\ at[c] = "start"
    /\ \/ /\ present /\ moving' = TRUE /\ at' = [at EXCEPT ![c] = "moving"]
          /\ UNCHANGED <<queue, processing, done, faults>>
       \/ Throw(c)
    /\ Same /\ UNCHANGED devices

Shifted == Tail(queue)
Stop(c) ==
    /\ alive /\ at[c] = "moving"
    /\ \/ /\ present /\ moving' = FALSE
          /\ IF c \in Rotations
             THEN at' = [at EXCEPT ![c] = "told"] /\ UNCHANGED <<queue, processing, done>>
             ELSE /\ done' = done \cup {Head(queue)}
                  /\ queue' = Shifted
                  /\ processing' = (queue' # <<>>)
                  /\ at' = [at EXCEPT ![c] = IF queue' = <<>> THEN "told" ELSE "start"]
          /\ UNCHANGED faults
       \/ Throw(c)
    /\ Same /\ UNCHANGED devices

(* rotate goes straight to the device, if that can rotate. *)
Rotate(c) ==
    /\ alive /\ c \in Rotations /\ at[c] = "ensured"
    /\ at' \in {[at EXCEPT ![c] = "start"], [at EXCEPT ![c] = "thrown"]}
    /\ Same /\ UNCHANGED <<devices, queue, processing, moving, done, faults>>

Continue ==
    \/ Initialize \/ Spawned \/ Connect \/ Scanned
    \/ \E c \in Calls : Ensure(c) \/ Scan(c) \/ Add(c) \/ Start(c) \/ Stop(c) \/ Rotate(c)
Next == Continue \/ ComeOrGo

----------------------------------------------------------------------------
TypeOK ==
    /\ client \in 0 .. 2 /\ linked \in 0 .. client /\ retries \in 0 .. MaxRetries
    /\ {connected, present, devices, processing, moving, alive} \subseteq BOOLEAN
    /\ queue \in Seq(Vibrations) /\ done \subseteq Vibrations

Workers == {c \in Vibrations : at[c] \in {"start", "moving"}}

(* One call at most works on the queue, and while it does isProcessingQueue *)
(* is set; the flag is set with nobody at work only after a vibration that *)
(* failed, and then for good.                                              *)
QueueHasOneWorker ==
    /\ \A c, d \in Workers : c = d
    /\ Workers # {} => processing
    /\ processing /\ Workers = {} => \E c \in Vibrations : at[c] = "thrown"

(* While the device is told to move it does, unless it has gone or a       *)
(* rotation, which does not wait for its turn, stopped it.                 *)
StopsHaveCause ==
    \A c \in Vibrations : at[c] = "moving" /\ ~moving =>
        faults > 0 \/ \E r \in Rotations : at[r] = "told"

(* A user who was told that the device vibrates, or will, is right unless  *)
(* a vibration before it failed.                                           *)
Quiet ==
    \/ ~alive
    \/ \A c \in Vibrations : at[c] = "told" => c \in done
    \/ \E c \in Vibrations : at[c] = "thrown"
============================================================================
