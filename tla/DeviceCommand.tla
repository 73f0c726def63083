--------------------------- MODULE DeviceCommand ----------------------------
(***************************************************************************)
(* The device domain: commands to a locker device, executed once under an  *)
(* idempotency key before they expire, and the heartbeats that say whether *)
(* a device can be sent one.                                               *)
(*                                                                         *)
(* No transaction spans two statements: a request reads the command and    *)
(* the device, then updates the command on a condition, calls the gateway  *)
(* and updates it again.  A step is one statement or the call.             *)
(***************************************************************************)
EXTENDS Naturals

CONSTANTS Requests,   \* requests in service at a time
          Keys,       \* idempotency keys
          Devices,    \* devices, which here stand for all that a request asks
          None,
          Expiries,   \* expiry times a request can name, past ones included
          Threshold,  \* a device is offline this long after its heartbeat
          MaxAttempts,
          MaxTime, MaxBeats, MaxFaults  \* bounds on the environment

ASSUME DeviceCommandAssumption ==
  /\ Expiries \subseteq Nat /\ None \notin Devices \cup Keys
  /\ {Threshold, MaxAttempts, MaxTime} \subseteq Nat \ {0}
  /\ {MaxBeats, MaxFaults} \subseteq Nat

VARIABLES command,  \* the table device_commands, by idempotency key
          device,   \* the table locker_devices
          req,      \* the requests
          clock, beats, faults,
          sent,     \* ghost: how often a key's command has gone to the gateway
          overlaid, \* ghost: keys whose command was recorded expired while it ran
          lost      \* ghost: keys whose command lost its request while it ran

ghosts == <<sent, overlaid, lost>>
counters == <<clock, beats, faults>>
vars == <<command, device, req, counters, ghosts>>

Terminal == {"SUCCEEDED", "FAILED", "TIMED_OUT", "EXPIRED"}
Status == {"PENDING", "RUNNING"} \cup Terminal

\* A row, and what a request holds of it; device is None where there is no row.
Command == [device : Devices \cup {None}, status : Status, until : Nat, attempts : Nat]
NoCommand == [device |-> None, status |-> "PENDING", until |-> 0, attempts |-> 0]

Device == [network : {"ONLINE", "OFFLINE"}, operational : {"ACTIVE", "MAINTENANCE", "DISABLED"},
           beat : Nat]

Req == [phase : {"idle", "finding", "creating", "running", "marking", "sending",
                 "completing", "expiring"},
        key : Keys \cup {None}, held : Command, now : Nat, result : Terminal, again : BOOLEAN]
Idle(k) == [phase |-> "idle", key |-> k, held |-> NoCommand, now |-> 0,
            result |-> "EXPIRED", again |-> FALSE]

Init ==
  /\ command = [k \in Keys |-> NoCommand]
  /\ device \in [Devices -> [network : {"ONLINE"}, operational : {"ACTIVE", "MAINTENANCE"},
                             beat : {1}]]
  /\ req = [r \in Requests |-> Idle(None)]
  /\ clock = 1 /\ beats = 0 /\ faults = 0
  /\ sent = [k \in Keys |-> 0] /\ overlaid = {} /\ lost = {}

-----------------------------------------------------------------------------
\* Heartbeats.

\* As the device reports it: in any order, in the past or in the future.
\* Bound: no report names a time after MaxTime.
RecordHeartbeat(d, at, network) ==
  /\ beats < MaxBeats /\ beats' = beats + 1
  /\ device' = [device EXCEPT ![d].network = network, ![d].beat = at]
  /\ UNCHANGED <<command, req, clock, faults, ghosts>>

validateDevice(d) ==
  /\ device[d].network = "ONLINE" /\ clock < device[d].beat + Threshold
  /\ device[d].operational = "ACTIVE"

-----------------------------------------------------------------------------
\* The table device_commands.

\* Faulty variant: a command is marked whatever its status.
MarkRunning_AnyStatus(c, now) == c.until > now

\* Its UPDATE's condition.
MarkRunning(c, now) == c.status = "PENDING" /\ c.until > now /\ c.attempts < MaxAttempts

\* Faulty variant: an expiry replaces any status.
Completes_AnyExpired(c, status) == status = "EXPIRED" \/ c.status = "RUNNING"

\* Faulty variant: a result is written over whatever is there.
Completes_Always(c, status) == c.status # "PENDING" \/ status = "EXPIRED"

\* The condition of CompleteCommand's UPDATE.
Completes(c, status) ==
  c.status = "RUNNING" \/ (status = "EXPIRED" /\ c.status = "PENDING")

-----------------------------------------------------------------------------
\* Execute.

Goes(r, phase) == req' = [req EXCEPT ![r].phase = phase]
Ends(r) == req' = [req EXCEPT ![r] = Idle(None)]

\* A request for device d, with the expiry it names.
Execute(r, k, d, until) ==
  /\ req[r].phase = "idle"
  /\ req' = [req EXCEPT ![r] = [Idle(k) EXCEPT
               !.phase = "finding", !.held = [NoCommand EXCEPT !.device = d, !.until = until]]]
  /\ UNCHANGED <<command, device, counters, ghosts>>

\* FindCommandByIdempotencyKey.  A command that is not pending is the reply, and
\* one that asks something else a conflict.  After a conflict of keys the
\* command is looked for again.
FindCommand(r) ==
  LET q == req[r]
      c == command[q.key] IN
  /\ q.phase = "finding"
  /\ IF c.device = None
     THEN IF q.again \/ ~validateDevice(q.held.device) THEN Ends(r)
          ELSE req' = [req EXCEPT ![r].phase = "creating", ![r].now = clock]
     ELSE IF c.device # q.held.device \/ c.status # "PENDING" THEN Ends(r)
     ELSE IF ~q.again /\ c.attempts >= MaxAttempts THEN Ends(r)
     ELSE req' = [req EXCEPT ![r].held = c,
                    ![r].phase = IF ~q.again /\ clock >= c.until THEN "expiring" ELSE "running"]
  /\ UNCHANGED <<command, device, counters, ghosts>>

\* Faulty variant: the creation counts as an attempt.
CreateCommand_Attempt(r) ==
  LET q == req[r] IN
  /\ q.phase = "creating"
  /\ IF command[q.key].device # None
     THEN req' = [req EXCEPT ![r].phase = "finding", ![r].again = TRUE] /\ UNCHANGED command
     ELSE /\ command' = [command EXCEPT ![q.key] = [q.held EXCEPT !.attempts = 1]]
          /\ Goes(r, IF q.now >= q.held.until THEN "expiring" ELSE "running")
  /\ UNCHANGED <<device, counters, ghosts>>

\* The unique key refuses a second command; the row is read back otherwise.
CreateCommand(r) ==
  LET q == req[r] IN
  /\ q.phase = "creating"
  /\ IF command[q.key].device # None
     THEN req' = [req EXCEPT ![r].phase = "finding", ![r].again = TRUE] /\ UNCHANGED command
     ELSE /\ command' = [command EXCEPT ![q.key] = q.held]
          /\ Goes(r, IF q.now >= q.held.until THEN "expiring" ELSE "running")
  /\ UNCHANGED <<device, counters, ghosts>>

\* run reads the clock, then the device.
ValidateRun(r) ==
  LET q == req[r] IN
  /\ q.phase = "running"
  /\ IF clock >= q.held.until THEN Goes(r, "expiring")
     ELSE IF q.held.attempts >= MaxAttempts \/ ~validateDevice(q.held.device) THEN Ends(r)
     ELSE req' = [req EXCEPT ![r].phase = "marking", ![r].now = clock]
  /\ UNCHANGED <<command, device, counters, ghosts>>

\* Of several requests one marks it; the others are told it is busy.
Mark(r) ==
  LET q == req[r] IN
  /\ q.phase = "marking"
  /\ IF MarkRunning(command[q.key], q.now)
     THEN /\ command' = [command EXCEPT ![q.key].status = "RUNNING", ![q.key].attempts = @ + 1]
          /\ Goes(r, "sending")
     ELSE Ends(r) /\ UNCHANGED command
  /\ UNCHANGED <<device, counters, ghosts>>

\* The gateway, which may also answer late, fail or not answer at all.
Send(r) ==
  /\ req[r].phase = "sending"
  /\ \E result \in Terminal \ {"EXPIRED"} :
       req' = [req EXCEPT ![r].phase = "completing", ![r].result = result]
  /\ sent' = [sent EXCEPT ![req[r].key] = @ + 1]
  /\ UNCHANGED <<command, device, counters, overlaid, lost>>

\* CompleteCommand with the result, or EXPIRED, in a context of its own.  Where
\* it changes no row the request ends with an error.
Complete(r) ==
  LET q == req[r]
      status == IF q.phase = "expiring" THEN "EXPIRED" ELSE q.result
      writes == Completes(command[q.key], status) IN
  /\ q.phase \in {"completing", "expiring"}
  /\ command' = IF writes THEN [command EXCEPT ![q.key].status = status] ELSE command
  /\ overlaid' = IF writes /\ status = "EXPIRED" /\ command[q.key].status = "RUNNING"
                 THEN overlaid \cup {q.key} ELSE overlaid
  /\ Ends(r)
  /\ UNCHANGED <<device, counters, sent, lost>>

\* A statement fails, or the process dies.  Nothing takes up a command that ran.
Fails(r) ==
  /\ req[r].phase # "idle"
  /\ faults < MaxFaults /\ faults' = faults + 1
  /\ lost' = IF req[r].phase \in {"sending", "completing"} THEN lost \cup {req[r].key} ELSE lost
  /\ Ends(r)
  /\ UNCHANGED <<command, device, clock, beats, sent, overlaid>>

Tick ==
  /\ clock < MaxTime /\ clock' = clock + 1
  /\ UNCHANGED <<command, device, req, beats, faults, ghosts>>

Serve(r) ==
  FindCommand(r) \/ CreateCommand(r) \/ ValidateRun(r) \/ Mark(r) \/ Send(r) \/ Complete(r)

Next ==
  \/ \E r \in Requests :
       \/ Serve(r) \/ Fails(r)
       \/ \E k \in Keys, d \in Devices, t \in Expiries : Execute(r, k, d, t)
  \/ \E d \in Devices, at \in 1..MaxTime, network \in {"ONLINE", "OFFLINE"} :
       RecordHeartbeat(d, at, network)
  \/ Tick

Spec == Init /\ [][Next]_vars

-----------------------------------------------------------------------------
\* Properties.

\* Nothing makes a command pending again, so that no second attempt is made and
\* MaxAttempts is never reached.
TypeOK ==
  /\ command \in [Keys -> Command]
  /\ \A k \in Keys : /\ command[k].device = None => command[k] = NoCommand
                     /\ command[k].attempts <= 1
                     /\ command[k].status = "PENDING" => command[k].attempts = 0
  /\ device \in [Devices -> Device]
  /\ req \in [Requests -> Req]
  /\ \A r \in Requests : (req[r].phase = "idle" <=> req[r].key = None)
  /\ clock \in 1..MaxTime /\ beats \in 0..MaxBeats /\ faults \in 0..MaxFaults
  /\ sent \in [Keys -> Nat] /\ overlaid \subseteq Keys /\ lost \subseteq Keys

(***************************************************************************)
(* However often a command is asked for, by requests at once or after a    *)
(* timeout, a failure or a crash, it goes to the gateway once at most.     *)
(***************************************************************************)
SentOnce == \A k \in Keys : sent[k] <= 1

(***************************************************************************)
(* The record tells what has happened to the door: a command with a result *)
(* has been sent; one that is pending has not, nor has one that has        *)
(* expired unless it was recorded so while it ran; and one that runs has   *)
(* its request, unless that was lost.                                      *)
(***************************************************************************)
RecordTells ==
  \A k \in Keys :
    LET c == command[k] IN
    /\ c.status \in {"SUCCEEDED", "FAILED", "TIMED_OUT"} => sent[k] = 1
    /\ c.status = "PENDING" => sent[k] = 0
    /\ c.status = "EXPIRED" /\ sent[k] > 0 => k \in overlaid
    /\ c.status = "RUNNING" =>
         k \in lost \/ \E r \in Requests : req[r].key = k /\ req[r].phase \in {"sending", "completing"}

(***************************************************************************)
(* What a command asks and its result never change, whatever requests that *)
(* read it earlier still do.                                               *)
(***************************************************************************)
ResultStays ==
  [][\A k \in Keys :
       /\ command[k].device # None => /\ command'[k].device = command[k].device
                                      /\ command'[k].until = command[k].until
       /\ command[k].status \in Terminal => command'[k] = command[k]]_command
=============================================================================
