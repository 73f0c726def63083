------------------------- MODULE DeviceCommandProofs ------------------------
(***************************************************************************)
(* Proofs about DeviceCommand for any number of requests, keys and         *)
(* devices, any expiries and any bound on the environment.                 *)
(***************************************************************************)
EXTENDS DeviceCommand, TLAPS

\* A request between the statement that marks its command and the one that
\* completes it.
Working(q) == q.phase \in {"sending", "completing"}

\* What a request is about to create, and what it does to a command that exists.
PreparedBy(q) ==
  /\ q.phase \in {"finding", "creating"} =>
       q.held.device \in Devices /\ q.held.status = "PENDING" /\ q.held.attempts = 0
  /\ q.phase \in {"running", "marking", "sending", "completing", "expiring"} =>
       command[q.key].device \in Devices
  /\ q.phase = "completing" => q.result # "EXPIRED"

\* A command that a request works on runs, or has been recorded expired under
\* it, and has gone to the gateway exactly if the request has been there.
CarriedBy(q) ==
  Working(q) =>
    /\ \/ command[q.key].status = "RUNNING"
       \/ command[q.key].status = "EXPIRED" /\ q.key \in overlaid
    /\ sent[q.key] = IF q.phase = "sending" THEN 0 ELSE 1

Alone ==
  \A r, s \in Requests :
    Working(req[r]) /\ Working(req[s]) /\ req[r].key = req[s].key => r = s

CommandInv ==
  /\ TypeOK /\ SentOnce /\ RecordTells /\ Alone
  /\ \A r \in Requests : PreparedBy(req[r]) /\ CarriedBy(req[r])

-----------------------------------------------------------------------------
\* Kinds of steps.

Asked(k, d, t) ==
  [Idle(k) EXCEPT !.phase = "finding", !.held = [NoCommand EXCEPT !.device = d, !.until = t]]

LEMMA IdleType == Idle(None) \in Req
BY DEF Idle, NoCommand, Command, Status, Req, Terminal

LEMMA AskedType ==
  ASSUME NEW k \in Keys, NEW d \in Devices, NEW t \in Expiries
  PROVE  /\ Asked(k, d, t) \in Req /\ PreparedBy(Asked(k, d, t))
         /\ Asked(k, d, t).phase = "finding" /\ Asked(k, d, t).key = k
<1>1. t \in Nat
  BY DeviceCommandAssumption
<1> DEFINE c == [NoCommand EXCEPT !.device = d, !.until = t]
<1>2. c \in Command /\ c.device = d /\ c.status = "PENDING" /\ c.attempts = 0
  BY <1>1 DEF NoCommand, Command, Status
<1>3. Asked(k, d, t) = [Idle(k) EXCEPT !.phase = "finding", !.held = c]
  BY DEF Asked
<1> HIDE DEF c
<1>4. Asked(k, d, t) = [phase |-> "finding", key |-> k, held |-> c, now |-> 0,
                        result |-> "EXPIRED", again |-> FALSE]
  BY <1>3 DEF Idle
<1>5. QED
  BY <1>2, <1>4 DEF Req, Terminal, PreparedBy

\* A request that does not work on its command goes on without doing so.
LEMMA Quiet ==
  ASSUME CommandInv, NEW r \in Requests, NEW q \in Req,
         req' = [req EXCEPT ![r] = q],
         ~Working(req[r]), ~Working(q),
         q.phase = "idle" <=> q.key = None, PreparedBy(q),
         UNCHANGED <<command, device, counters, ghosts>>
  PROVE  CommandInv'
<1>1. TypeOK'
  BY DEF CommandInv, TypeOK, counters, ghosts
<1>2. \A s \in Requests : req'[s] = IF s = r THEN q ELSE req[s]
  BY DEF CommandInv, TypeOK
<1>3. SentOnce'
  BY DEF CommandInv, SentOnce, ghosts
<1>4. RecordTells'
  BY <1>2 DEF CommandInv, RecordTells, Working, ghosts
<1>5. Alone'
  BY <1>2 DEF CommandInv, Alone, Working
<1>6. \A s \in Requests : PreparedBy(req[s])' /\ CarriedBy(req[s])'
  BY <1>2 DEF CommandInv, PreparedBy, CarriedBy, Working, ghosts
<1>7. QED
  BY <1>1, <1>3, <1>4, <1>5, <1>6 DEF CommandInv

\* Nothing happens to the requests and the commands.
LEMMA Elsewhere ==
  ASSUME CommandInv, UNCHANGED <<command, req, ghosts>>,
         device' \in [Devices -> Device],
         clock' \in 1..MaxTime, beats' \in 0..MaxBeats, faults' \in 0..MaxFaults
  PROVE  CommandInv'
<1>1. TypeOK'
  BY DEF CommandInv, TypeOK, ghosts
<1>2. SentOnce' /\ RecordTells' /\ Alone'
  BY DEF CommandInv, SentOnce, RecordTells, Alone, Working, ghosts
<1>3. \A s \in Requests : PreparedBy(req[s])' /\ CarriedBy(req[s])'
  BY DEF CommandInv, PreparedBy, CarriedBy, Working, ghosts
<1>4. QED
  BY <1>1, <1>2, <1>3 DEF CommandInv

\* A request ends without having worked on its command.
LEMMA QuietEnd ==
  ASSUME CommandInv, NEW r \in Requests, Ends(r), ~Working(req[r]),
         UNCHANGED <<command, device, counters, ghosts>>
  PROVE  CommandInv'
<1> DEFINE q == Idle(None)
<1>1. req' = [req EXCEPT ![r] = q]
  BY DEF Ends
<1>2. q \in Req /\ ~Working(q) /\ q.phase = "idle" /\ q.key = None /\ PreparedBy(q)
  BY IdleType DEF Idle, Working, PreparedBy
<1> HIDE DEF q
<1>3. QED
  BY <1>1, <1>2, Quiet

\* A request goes on to another phase without working on its command.
LEMMA QuietGoes ==
  ASSUME CommandInv, NEW r \in Requests, NEW phase, NEW now \in Nat,
         NEW held \in Command, NEW again \in BOOLEAN,
         phase \in {"finding", "creating", "running", "marking", "expiring"},
         req' = [req EXCEPT ![r] = [req[r] EXCEPT !.phase = phase, !.now = now,
                                      !.held = held, !.again = again]],
         req[r].phase # "idle", ~Working(req[r]),
         PreparedBy([req[r] EXCEPT !.phase = phase, !.now = now, !.held = held, !.again = again]),
         UNCHANGED <<command, device, counters, ghosts>>
  PROVE  CommandInv'
<1> DEFINE q == [req[r] EXCEPT !.phase = phase, !.now = now, !.held = held, !.again = again]
<1>1. req[r] \in Req
  BY DEF CommandInv, TypeOK
<1>2. q \in Req /\ ~Working(q) /\ q.phase # "idle"
  BY <1>1 DEF Req, Working
<1>3. q.key # None
  BY <1>1 DEF CommandInv, TypeOK, Req
<1>4. req' = [req EXCEPT ![r] = q] /\ PreparedBy(q)
  OBVIOUS
<1> HIDE DEF q
<1>5. QED
  BY <1>2, <1>3, <1>4, Quiet

-----------------------------------------------------------------------------
\* Each action.

LEMMA ExecuteInv ==
  ASSUME CommandInv, NEW r \in Requests, NEW k \in Keys, NEW d \in Devices,
         NEW t \in Expiries, Execute(r, k, d, t)
  PROVE  CommandInv'
<1>1. req' = [req EXCEPT ![r] = Asked(k, d, t)] /\ ~Working(req[r])
  BY DEF Execute, Asked, Working
<1>2. /\ Asked(k, d, t) \in Req /\ ~Working(Asked(k, d, t)) /\ PreparedBy(Asked(k, d, t))
      /\ Asked(k, d, t).phase # "idle" /\ Asked(k, d, t).key # None
  BY AskedType, DeviceCommandAssumption DEF Working
<1>3. UNCHANGED <<command, device, counters, ghosts>>
  BY DEF Execute
<1>4. QED
  BY <1>1, <1>2, <1>3, Quiet

LEMMA FindCommandInv ==
  ASSUME CommandInv, NEW r \in Requests, FindCommand(r)
  PROVE  CommandInv'
<1> DEFINE q == req[r]
           c == command[q.key]
<1>1. /\ q \in Req /\ q.phase = "finding" /\ ~Working(q) /\ q.key \in Keys
      /\ c \in Command /\ clock \in Nat /\ PreparedBy(q)
      /\ UNCHANGED <<command, device, counters, ghosts>>
  BY DeviceCommandAssumption DEF CommandInv, TypeOK, FindCommand, Req, Working
<1>2. CASE Ends(r)
  BY <1>1, <1>2, QuietEnd
<1>3. CASE req' = [req EXCEPT ![r].phase = "creating", ![r].now = clock]
  <2>1. req' = [req EXCEPT ![r] = [q EXCEPT !.phase = "creating", !.now = clock,
                                     !.held = q.held, !.again = q.again]]
    BY <1>1, <1>3 DEF Req
  <2>2. PreparedBy([q EXCEPT !.phase = "creating", !.now = clock,
                             !.held = q.held, !.again = q.again])
    BY <1>1 DEF PreparedBy, Req
  <2>3. q.held \in Command /\ q.again \in BOOLEAN
    BY <1>1 DEF Req
  <2>4. QED
    BY <1>1, <2>1, <2>2, <2>3, QuietGoes
<1>4. ASSUME NEW phase \in {"expiring", "running"}, c.device # None,
             req' = [req EXCEPT ![r].held = c, ![r].phase = phase]
      PROVE  CommandInv'
  <2>1. req' = [req EXCEPT ![r] = [q EXCEPT !.phase = phase, !.now = q.now,
                                     !.held = c, !.again = q.again]]
    BY <1>1, <1>4 DEF Req
  <2>2. c.device \in Devices
    BY <1>1, <1>4 DEF Command
  <2>3. PreparedBy([q EXCEPT !.phase = phase, !.now = q.now, !.held = c, !.again = q.again])
    BY <1>1, <2>2 DEF PreparedBy, Req
  <2>4. q.now \in Nat /\ q.again \in BOOLEAN
    BY <1>1 DEF Req
  <2>5. QED
    BY <1>1, <2>1, <2>3, <2>4, QuietGoes
<1>5. QED
  BY <1>1, <1>2, <1>3, <1>4 DEF FindCommand

LEMMA CreateCommandInv ==
  ASSUME CommandInv, NEW r \in Requests, CreateCommand(r)
  PROVE  CommandInv'
<1> DEFINE q == req[r]
           k == req[r].key
<1>1. /\ q \in Req /\ q.phase = "creating" /\ ~Working(q) /\ k \in Keys
      /\ command[k] \in Command /\ q.held \in Command /\ q.now \in Nat
      /\ q.held.device \in Devices /\ q.held.status = "PENDING" /\ q.held.attempts = 0
      /\ UNCHANGED <<device, counters, ghosts>>
  BY DeviceCommandAssumption
     DEF CommandInv, TypeOK, CreateCommand, Req, Working, PreparedBy
<1>2. CASE command[k].device # None
  <2>1. /\ req' = [req EXCEPT ![r] = [q EXCEPT !.phase = "finding", !.now = q.now,
                                        !.held = q.held, !.again = TRUE]]
        /\ UNCHANGED command
    BY <1>1, <1>2 DEF CreateCommand, Req
  <2>2. PreparedBy([q EXCEPT !.phase = "finding", !.now = q.now,
                             !.held = q.held, !.again = TRUE])
    BY <1>1 DEF PreparedBy, Req
  <2>3. QED
    BY <1>1, <2>1, <2>2, QuietGoes
<1>3. CASE command[k].device = None
  <2>1. PICK phase \in {"expiring", "running"} :
          /\ command' = [command EXCEPT ![k] = q.held]
          /\ req' = [req EXCEPT ![r].phase = phase]
    BY <1>3 DEF CreateCommand, Goes
  <2>2. command[k].status = "PENDING" /\ sent[k] = 0
    BY <1>1, <1>3 DEF CommandInv, TypeOK, RecordTells, NoCommand
  <2>3. \A s \in Requests : Working(req[s]) => req[s].key # k
    BY <1>1, <2>2 DEF CommandInv, CarriedBy
  <2>4. /\ req'[r] = [q EXCEPT !.phase = phase]
        /\ req'[r] \in Req /\ ~Working(req'[r]) /\ req'[r].key = k
        /\ req'[r].phase = phase
        /\ req' \in [Requests -> Req]
        /\ \A s \in Requests \ {r} : req'[s] = req[s]
    BY <1>1, <2>1 DEF CommandInv, TypeOK, Req, Working
  <2>5. /\ command' \in [Keys -> Command] /\ command'[k] = q.held
        /\ \A j \in Keys \ {k} : command'[j] = command[j]
    BY <1>1, <2>1 DEF CommandInv, TypeOK
  <2>6. k # None /\ None \notin Devices
    BY <1>1, DeviceCommandAssumption
  <2>7. TypeOK'
    <3>1. \A j \in Keys : /\ command'[j].device = None => command'[j] = NoCommand
                          /\ command'[j].attempts <= 1
                          /\ command'[j].status = "PENDING" => command'[j].attempts = 0
      BY <1>1, <2>5, <2>6 DEF CommandInv, TypeOK
    <3>2. \A s \in Requests : req'[s].phase = "idle" <=> req'[s].key = None
      BY <2>4, <2>6 DEF CommandInv, TypeOK
    <3>3. QED
      BY <1>1, <2>4, <2>5, <3>1, <3>2 DEF CommandInv, TypeOK, counters, ghosts
  <2>8. SentOnce'
    BY <1>1 DEF CommandInv, SentOnce, ghosts
  <2>9. RecordTells'
    BY <1>1, <2>2, <2>4, <2>5 DEF CommandInv, RecordTells, Working, ghosts
  <2>10. Alone'
    BY <2>4 DEF CommandInv, Alone
  <2>11. ASSUME NEW s \in Requests PROVE PreparedBy(req[s])' /\ CarriedBy(req[s])'
    <3>1. CASE s = r
      BY <1>1, <2>4, <2>5, <3>1 DEF PreparedBy, CarriedBy
    <3>2. CASE s # r
      <4>1. req'[s] = req[s] /\ req[s] \in Req /\ PreparedBy(req[s]) /\ CarriedBy(req[s])
        BY <2>4, <3>2 DEF CommandInv, TypeOK
      <4>2. req[s].phase \notin {"idle"} => req[s].key \in Keys
        BY <4>1 DEF CommandInv, TypeOK, Req
      <4>3. PreparedBy(req[s])'
        BY <1>1, <2>5, <4>1, <4>2 DEF PreparedBy
      <4>4. CarriedBy(req[s])'
        BY <1>1, <2>3, <2>5, <4>1, <4>2 DEF CarriedBy, Working, ghosts
      <4>5. QED
        BY <4>3, <4>4
    <3>3. QED
      BY <3>1, <3>2
  <2>12. QED
    BY <2>7, <2>8, <2>9, <2>10, <2>11 DEF CommandInv
<1>4. QED
  BY <1>2, <1>3

LEMMA ValidateRunInv ==
  ASSUME CommandInv, NEW r \in Requests, ValidateRun(r)
  PROVE  CommandInv'
<1> DEFINE q == req[r]
<1>1. /\ q \in Req /\ q.phase = "running" /\ ~Working(q) /\ PreparedBy(q)
      /\ q.held \in Command /\ q.now \in Nat /\ q.again \in BOOLEAN /\ clock \in Nat
      /\ UNCHANGED <<command, device, counters, ghosts>>
  BY DeviceCommandAssumption DEF CommandInv, TypeOK, ValidateRun, Req, Working
<1>2. CASE Ends(r)
  BY <1>1, <1>2, QuietEnd
<1>3. ASSUME NEW phase \in {"expiring", "marking"}, NEW now \in Nat,
             req' = [req EXCEPT ![r].phase = phase, ![r].now = now]
      PROVE  CommandInv'
  <2>1. req' = [req EXCEPT ![r] = [q EXCEPT !.phase = phase, !.now = now,
                                     !.held = q.held, !.again = q.again]]
    BY <1>1, <1>3 DEF Req
  <2>2. PreparedBy([q EXCEPT !.phase = phase, !.now = now, !.held = q.held, !.again = q.again])
    BY <1>1 DEF PreparedBy, Req
  <2>3. QED
    BY <1>1, <2>1, <2>2, QuietGoes
<1>4. CASE Goes(r, "expiring")
  <2>1. req' = [req EXCEPT ![r].phase = "expiring", ![r].now = q.now]
    BY <1>1, <1>4 DEF Goes, Req
  <2>2. QED
    BY <1>1, <1>3, <2>1
<1>5. CASE req' = [req EXCEPT ![r].phase = "marking", ![r].now = clock]
  BY <1>1, <1>3, <1>5
<1>6. QED
  BY <1>2, <1>4, <1>5 DEF ValidateRun

-----------------------------------------------------------------------------
\* The steps that mark a command, send it, complete it or lose it.

\* What stays true of another request when the command k changes.
LEMMA Others ==
  ASSUME CommandInv, NEW k \in Keys, NEW s \in Requests, req'[s] = req[s],
         \A j \in Keys \ {k} : command'[j] = command[j] /\ sent'[j] = sent[j],
         command[k].device \in Devices => command'[k].device \in Devices,
         overlaid \subseteq overlaid',
         Working(req[s]) /\ req[s].key = k => CarriedBy(req[s])'
  PROVE  PreparedBy(req[s])' /\ CarriedBy(req[s])'
<1>1. /\ req[s] \in Req /\ PreparedBy(req[s]) /\ CarriedBy(req[s])
      /\ req[s].phase # "idle" => req[s].key \in Keys
  BY DEF CommandInv, TypeOK, Req
<1>2. PreparedBy(req[s])'
  BY <1>1 DEF PreparedBy
<1>3. CarriedBy(req[s])'
  <2>1. SUFFICES ASSUME Working(req[s]), req[s].key # k PROVE CarriedBy(req[s])'
    BY DEF CarriedBy, Working
  <2>2. req[s].key \in Keys \ {k}
    BY <1>1, <2>1 DEF Working
  <2>3. QED
    BY <1>1, <2>1, <2>2 DEF CarriedBy
<1>4. QED
  BY <1>2, <1>3

\* The types after a step of one request that changes its command.
LEMMA StepType ==
  ASSUME CommandInv, NEW r \in Requests, NEW q \in Req, NEW k \in Keys, NEW c \in Command,
         req' = [req EXCEPT ![r] = q], q.phase = "idle" <=> q.key = None,
         command' = [command EXCEPT ![k] = c],
         c.device = None => c = NoCommand,
         c.attempts <= 1, c.status = "PENDING" => c.attempts = 0,
         sent' \in [Keys -> Nat], overlaid' \subseteq Keys, lost' \subseteq Keys,
         faults' \in 0..MaxFaults, UNCHANGED <<device, clock, beats>>
  PROVE  TypeOK'
BY DEF CommandInv, TypeOK

LEMMA MarkedType ==
  ASSUME NEW x \in Command, x.attempts = 0
  PROVE  LET c == [x EXCEPT !.status = "RUNNING", !.attempts = x.attempts + 1] IN
         c \in Command /\ c.device = x.device /\ c.status = "RUNNING" /\ c.attempts = 1
<1> DEFINE c == [x EXCEPT !.status = "RUNNING", !.attempts = 1]
<1>1. [x EXCEPT !.status = "RUNNING", !.attempts = x.attempts + 1] = c
  OBVIOUS
<1>2. "RUNNING" \in Status /\ 1 \in Nat
  BY DEF Status
<1>3. c \in Command
  BY <1>2 DEF Command
<1>4. c.device = x.device /\ c.status = "RUNNING" /\ c.attempts = 1
  BY DEF Command
<1>5. QED
  BY <1>1, <1>3, <1>4

LEMMA MarkInv ==
  ASSUME CommandInv, NEW r \in Requests, Mark(r)
  PROVE  CommandInv'
<1> DEFINE q == req[r]
           k == req[r].key
<1>1. /\ q \in Req /\ q.phase = "marking" /\ ~Working(q) /\ k \in Keys /\ k # None
      /\ command[k] \in Command /\ command[k].device \in Devices
      /\ UNCHANGED <<device, counters, ghosts>>
  BY DeviceCommandAssumption DEF CommandInv, TypeOK, Mark, Req, Working, PreparedBy
<1>2. CASE ~MarkRunning(command[k], q.now)
  BY <1>1, <1>2, QuietEnd DEF Mark
<1>3. CASE MarkRunning(command[k], q.now)
  <2> DEFINE c == [command[k] EXCEPT !.status = "RUNNING", !.attempts = command[k].attempts + 1]
             p == [q EXCEPT !.phase = "sending"]
  <2>1. command' = [command EXCEPT ![k] = c] /\ req' = [req EXCEPT ![r] = p]
    <3>1. command' = [command EXCEPT ![k].status = "RUNNING", ![k].attempts = @ + 1]
      BY <1>3 DEF Mark
    <3>2. command \in [Keys -> Command]
      BY DEF CommandInv, TypeOK
    <3>3. command' = [command EXCEPT ![k] = c]
      BY <1>1, <3>1, <3>2 DEF Command
    <3>4. QED
      BY <1>3, <3>3 DEF Mark, Goes
  <2>2. /\ command[k].status = "PENDING" /\ command[k].attempts = 0 /\ sent[k] = 0
        /\ \A s \in Requests : Working(req[s]) => req[s].key # k
    BY <1>1, <1>3 DEF MarkRunning, CommandInv, TypeOK, RecordTells, CarriedBy
  <2>3. /\ c \in Command /\ c.device \in Devices /\ c.status = "RUNNING" /\ c.attempts = 1
        /\ p \in Req /\ p.phase = "sending" /\ p.key = k
    <3>1. c \in Command /\ c.device = command[k].device /\ c.status = "RUNNING" /\ c.attempts = 1
      BY <1>1, <2>2, MarkedType
    <3>2. p \in Req /\ p.phase = "sending" /\ p.key = k
      BY <1>1 DEF Req
    <3>3. QED
      BY <1>1, <3>1, <3>2
  <2> HIDE DEF c, p
  <2>4. /\ command'[k] = c /\ \A j \in Keys \ {k} : command'[j] = command[j]
        /\ req'[r] = p /\ \A s \in Requests \ {r} : req'[s] = req[s]
        /\ UNCHANGED <<sent, overlaid, lost>>
    BY <1>1, <2>1 DEF CommandInv, TypeOK, ghosts
  <2>5. TypeOK'
    <3>1. None \notin Devices
      BY DeviceCommandAssumption
    <3>2. /\ sent' \in [Keys -> Nat] /\ overlaid' \subseteq Keys /\ lost' \subseteq Keys
          /\ faults' \in 0..MaxFaults
      BY <1>1 DEF CommandInv, TypeOK, counters, ghosts
    <3>3. /\ c.device # None /\ c.attempts <= 1 /\ c.status # "PENDING"
          /\ p.phase # "idle" /\ p.key # None
          /\ UNCHANGED <<device, clock, beats>>
      BY <1>1, <2>3, <3>1 DEF counters
    <3>4. QED
      BY <1>1, <2>1, <2>3, <3>2, <3>3, StepType
  <2>6. SentOnce'
    BY <2>4 DEF CommandInv, SentOnce
  <2>7. RecordTells'
    <3>1. ASSUME NEW j \in Keys \ {k}, command[j].status = "RUNNING", j \notin lost
          PROVE  \E s \in Requests : req'[s].key = j /\ Working(req'[s])
      <4>1. PICK s \in Requests : req[s].key = j /\ Working(req[s])
        BY <3>1 DEF CommandInv, RecordTells, Working
      <4>2. s # r
        BY <1>1, <4>1
      <4>3. QED
        BY <2>4, <4>1, <4>2
    <3>2. QED
      BY <2>3, <2>4, <3>1 DEF CommandInv, RecordTells, Working
  <2>8. Alone'
    BY <2>2, <2>3, <2>4 DEF CommandInv, Alone
  <2>9. ASSUME NEW s \in Requests PROVE PreparedBy(req[s])' /\ CarriedBy(req[s])'
    <3>1. CASE s = r
      BY <2>2, <2>3, <2>4, <3>1 DEF PreparedBy, CarriedBy
    <3>2. CASE s # r
      BY <1>1, <2>2, <2>3, <2>4, <3>2, Others
    <3>3. QED
      BY <3>1, <3>2
  <2>10. QED
    BY <2>5, <2>6, <2>7, <2>8, <2>9 DEF CommandInv
<1>4. QED
  BY <1>2, <1>3

LEMMA SendInv ==
  ASSUME CommandInv, NEW r \in Requests, Send(r)
  PROVE  CommandInv'
<1> DEFINE q == req[r]
           k == req[r].key
<1>1. PICK result \in Terminal \ {"EXPIRED"} :
        req' = [req EXCEPT ![r].phase = "completing", ![r].result = result]
  BY DEF Send
<1> DEFINE p == [q EXCEPT !.phase = "completing", !.result = result]
<1>2. /\ q \in Req /\ q.phase = "sending" /\ Working(q) /\ k \in Keys /\ k # None
      /\ command[k] \in Command /\ command[k].device \in Devices
      /\ command[k].status = "RUNNING" \/ (command[k].status = "EXPIRED" /\ k \in overlaid)
      /\ sent[k] = 0
      /\ UNCHANGED <<command, device, counters, overlaid, lost>>
      /\ sent' = [sent EXCEPT ![k] = @ + 1]
  BY DeviceCommandAssumption DEF CommandInv, TypeOK, Send, Req, Working, PreparedBy, CarriedBy
<1>3. /\ p \in Req /\ p.phase = "completing" /\ p.key = k /\ p.result # "EXPIRED"
      /\ req' = [req EXCEPT ![r] = p]
  BY <1>1, <1>2 DEF Req
<1> HIDE DEF p
<1>4. /\ req'[r] = p /\ \A s \in Requests \ {r} : req'[s] = req[s]
      /\ sent'[k] = 1 /\ \A j \in Keys \ {k} : sent'[j] = sent[j]
      /\ sent' \in [Keys -> Nat]
  BY <1>2, <1>3 DEF CommandInv, TypeOK
<1>5. TypeOK'
  BY <1>2, <1>3, <1>4 DEF CommandInv, TypeOK, counters
<1>6. SentOnce'
  BY <1>4 DEF CommandInv, SentOnce
<1>7. RecordTells'
  <2>1. ASSUME NEW j \in Keys, command[j].status = "RUNNING", j \notin lost
        PROVE  \E s \in Requests : req'[s].key = j /\ Working(req'[s])
    <3>1. PICK s \in Requests : req[s].key = j /\ Working(req[s])
      BY <2>1 DEF CommandInv, RecordTells, Working
    <3>2. CASE s = r
      BY <1>3, <1>4, <3>1, <3>2 DEF Working
    <3>3. CASE s # r
      BY <1>4, <3>1, <3>3
    <3>4. QED
      BY <3>2, <3>3
  <2>2. QED
    BY <1>2, <1>4, <2>1 DEF CommandInv, RecordTells, Working
<1>8. \A s \in Requests \ {r} : Working(req[s]) => req[s].key # k
  BY <1>2 DEF CommandInv, Alone
<1>9. Alone'
  BY <1>3, <1>4, <1>8 DEF CommandInv, Alone
<1>10. ASSUME NEW s \in Requests PROVE PreparedBy(req[s])' /\ CarriedBy(req[s])'
  <2>1. CASE s = r
    BY <1>2, <1>3, <1>4, <2>1 DEF PreparedBy, CarriedBy
  <2>2. CASE s # r
    BY <1>2, <1>4, <1>8, <2>2, Others
  <2>3. QED
    BY <2>1, <2>2
<1>11. QED
  BY <1>5, <1>6, <1>7, <1>9, <1>10 DEF CommandInv

\* A request that works on its command ends; another one works on another.
LEMMA WorkEnds ==
  ASSUME CommandInv, NEW r \in Requests, Working(req[r]), Ends(r)
  PROVE  /\ req' \in [Requests -> Req] /\ req'[r] = Idle(None)
         /\ ~Working(req'[r]) /\ req'[r].phase = "idle" /\ req'[r].key = None
         /\ \A s \in Requests \ {r} : req'[s] = req[s]
         /\ \A s \in Requests \ {r} : Working(req[s]) => req[s].key # req[r].key
         /\ Alone'
<1>1. /\ req' \in [Requests -> Req] /\ req'[r] = Idle(None)
      /\ \A s \in Requests \ {r} : req'[s] = req[s]
  BY IdleType DEF CommandInv, TypeOK, Ends
<1>2. ~Working(req'[r]) /\ req'[r].phase = "idle" /\ req'[r].key = None
  BY <1>1 DEF Working, Idle
<1>3. \A s \in Requests \ {r} : Working(req[s]) => req[s].key # req[r].key
  BY DEF CommandInv, Alone
<1>4. Alone'
  BY <1>1, <1>2 DEF CommandInv, Alone
<1>5. QED
  BY <1>1, <1>2, <1>3, <1>4

\* Its UPDATE finds no row to change.
LEMMA CompleteNothing ==
  ASSUME CommandInv, NEW r \in Requests, Working(req[r]), Ends(r),
         command[req[r].key].status # "RUNNING",
         UNCHANGED <<command, device, counters, ghosts>>
  PROVE  CommandInv'
<1> USE WorkEnds
<1> DEFINE k == req[r].key
<1>1. TypeOK'
  BY DEF CommandInv, TypeOK, counters, ghosts
<1>2. SentOnce'
  BY DEF CommandInv, SentOnce, ghosts
<1>3. RecordTells'
  <2>1. ASSUME NEW j \in Keys, command[j].status = "RUNNING", j \notin lost
        PROVE  \E s \in Requests : req'[s].key = j /\ Working(req'[s])
    <3>1. PICK s \in Requests : req[s].key = j /\ Working(req[s])
      BY <2>1 DEF CommandInv, RecordTells, Working
    <3>2. s # r
      BY <2>1, <3>1
    <3>3. QED
      BY <3>1, <3>2
  <2>2. QED
    BY <2>1 DEF CommandInv, RecordTells, Working, ghosts
<1>4. ASSUME NEW s \in Requests PROVE PreparedBy(req[s])' /\ CarriedBy(req[s])'
  BY <1>4 DEF CommandInv, PreparedBy, CarriedBy, Working, ghosts
<1>5. QED
  BY <1>1, <1>2, <1>3, <1>4 DEF CommandInv

\* The result is written over RUNNING.
LEMMA CompleteResult ==
  ASSUME CommandInv, NEW r \in Requests, req[r].phase = "completing", Ends(r),
         NEW result \in Terminal, result # "EXPIRED",
         command[req[r].key].status = "RUNNING",
         command' = [command EXCEPT ![req[r].key].status = result],
         UNCHANGED <<device, counters, ghosts>>
  PROVE  CommandInv'
<1> DEFINE q == req[r]
           k == req[r].key
           c == [command[k] EXCEPT !.status = result]
<1>1. /\ Working(q) /\ k \in Keys /\ command[k] \in Command /\ command[k].device \in Devices
      /\ command[k].attempts <= 1 /\ sent[k] = 1 /\ None \notin Devices
  BY DeviceCommandAssumption DEF CommandInv, TypeOK, Req, Working, PreparedBy, CarriedBy
<1>2. /\ c \in Command /\ c.device \in Devices /\ c.status = result
      /\ c.attempts = command[k].attempts /\ command' = [command EXCEPT ![k] = c]
  BY <1>1 DEF Command, Status
<1>3. result # "PENDING" /\ result # "RUNNING"
  BY DEF Terminal
<1> HIDE DEF c
<1>4. /\ command'[k] = c /\ \A j \in Keys \ {k} : command'[j] = command[j]
      /\ UNCHANGED <<sent, overlaid, lost>>
  BY <1>1, <1>2 DEF CommandInv, TypeOK, ghosts
<1>5. TypeOK'
  <2>1. /\ sent' \in [Keys -> Nat] /\ overlaid' \subseteq Keys /\ lost' \subseteq Keys
        /\ faults' \in 0..MaxFaults /\ UNCHANGED <<device, clock, beats>>
    BY <1>4 DEF CommandInv, TypeOK, counters
  <2>2. req' = [req EXCEPT ![r] = Idle(None)] /\ (Idle(None).phase = "idle" <=> Idle(None).key = None)
    BY DEF Ends, Idle
  <2>3. c.device # None /\ c.attempts <= 1 /\ c.status # "PENDING"
    BY <1>1, <1>2, <1>3
  <2>4. QED
    BY <1>1, <1>2, <2>1, <2>2, <2>3, IdleType, StepType
<1>6. SentOnce'
  BY <1>4 DEF CommandInv, SentOnce
<1>7. RecordTells'
  <2>1. ASSUME NEW j \in Keys \ {k}, command[j].status = "RUNNING", j \notin lost
        PROVE  \E s \in Requests : req'[s].key = j /\ Working(req'[s])
    <3>1. PICK s \in Requests : req[s].key = j /\ Working(req[s])
      BY <2>1 DEF CommandInv, RecordTells, Working
    <3>2. s # r
      BY <2>1, <3>1
    <3>3. QED
      BY <1>1, <3>1, <3>2, WorkEnds
  <2>2. QED
    BY <1>1, <1>2, <1>3, <1>4, <2>1 DEF CommandInv, RecordTells, Working
<1>8. ASSUME NEW s \in Requests PROVE PreparedBy(req[s])' /\ CarriedBy(req[s])'
  <2>1. CASE s = r
    BY <1>1, <2>1, WorkEnds DEF PreparedBy, CarriedBy, Working
  <2>2. CASE s # r
    BY <1>1, <1>2, <1>4, <2>2, WorkEnds, Others
  <2>3. QED
    BY <2>1, <2>2
<1>9. QED
  BY <1>1, <1>5, <1>6, <1>7, <1>8, WorkEnds DEF CommandInv

\* EXPIRED is written, over PENDING or over RUNNING.
LEMMA CompleteExpired ==
  ASSUME CommandInv, NEW r \in Requests, req[r].phase = "expiring", Ends(r),
         command[req[r].key].status \in {"PENDING", "RUNNING"},
         command' = [command EXCEPT ![req[r].key].status = "EXPIRED"],
         overlaid' = IF command[req[r].key].status = "RUNNING"
                     THEN overlaid \cup {req[r].key} ELSE overlaid,
         UNCHANGED <<device, counters, sent, lost>>
  PROVE  CommandInv'
<1> DEFINE q == req[r]
           k == req[r].key
           c == [command[k] EXCEPT !.status = "EXPIRED"]
<1>1. /\ ~Working(q) /\ k \in Keys /\ command[k] \in Command /\ command[k].device \in Devices
      /\ command[k].attempts <= 1 /\ None \notin Devices
  BY DeviceCommandAssumption DEF CommandInv, TypeOK, Req, Working, PreparedBy
<1>2. /\ c \in Command /\ c.device \in Devices /\ c.status = "EXPIRED"
      /\ c.attempts = command[k].attempts /\ command' = [command EXCEPT ![k] = c]
  BY <1>1 DEF Command, Status, Terminal
<1> HIDE DEF c
<1>3. /\ command'[k] = c /\ \A j \in Keys \ {k} : command'[j] = command[j]
      /\ overlaid \subseteq overlaid'
      /\ req' = [req EXCEPT ![r] = Idle(None)] /\ req'[r] = Idle(None)
      /\ \A s \in Requests \ {r} : req'[s] = req[s]
  BY <1>1, <1>2 DEF CommandInv, TypeOK, Ends
<1>4. Idle(None).phase = "idle" /\ Idle(None).key = None /\ ~Working(Idle(None))
  BY DEF Idle, Working
<1>5. TypeOK'
  <2>1. /\ sent' \in [Keys -> Nat] /\ overlaid' \subseteq Keys /\ lost' \subseteq Keys
        /\ faults' \in 0..MaxFaults /\ UNCHANGED <<device, clock, beats>>
    BY <1>1 DEF CommandInv, TypeOK, counters
  <2>2. c.device # None /\ c.attempts <= 1 /\ c.status # "PENDING"
    BY <1>1, <1>2
  <2>3. QED
    BY <1>1, <1>2, <1>3, <1>4, <2>1, <2>2, IdleType, StepType
<1>6. SentOnce'
  BY DEF CommandInv, SentOnce
<1>7. RecordTells'
  <2>1. ASSUME NEW j \in Keys \ {k}, command[j].status = "RUNNING", j \notin lost
        PROVE  \E s \in Requests : req'[s].key = j /\ Working(req'[s])
    <3>1. PICK s \in Requests : req[s].key = j /\ Working(req[s])
      BY <2>1 DEF CommandInv, RecordTells, Working
    <3>2. s # r
      BY <1>1, <3>1
    <3>3. QED
      BY <1>3, <3>1, <3>2
  <2>2. sent'[k] > 0 => k \in overlaid'
    BY <1>1 DEF CommandInv, RecordTells
  <2>3. QED
    BY <1>1, <1>2, <1>3, <2>1, <2>2 DEF CommandInv, RecordTells, Working
<1>8. Alone'
  BY <1>3, <1>4 DEF CommandInv, Alone
<1>9. ASSUME NEW s \in Requests PROVE PreparedBy(req[s])' /\ CarriedBy(req[s])'
  <2>1. CASE s = r
    BY <1>3, <1>4, <2>1 DEF PreparedBy, CarriedBy
  <2>2. CASE s # r
    <3>1. ASSUME Working(req[s]), req[s].key = k PROVE CarriedBy(req[s])'
      <4>1. command[k].status = "RUNNING" /\ CarriedBy(req[s])
        BY <3>1 DEF CommandInv, CarriedBy
      <4>2. QED
        BY <1>2, <1>3, <2>2, <3>1, <4>1 DEF CarriedBy
    <3>2. QED
      BY <1>1, <1>2, <1>3, <2>2, <3>1, Others
  <2>3. QED
    BY <2>1, <2>2
<1>10. QED
  BY <1>5, <1>6, <1>7, <1>8, <1>9 DEF CommandInv

LEMMA CompleteInv ==
  ASSUME CommandInv, NEW r \in Requests, Complete(r)
  PROVE  CommandInv'
<1> DEFINE q == req[r]
           k == req[r].key
           status == IF q.phase = "expiring" THEN "EXPIRED" ELSE q.result
           writes == Completes(command[k], status)
<1>1. /\ q \in Req /\ q.phase \in {"completing", "expiring"} /\ q.result \in Terminal
      /\ Ends(r) /\ UNCHANGED <<device, counters, sent, lost>>
      /\ command' = IF writes THEN [command EXCEPT ![k].status = status] ELSE command
      /\ overlaid' = IF writes /\ status = "EXPIRED" /\ command[k].status = "RUNNING"
                     THEN overlaid \cup {k} ELSE overlaid
  BY DEF CommandInv, TypeOK, Complete, Req
<1>2. CASE ~writes
  <2>1. UNCHANGED <<command, device, counters, ghosts>>
    BY <1>1, <1>2 DEF ghosts
  <2>2. CASE q.phase = "expiring"
    BY <1>1, <2>1, <2>2, QuietEnd DEF Working
  <2>3. CASE q.phase = "completing"
    BY <1>1, <1>2, <2>1, <2>3, CompleteNothing DEF Working, Completes
  <2>4. QED
    BY <1>1, <2>2, <2>3
<1>3. CASE writes /\ q.phase = "expiring"
  BY <1>1, <1>3, CompleteExpired DEF Completes
<1>4. CASE writes /\ q.phase = "completing"
  <2>1. command[k].status = "RUNNING" /\ q.result # "EXPIRED"
    BY <1>1, <1>4 DEF CommandInv, PreparedBy, Completes
  <2>2. UNCHANGED <<device, counters, ghosts>>
    BY <1>1, <1>4, <2>1 DEF ghosts
  <2>3. QED
    BY <1>1, <1>4, <2>1, <2>2, CompleteResult
<1>5. QED
  BY <1>1, <1>2, <1>3, <1>4

LEMMA FailsInv ==
  ASSUME CommandInv, NEW r \in Requests, Fails(r)
  PROVE  CommandInv'
<1> DEFINE q == req[r]
           k == req[r].key
<1>1. /\ q \in Req /\ q.phase # "idle" /\ k \in Keys /\ Ends(r)
      /\ faults' \in 0..MaxFaults
      /\ lost' = IF Working(q) THEN lost \cup {k} ELSE lost
      /\ UNCHANGED <<command, device, clock, beats, sent, overlaid>>
  BY DeviceCommandAssumption DEF CommandInv, TypeOK, Fails, Req, Working
<1>2. /\ req' \in [Requests -> Req] /\ req'[r] = Idle(None)
      /\ \A s \in Requests \ {r} : req'[s] = req[s]
  BY <1>1, IdleType DEF CommandInv, TypeOK, Ends
<1>3. Idle(None).phase = "idle" /\ Idle(None).key = None /\ ~Working(Idle(None))
  BY DEF Idle, Working
<1>4. TypeOK'
  BY <1>1, <1>2, <1>3 DEF CommandInv, TypeOK
<1>5. SentOnce'
  BY <1>1 DEF CommandInv, SentOnce
<1>6. RecordTells'
  <2>1. ASSUME NEW j \in Keys, command[j].status = "RUNNING", j \notin lost'
        PROVE  \E s \in Requests : req'[s].key = j /\ Working(req'[s])
    <3>1. PICK s \in Requests : req[s].key = j /\ Working(req[s])
      BY <1>1, <2>1 DEF CommandInv, RecordTells, Working
    <3>2. s # r
      BY <1>1, <2>1, <3>1
    <3>3. QED
      BY <1>2, <3>1, <3>2
  <2>2. QED
    BY <1>1, <2>1 DEF CommandInv, RecordTells, Working
<1>7. Alone'
  BY <1>2, <1>3 DEF CommandInv, Alone
<1>8. ASSUME NEW s \in Requests PROVE PreparedBy(req[s])' /\ CarriedBy(req[s])'
  <2>1. CASE s = r
    BY <1>2, <1>3, <2>1 DEF PreparedBy, CarriedBy
  <2>2. CASE s # r
    BY <1>1, <1>2, <2>2 DEF CommandInv, PreparedBy, CarriedBy, Working
  <2>3. QED
    BY <2>1, <2>2
<1>9. QED
  BY <1>4, <1>5, <1>6, <1>7, <1>8 DEF CommandInv

LEMMA HeartbeatInv ==
  ASSUME CommandInv, NEW d \in Devices, NEW at \in 1..MaxTime,
         NEW network \in {"ONLINE", "OFFLINE"}, RecordHeartbeat(d, at, network)
  PROVE  CommandInv'
<1>1. device' = [device EXCEPT ![d].network = network, ![d].beat = at]
  BY DEF RecordHeartbeat
<1>2. device \in [Devices -> Device] /\ at \in Nat
  BY DeviceCommandAssumption DEF CommandInv, TypeOK
<1>3. device' \in [Devices -> Device]
  BY <1>1, <1>2 DEF Device
<1>4. /\ UNCHANGED <<command, req, ghosts>> /\ clock' \in 1..MaxTime
      /\ beats' \in 0..MaxBeats /\ faults' \in 0..MaxFaults
  BY DeviceCommandAssumption DEF CommandInv, TypeOK, RecordHeartbeat
<1>5. QED
  BY <1>3, <1>4, Elsewhere

LEMMA TickInv ==
  ASSUME CommandInv, Tick
  PROVE  CommandInv'
<1>1. /\ UNCHANGED <<command, req, ghosts>> /\ clock' \in 1..MaxTime
      /\ beats' \in 0..MaxBeats /\ faults' \in 0..MaxFaults
      /\ device' \in [Devices -> Device]
  BY DeviceCommandAssumption DEF CommandInv, TypeOK, Tick
<1>2. QED
  BY <1>1, Elsewhere

-----------------------------------------------------------------------------
\* The specification.

LEMMA CommandInvInit == Init => CommandInv
<1> SUFFICES ASSUME Init PROVE CommandInv
  OBVIOUS
<1>1. NoCommand \in Command
  BY DEF NoCommand, Command, Status
<1>2. device \in [Devices -> Device]
  BY DEF Init, Device
<1>3. 1 \in 1..MaxTime /\ 0 \in 0..MaxBeats /\ 0 \in 0..MaxFaults
  BY DeviceCommandAssumption
<1>4. \A r \in Requests : req[r] = Idle(None) /\ req[r].phase = "idle" /\ req[r].key = None
  BY DEF Init, Idle
<1>5. TypeOK
  BY <1>1, <1>2, <1>3, <1>4, IdleType DEF Init, TypeOK, NoCommand
<1>6. SentOnce /\ RecordTells
  BY <1>1 DEF Init, SentOnce, RecordTells, NoCommand
<1>7. Alone /\ \A r \in Requests : PreparedBy(req[r]) /\ CarriedBy(req[r])
  BY <1>4 DEF Alone, PreparedBy, CarriedBy, Working
<1>8. QED
  BY <1>5, <1>6, <1>7 DEF CommandInv

LEMMA CommandInvStep == CommandInv /\ [Next]_vars => CommandInv'
<1> SUFFICES ASSUME CommandInv, [Next]_vars PROVE CommandInv'
  OBVIOUS
<1>1. ASSUME NEW r \in Requests, Serve(r) PROVE CommandInv'
  BY <1>1, FindCommandInv, CreateCommandInv, ValidateRunInv, MarkInv, SendInv, CompleteInv
     DEF Serve
<1>2. ASSUME NEW r \in Requests, Fails(r) PROVE CommandInv'
  BY <1>2, FailsInv
<1>3. ASSUME NEW r \in Requests, NEW k \in Keys, NEW d \in Devices, NEW t \in Expiries,
             Execute(r, k, d, t)
      PROVE  CommandInv'
  BY <1>3, ExecuteInv
<1>4. ASSUME NEW d \in Devices, NEW at \in 1..MaxTime, NEW network \in {"ONLINE", "OFFLINE"},
             RecordHeartbeat(d, at, network)
      PROVE  CommandInv'
  BY <1>4, HeartbeatInv
<1>5. CASE Tick
  BY <1>5, TickInv
<1>6. CASE UNCHANGED vars
  <2>1. UNCHANGED <<command, req, ghosts, device, clock, beats, faults>>
    BY <1>6 DEF vars, counters
  <2>2. /\ device' \in [Devices -> Device]
        /\ clock' \in 1..MaxTime /\ beats' \in 0..MaxBeats /\ faults' \in 0..MaxFaults
    BY <2>1 DEF CommandInv, TypeOK
  <2>3. QED
    BY <2>1, <2>2, Elsewhere
<1>7. QED
  BY <1>1, <1>2, <1>3, <1>4, <1>5, <1>6 DEF Next

LEMMA CommandInvAlways == Spec => []CommandInv
<1>1. Init => CommandInv
  BY CommandInvInit
<1>2. CommandInv /\ [Next]_vars => CommandInv'
  BY CommandInvStep
<1>3. QED
  BY <1>1, <1>2, PTL DEF Spec

\* Every variable keeps its type, and no command is attempted twice.
THEOREM Typing == Spec => []TypeOK
<1>1. CommandInv => TypeOK
  BY DEF CommandInv
<1>2. QED
  BY <1>1, CommandInvAlways, PTL

\* A command goes to the gateway once at most, whatever requests ask for it.
THEOREM GatewayOnce == Spec => []SentOnce
<1>1. CommandInv => SentOnce
  BY DEF CommandInv
<1>2. QED
  BY <1>1, CommandInvAlways, PTL

\* The status of a command tells whether it has gone to the gateway.
THEOREM RecordIsTrue == Spec => []RecordTells
<1>1. CommandInv => RecordTells
  BY DEF CommandInv
<1>2. QED
  BY <1>1, CommandInvAlways, PTL

Stays(k) ==
  /\ command[k].device # None => /\ command'[k].device = command[k].device
                                 /\ command'[k].until = command[k].until
  /\ command[k].status \in Terminal => command'[k] = command[k]

LEMMA StaysStep ==
  ASSUME CommandInv, Next, NEW k \in Keys
  PROVE  Stays(k)
<1>1. command \in [Keys -> Command] /\ (command[k].device = None => command[k] = NoCommand)
  BY DEF CommandInv, TypeOK
<1>2. CASE UNCHANGED command
  BY <1>2 DEF Stays
<1>3. ASSUME NEW r \in Requests, CreateCommand(r) PROVE Stays(k)
  <2>1. CASE command[req[r].key].device # None
    BY <1>2, <1>3, <2>1 DEF CreateCommand
  <2>2. CASE command[req[r].key].device = None
    <3>1. command' = [command EXCEPT ![req[r].key] = req[r].held]
      BY <1>3, <2>2 DEF CreateCommand
    <3>2. CASE req[r].key = k
      BY <1>1, <2>2, <3>2 DEF Stays, NoCommand, Terminal
    <3>3. CASE req[r].key # k
      BY <1>1, <3>1, <3>3 DEF Stays
    <3>4. QED
      BY <3>2, <3>3
  <2>3. QED
    BY <2>1, <2>2
<1>4. ASSUME NEW r \in Requests, Mark(r) PROVE Stays(k)
  <2>1. CASE MarkRunning(command[req[r].key], req[r].now)
    <3>1. command' = [command EXCEPT ![req[r].key].status = "RUNNING",
                                     ![req[r].key].attempts = @ + 1]
      BY <1>4, <2>1 DEF Mark
    <3>2. command[req[r].key].status = "PENDING"
      BY <2>1 DEF MarkRunning
    <3>3. QED
      BY <1>1, <3>1, <3>2 DEF Stays, Terminal, Command
  <2>2. CASE ~MarkRunning(command[req[r].key], req[r].now)
    BY <1>2, <1>4, <2>2 DEF Mark
  <2>3. QED
    BY <2>1, <2>2
<1>5. ASSUME NEW r \in Requests, Complete(r) PROVE Stays(k)
  <2>1. CASE UNCHANGED command
    BY <1>2, <2>1
  <2>2. ASSUME NEW status,
               command' = [command EXCEPT ![req[r].key].status = status],
               Completes(command[req[r].key], status)
        PROVE  Stays(k)
    <3>1. command[req[r].key].status \in {"PENDING", "RUNNING"}
      BY <2>2 DEF Completes
    <3>2. QED
      BY <1>1, <2>2, <3>1 DEF Stays, Terminal, Command
  <2>3. QED
    BY <1>5, <2>1, <2>2 DEF Complete
<1>6. ASSUME NEW r \in Requests, Serve(r) PROVE Stays(k)
  BY <1>2, <1>3, <1>4, <1>5, <1>6 DEF Serve, FindCommand, ValidateRun, Send
<1>7. ASSUME NEW r \in Requests,
             Fails(r) \/ \E j \in Keys, d \in Devices, t \in Expiries : Execute(r, j, d, t)
      PROVE  Stays(k)
  BY <1>2, <1>7 DEF Fails, Execute
<1>8. CASE Tick \/ \E d \in Devices, at \in 1..MaxTime, network \in {"ONLINE", "OFFLINE"} :
                     RecordHeartbeat(d, at, network)
  BY <1>2, <1>8 DEF Tick, RecordHeartbeat
<1>9. QED
  BY <1>6, <1>7, <1>8 DEF Next

\* What a command asks and its terminal result are never overwritten.
THEOREM ResultIsFinal == Spec => ResultStays
<1>1. CommandInv /\ [Next]_vars => [\A k \in Keys : Stays(k)]_command
  BY StaysStep DEF vars
<1>2. CommandInv /\ [Next]_vars =>
        [\A k \in Keys :
           /\ command[k].device # None => /\ command'[k].device = command[k].device
                                          /\ command'[k].until = command[k].until
           /\ command[k].status \in Terminal => command'[k] = command[k]]_command
  BY <1>1 DEF Stays
<1>3. QED
  BY <1>2, CommandInvAlways, PTL DEF Spec, ResultStays
=============================================================================
