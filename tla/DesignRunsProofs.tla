-------------------------- MODULE DesignRunsProofs --------------------------
(***************************************************************************)
(* Proofs about the design plugin, for any stages, keys, steps, number of  *)
(* runs, gestures and troubles.                                            *)
(***************************************************************************)
EXTENDS DesignRuns, TLAPS

-----------------------------------------------------------------------------
\* The invariant.

\* The kinds whose resources are looked for before an await and created after.
Looked == {"listed", "variable", "textStyle"}

\* A run loses what it holds only in the middle of an upsert, and it is the user
\* who moves it.
HeldOK(q) ==
  q.held # "there" =>
    /\ q.pc = "upsert" => q.at <= Len(Steps[q.stage])
    /\ q.held = "moved" => q.edited

\* What the counters count, where a run stands, and what can be half done.
Standing ==
  /\ {checks, clicks, troubles} \subseteq Nat
  /\ \A r \in Runs :
       IF run[r].pc = "idle" THEN run[r].stage = None
       ELSE run[r].stage \in Stages /\ run[r].at \in 1..Len(Steps[run[r].stage]) + 1
  /\ \A r \in Runs : run[r].pc = "posted" => run[r].at = 1 /\ run[r].phase = "start"
  /\ \A r \in Runs : HeldOK(run[r])
  /\ \A k \in bare : Kind[k] \notin {"page", "listed"}

\* A run upserts only once the stages it asks for are complete.
ReadyRuns ==
  \A r \in Runs : run[r].pc = "upsert" => Prereqs[run[r].stage] \subseteq markers

\* The buttons stay disabled while a stage runs until the box is changed again.
WindowHolds ==
  /\ checks = 0 => ~confirmed /\ ~enabled /\ Busy = {}
  /\ checks < 2 /\ Busy # {} => ~enabled
  /\ ~overlapped => \A r, s \in Busy : r = s

\* q is at its step with key k.
AtKey(q, k) ==
  q.pc = "upsert" /\ q.at <= Len(Steps[q.stage]) /\ k = Steps[q.stage][q.at]

\* What a run has read before an await, or has created, is still so: o owns
\* the resources, s counts the sections.
ReadHolds(q, k, o, s) ==
  /\ q.phase = "write" /\ q.seen = "absent" /\ Kind[k] \in Looked => o[k] = 0
  /\ q.phase = "sections" /\ k \in Nodes => s[k] = 0
  /\ ~q.edited =>
       /\ q.phase \in {"value", "fill", "sections"} => o[k] > 0
       /\ q.phase = "write" /\ q.seen = "own" /\ Kind[k] \in Looked => o[k] > 0

\* The first n resources of the stage of q are there and finished.
Complete(q, n, o, b) ==
  \A i \in 1..n : o[Steps[q.stage][i]] > 0 /\ Steps[q.stage][i] \notin b

AloneOK(q, o, b, s) ==
  /\ \A k \in Keys : AtKey(q, k) => ReadHolds(q, k, o, s)
  /\ q.pc = "upsert" /\ ~q.edited /\ ~q.bad => Complete(q, q.at - 1, o, b)
  /\ q.pc = "done" /\ ~q.edited /\ q.status = "success" => Complete(q, Len(Steps[q.stage]), o, b)

\* While stages have not taken turns.
AloneSound == ~overlapped => \A r \in Runs : AloneOK(run[r], own, bare, sections)

RunsInv ==
  /\ TypeOK /\ Standing
  /\ UniqueKeys /\ MarkersInOrder
  /\ ReadyRuns /\ WindowHolds /\ AloneSound

-----------------------------------------------------------------------------
\* What the invariant says of a run and of the key it is at.

LEMMA StepsAreKeys ==
  ASSUME NEW g \in Stages
  PROVE  /\ Len(Steps[g]) \in Nat
         /\ \A i \in 1..Len(Steps[g]) : Steps[g][i] \in Keys
BY DesignRunsAssumption

\* The steps before one, and the next.
LEMMA Counting ==
  ASSUME NEW n \in Nat, NEW i \in 1..n
  PROVE  /\ i + 1 \in Nat /\ i \in 1..n + 1 /\ i + 1 \in 1..n + 1
         /\ \A j \in 1..(i - 1) : j \in 1..n
         /\ \A j \in 1..((i + 1) - 1) : j # i => j \in 1..(i - 1)
OBVIOUS

LEMMA RunFacts ==
  ASSUME RunsInv, NEW r \in Runs
  PROVE  /\ run \in [Runs -> Run] /\ run[r] \in Run /\ HeldOK(run[r])
         /\ IF run[r].pc = "idle" THEN run[r].stage = None
            ELSE run[r].stage \in Stages /\ run[r].at \in 1..Len(Steps[run[r].stage]) + 1
BY DEF RunsInv, TypeOK, Standing

LEMMA CurrentKey ==
  ASSUME RunsInv, NEW r \in Runs, NEW k \in Current(r)
  PROVE  /\ k \in Keys /\ AtKey(run[r], k)
         /\ run[r].pc = "upsert" /\ run[r].stage \in Stages
         /\ run[r].at \in 1..Len(Steps[run[r].stage])
         /\ k = Steps[run[r].stage][run[r].at]
<1>1. /\ run[r].pc = "upsert"
      /\ run[r].at <= Len(Steps[run[r].stage])
      /\ k = Steps[run[r].stage][run[r].at]
  BY DEF Current
<1>2. run[r].stage \in Stages /\ run[r].at \in 1..Len(Steps[run[r].stage]) + 1
  BY <1>1, RunFacts
<1>3. run[r].at \in 1..Len(Steps[run[r].stage])
  BY <1>1, <1>2, StepsAreKeys
<1>4. QED
  BY <1>1, <1>2, <1>3, StepsAreKeys DEF AtKey

\* A run at key k in this phase.
LEMMA AtFacts ==
  ASSUME RunsInv, NEW r \in Runs, NEW k, NEW kinds, NEW phase, At(r, k, kinds, phase)
  PROVE  /\ k \in Keys /\ Kind[k] \in kinds /\ AtKey(run[r], k)
         /\ run[r].phase = phase /\ run[r].held = "there"
         /\ run[r].pc = "upsert" /\ run[r].stage \in Stages
         /\ run[r].at \in 1..Len(Steps[run[r].stage])
         /\ k = Steps[run[r].stage][run[r].at]
<1>1. k \in Current(r) /\ Kind[k] \in kinds /\ run[r].phase = phase /\ run[r].held = "there"
  BY DEF At
<1>2. QED
  BY <1>1, CurrentKey

\* While stages have not taken turns, a run that goes on is the only one.
LEMMA OthersIdle ==
  ASSUME RunsInv, ~overlapped, NEW r \in Runs, run[r].pc # "idle"
  PROVE  \A s \in Runs \ {r} : run[s].pc = "idle"
BY DEF RunsInv, WindowHolds, Busy

LEMMA NotUpsertingOK ==
  ASSUME NEW q, q.pc \in {"idle", "posted"}, NEW o, NEW b, NEW s
  PROVE  AloneOK(q, o, b, s)
BY DEF AloneOK, AtKey

-----------------------------------------------------------------------------
\* A run that upserts takes a step.

LEMMA UpsertStep ==
  ASSUME RunsInv, NEW r \in Runs, run[r].pc = "upsert",
         run' \in [Runs -> Run], run'[r].pc \in {"upsert", "done"},
         run'[r].stage = run[r].stage, run'[r].at \in 1..Len(Steps[run[r].stage]) + 1,
         \A s \in Runs \ {r} :
           /\ run'[s].pc = run[s].pc /\ run'[s].stage = run[s].stage /\ run'[s].at = run[s].at
           /\ run'[s].phase = run[s].phase
           /\ ~overlapped => run'[s] = run[s],
         \A s \in Runs : HeldOK(run'[s]),
         own' \in [Keys -> Nat], sections' \in [Nodes -> Nat],
         bare' \subseteq Keys, \A k \in bare' : Kind[k] \notin {"page", "listed"},
         notes' \subseteq Nodes \X Places, UNCHANGED <<copied, foreign>>,
         \A k \in Keys \ copied : own'[k] > 1 => overlapped /\ Kind[k] \in Looked,
         \A k \in Nodes : sections'[k] > 1 => overlapped,
         markers \subseteq markers', markers' \subseteq Stages, MarkersInOrder',
         UNCHANGED <<confirmed, enabled, checks, clicks, overlapped>>,
         troubles' \in Nat, troubles' <= MaxTroubles,
         ~overlapped => AloneOK(run'[r], own', bare', sections')
  PROVE  RunsInv'
<1>1. run[r].stage \in Stages /\ run[r] \in Run
  BY RunFacts
<1>2. \A s \in Runs : run'[s].pc = "idle" <=> run[s].pc = "idle"
  OBVIOUS
<1>3. Standing'
  <2>1. \A s \in Runs :
          IF run'[s].pc = "idle" THEN run'[s].stage = None
          ELSE run'[s].stage \in Stages /\ run'[s].at \in 1..Len(Steps[run'[s].stage]) + 1
    BY <1>1, <1>2, RunFacts
  <2>2. {checks', clicks', troubles'} \subseteq Nat
    BY DEF RunsInv, Standing
  <2>3. \A s \in Runs : run'[s].pc = "posted" => run'[s].at = 1 /\ run'[s].phase = "start"
    BY DEF RunsInv, Standing
  <2>4. QED
    BY <2>1, <2>2, <2>3 DEF Standing
<1>4. TypeOK'
  <2>1. \A s \in Runs : run'[s].stage # None => run'[s].at <= Len(Steps[run'[s].stage]) + 1
    <3>1. ASSUME NEW s \in Runs, run'[s].stage # None PROVE run'[s].at <= Len(Steps[run'[s].stage]) + 1
      <4>1. run'[s].stage \in Stages /\ run'[s].at \in 1..Len(Steps[run'[s].stage]) + 1
        BY <1>3, <3>1 DEF Standing
      <4>2. QED
        BY <4>1, StepsAreKeys
    <3>2. QED
      BY <3>1
  <2>2. QED
    BY <2>1 DEF RunsInv, TypeOK
<1>5. UniqueKeys'
  BY DEF RunsInv, UniqueKeys, Looked
<1>6. ReadyRuns'
  BY DEF RunsInv, ReadyRuns
<1>7. WindowHolds'
  <2>1. Busy' = Busy
    BY <1>2 DEF Busy
  <2>2. QED
    BY <2>1 DEF RunsInv, WindowHolds
<1>8. AloneSound'
  <2>1. ASSUME ~overlapped, NEW s \in Runs \ {r} PROVE AloneOK(run'[s], own', bare', sections')
    BY <1>2, <2>1, OthersIdle, NotUpsertingOK
  <2>2. QED
    BY <2>1 DEF AloneSound
<1>9. QED
  BY <1>3, <1>4, <1>5, <1>6, <1>7, <1>8 DEF RunsInv

\* What a step of an upsert of k leaves as it was: the window and the other keys.
OnlyKey(k) ==
  /\ own' \in [Keys -> Nat] /\ bare' \subseteq Keys
  /\ \A j \in Keys \ {k} : own'[j] = own[j] /\ (j \in bare' => j \in bare)
  /\ notes' \subseteq notes
  /\ UNCHANGED <<copied, foreign, markers, window, counters>>

\* What a run that has recorded a key is like.
LEMMA RecordedRun ==
  ASSUME NEW p \in Run, NEW ok \in BOOLEAN, p.at + 1 \in Nat
  PROVE  LET q == recordResult(p, ok)
         IN  /\ q \in Run /\ q.pc = p.pc /\ q.stage = p.stage /\ q.at = p.at + 1
             /\ q.phase = "start" /\ q.held = "there" /\ q.edited = p.edited
             /\ q.bad = (p.bad \/ ~ok)
<1> DEFINE bad == p.bad \/ ~ok
           good == p.good \/ ok
           next == [p EXCEPT !.at = p.at + 1, !.phase = "start", !.held = "there"]
           q == [next EXCEPT !.bad = bad, !.good = good]
<1>1. recordResult(p, ok) = q
  BY DEF recordResult
<1>2. bad \in BOOLEAN /\ good \in BOOLEAN
  OBVIOUS
<1> HIDE DEF bad, good
<1>3. q \in Run
  <2>1. next \in Run
    BY DEF Run
  <2> HIDE DEF next
  <2>2. QED
    BY <1>2, <2>1 DEF Run
<1>4. /\ q.pc = p.pc /\ q.stage = p.stage /\ q.at = p.at + 1
      /\ q.phase = "start" /\ q.held = "there" /\ q.edited = p.edited /\ q.bad = bad
  BY DEF Run
<1> HIDE DEF q
<1>5. QED
  BY <1>1, <1>3, <1>4 DEF bad

\* The key is recorded: created, updated or not.
LEMMA RecordsStep ==
  ASSUME RunsInv, NEW r \in Runs, NEW k, NEW kinds, NEW phase, At(r, k, kinds, phase),
         NEW ok \in BOOLEAN, Records(r, ok), OnlyKey(k),
         k \in bare' => Kind[k] \notin {"page", "listed"},
         k \notin copied => (own'[k] > 1 => overlapped /\ Kind[k] \in Looked),
         sections' \in [Nodes -> Nat], \A j \in Nodes : sections'[j] > 1 => overlapped,
         ok /\ ~overlapped /\ ~run[r].edited => own'[k] > 0 /\ k \notin bare'
  PROVE  RunsInv'
<1> DEFINE q == recordResult(run[r], ok)
<1>1. /\ k \in Keys /\ run[r].pc = "upsert" /\ run[r].stage \in Stages
      /\ run[r].at \in 1..Len(Steps[run[r].stage])
      /\ k = Steps[run[r].stage][run[r].at]
  BY AtFacts
<1>2. run \in [Runs -> Run] /\ run[r] \in Run
  BY RunFacts
<1>3. Len(Steps[run[r].stage]) \in Nat
  BY <1>1, StepsAreKeys
<1>4. /\ q \in Run /\ q.pc = "upsert" /\ q.stage = run[r].stage
      /\ q.at = run[r].at + 1 /\ q.phase = "start" /\ q.held = "there"
      /\ q.edited = run[r].edited /\ q.bad = (run[r].bad \/ ~ok)
  <2>1. run[r].at + 1 \in Nat
    BY <1>1, <1>3, Counting
  <2>2. QED
    BY <1>1, <1>2, <2>1, RecordedRun
<1>5. run' = [run EXCEPT ![r] = q]
  BY DEF Records
<1> HIDE DEF q
<1>6. run' \in [Runs -> Run] /\ run'[r] = q /\ \A s \in Runs \ {r} : run'[s] = run[s]
  BY <1>2, <1>4, <1>5
<1>7. ASSUME ~overlapped PROVE AloneOK(q, own', bare', sections')
  <2>1. AloneOK(run[r], own, bare, sections)
    BY <1>7 DEF RunsInv, AloneSound
  <2>2. \A j \in Keys : AtKey(q, j) => ReadHolds(q, j, own', sections')
    BY <1>4 DEF ReadHolds
  <2>3. ASSUME ~q.edited, ~q.bad, NEW i \in 1..(q.at - 1)
        PROVE  own'[Steps[q.stage][i]] > 0 /\ Steps[q.stage][i] \notin bare'
    <3>1. ok /\ own'[k] > 0 /\ k \notin bare' /\ ~run[r].bad /\ ~run[r].edited
      BY <1>4, <1>7, <2>3
    <3>2. CASE i = run[r].at
      BY <1>1, <1>4, <3>1, <3>2
    <3>3. CASE i # run[r].at
      <4>1. i \in 1..(run[r].at - 1) /\ i \in 1..Len(Steps[run[r].stage])
        BY <1>1, <1>3, <1>4, <2>3, <3>3, Counting
      <4>2. own[Steps[q.stage][i]] > 0 /\ Steps[q.stage][i] \notin bare
        BY <1>1, <1>4, <2>1, <3>1, <4>1 DEF AloneOK, Complete
      <4>3. Steps[q.stage][i] \in Keys
        BY <1>1, <1>4, <4>1, StepsAreKeys
      <4>4. QED
        BY <3>1, <4>2, <4>3 DEF OnlyKey
    <3>4. QED
      BY <3>2, <3>3
  <2>4. QED
    BY <1>4, <2>2, <2>3 DEF AloneOK, Complete
<1>8. /\ own' \in [Keys -> Nat] /\ bare' \subseteq Keys
      /\ \A j \in bare' : Kind[j] \notin {"page", "listed"}
      /\ \A j \in Keys \ copied : own'[j] > 1 => overlapped /\ Kind[j] \in Looked
      /\ notes' \subseteq Nodes \X Places
  <2>1. \A j \in Keys \ copied : own[j] > 1 => overlapped /\ Kind[j] \in Looked
    BY DEF RunsInv, UniqueKeys, Looked
  <2>2. \A j \in bare : Kind[j] \notin {"page", "listed"}
    BY DEF RunsInv, Standing
  <2>3. notes \subseteq Nodes \X Places
    BY DEF RunsInv, TypeOK
  <2>4. QED
    BY <2>1, <2>2, <2>3 DEF OnlyKey
<1>9. /\ UNCHANGED <<copied, foreign, markers, confirmed, enabled, checks, clicks, overlapped, troubles>>
      /\ markers \subseteq Stages /\ MarkersInOrder' /\ troubles \in Nat /\ troubles <= MaxTroubles
  BY DEF RunsInv, TypeOK, Standing, MarkersInOrder, OnlyKey, window, counters
<1>10. q.at \in 1..Len(Steps[run[r].stage]) + 1
  <2>1. run[r].at \in 1..Len(Steps[run[r].stage]) /\ q.at = run[r].at + 1
    BY <1>1, <1>4
  <2>2. run[r].at + 1 \in 1..Len(Steps[run[r].stage]) + 1
    BY <1>3, <2>1, Counting
  <2>3. QED
    BY <2>1, <2>2
<1>11. \A s \in Runs : HeldOK(run'[s])
  BY <1>4, <1>6 DEF RunsInv, Standing, HeldOK
<1>12. QED
  BY <1>1, <1>4, <1>6, <1>7, <1>8, <1>9, <1>10, <1>11, UpsertStep

\* The upsert goes on after its next await.
LEMMA AwaitsStep ==
  ASSUME RunsInv, NEW r \in Runs, NEW k, NEW kinds, NEW phase, At(r, k, kinds, phase),
         run' \in [Runs -> Run],
         run'[r].pc = "upsert", run'[r].stage = run[r].stage, run'[r].at = run[r].at,
         run'[r].bad = run[r].bad, run'[r].edited = run[r].edited, run'[r].held = run[r].held,
         \A s \in Runs \ {r} :
           /\ run'[s] = run[s] \/ HeldOK(run'[s])
           /\ run'[s].pc = run[s].pc /\ run'[s].stage = run[s].stage /\ run'[s].at = run[s].at
           /\ run'[s].phase = run[s].phase
           /\ ~overlapped => run'[s] = run[s],
         OnlyKey(k),
         k \in bare' => Kind[k] \notin {"page", "listed"},
         k \notin copied => (own'[k] > 1 => overlapped /\ Kind[k] \in Looked),
         sections' \in [Nodes -> Nat], \A j \in Nodes : sections'[j] > 1 => overlapped,
         ~overlapped => /\ own[k] > 0 /\ k \notin bare => own'[k] > 0 /\ k \notin bare'
                        /\ ReadHolds(run'[r], k, own', sections')
  PROVE  RunsInv'
<1>1. /\ k \in Keys /\ run[r].pc = "upsert" /\ run[r].stage \in Stages
      /\ run[r].at \in 1..Len(Steps[run[r].stage])
      /\ k = Steps[run[r].stage][run[r].at]
  BY AtFacts
<1>2. Len(Steps[run[r].stage]) \in Nat
  BY <1>1, StepsAreKeys
<1>3. ASSUME ~overlapped PROVE AloneOK(run'[r], own', bare', sections')
  <2>1. AloneOK(run[r], own, bare, sections)
    BY <1>3 DEF RunsInv, AloneSound
  <2>2. \A j \in Keys : AtKey(run'[r], j) => ReadHolds(run'[r], j, own', sections')
    BY <1>1, <1>3 DEF AtKey
  <2>3. ASSUME ~run'[r].edited, ~run'[r].bad, NEW i \in 1..(run'[r].at - 1)
        PROVE  own'[Steps[run'[r].stage][i]] > 0 /\ Steps[run'[r].stage][i] \notin bare'
    <3>1. i \in 1..(run[r].at - 1) /\ i \in 1..Len(Steps[run[r].stage])
      BY <1>1, <1>2, <2>3, Counting
    <3>2. own[Steps[run[r].stage][i]] > 0 /\ Steps[run[r].stage][i] \notin bare
      BY <1>1, <2>1, <2>3, <3>1 DEF AloneOK, Complete
    <3>3. Steps[run[r].stage][i] \in Keys
      BY <1>1, <3>1, StepsAreKeys
    <3>4. QED
      BY <1>3, <3>2, <3>3 DEF OnlyKey
  <2>4. QED
    BY <2>2, <2>3 DEF AloneOK, Complete
<1>4. /\ own' \in [Keys -> Nat] /\ bare' \subseteq Keys
      /\ \A j \in bare' : Kind[j] \notin {"page", "listed"}
      /\ \A j \in Keys \ copied : own'[j] > 1 => overlapped /\ Kind[j] \in Looked
      /\ notes' \subseteq Nodes \X Places
  <2>1. \A j \in Keys \ copied : own[j] > 1 => overlapped /\ Kind[j] \in Looked
    BY DEF RunsInv, UniqueKeys, Looked
  <2>2. \A j \in bare : Kind[j] \notin {"page", "listed"}
    BY DEF RunsInv, Standing
  <2>3. notes \subseteq Nodes \X Places
    BY DEF RunsInv, TypeOK
  <2>4. QED
    BY <2>1, <2>2, <2>3 DEF OnlyKey
<1>5. /\ UNCHANGED <<copied, foreign, markers, confirmed, enabled, checks, clicks, overlapped, troubles>>
      /\ markers \subseteq Stages /\ MarkersInOrder' /\ troubles \in Nat /\ troubles <= MaxTroubles
  BY DEF RunsInv, TypeOK, Standing, MarkersInOrder, OnlyKey, window, counters
<1>6. run[r].at \in 1..Len(Steps[run[r].stage]) + 1
  BY <1>1, <1>2, Counting
<1>7. \A s \in Runs : HeldOK(run'[s])
  <2>1. HeldOK(run'[r])
    BY DEF At, HeldOK
  <2>2. \A s \in Runs \ {r} : HeldOK(run[s])
    BY RunFacts
  <2>3. QED
    BY <2>1, <2>2
<1>8. /\ run'[r].pc \in {"upsert", "done"} /\ run'[r].stage = run[r].stage
      /\ run'[r].at \in 1..Len(Steps[run[r].stage]) + 1
      /\ \A s \in Runs \ {r} :
           /\ run'[s].pc = run[s].pc /\ run'[s].stage = run[s].stage /\ run'[s].at = run[s].at
           /\ run'[s].phase = run[s].phase
           /\ ~overlapped => run'[s] = run[s]
  BY <1>6
<1>9. QED
  BY <1>1, <1>3, <1>4, <1>5, <1>7, <1>8, UpsertStep

-----------------------------------------------------------------------------
\* Each action keeps the invariant: the upserts.

\* What the invariant says of one key: while stages have not taken turns.
LEMMA KeyFacts ==
  ASSUME RunsInv, NEW k \in Keys
  PROVE  /\ own \in [Keys -> Nat] /\ own[k] \in Nat
         /\ bare \subseteq Keys /\ notes \subseteq Nodes \X Places
         /\ sections \in [Nodes -> Nat] /\ \A j \in Nodes : sections[j] > 1 => overlapped
         /\ k \in bare => Kind[k] \notin {"page", "listed"}
         /\ k \notin copied => (own[k] > 1 => overlapped /\ Kind[k] \in Looked)
         /\ Kind[k] \in Looked \cup {"page"} => k \notin copied
         /\ Sees(k) = "own" <=> own[k] > 0
         /\ Sees(k) = "absent" => own[k] = 0
<1>1. own[k] \in Nat /\ (Kind[k] \in Looked \cup {"page"} => k \notin copied)
  BY DEF RunsInv, TypeOK, Looked, Nodes
<1>2. Sees(k) = "own" <=> own[k] > 0
  BY DEF Sees
<1>3. Sees(k) = "absent" => own[k] = 0
  BY <1>1 DEF Sees
<1>4. QED
  BY <1>1, <1>2, <1>3 DEF RunsInv, TypeOK, Standing, UniqueKeys, Looked

\* What the run at k has read holds, and its node is there.
LEMMA HoldsAtKey ==
  ASSUME RunsInv, ~overlapped, NEW r \in Runs, NEW k \in Keys, AtKey(run[r], k)
  PROVE  ReadHolds(run[r], k, own, sections)
BY DEF RunsInv, AloneSound, AloneOK

LEMMA UpsertPageStep ==
  ASSUME RunsInv, NEW r \in Runs, NEW k, upsertPage(r, k)
  PROVE  RunsInv'
<1>1. At(r, k, {"page"}, "start") /\ k \in Keys /\ Kind[k] = "page"
  BY AtFacts DEF upsertPage
<1>2. OnlyKey(k) /\ sections' = sections /\ bare' = bare
  BY <1>1, KeyFacts DEF upsertPage, OnlyKey
<1>3. own'[k] = IF Sees(k) = "absent" THEN own[k] + 1 ELSE own[k]
  BY <1>1, KeyFacts DEF upsertPage
<1>4. own'[k] <= 1 /\ (Sees(k) # "foreign" => own'[k] > 0)
  BY <1>1, <1>3, KeyFacts DEF Looked, Sees
<1>5. Records(r, Sees(k) # "foreign") /\ (Sees(k) # "foreign") \in BOOLEAN
  BY DEF upsertPage
<1>6. own'[k] \in Nat
  BY <1>1, <1>2 DEF OnlyKey
<1>7. /\ k \in bare' => Kind[k] \notin {"page", "listed"}
      /\ own'[k] > 1 => overlapped /\ Kind[k] \in Looked
      /\ sections' \in [Nodes -> Nat] /\ \A j \in Nodes : sections'[j] > 1 => overlapped
      /\ k \notin bare'
  BY <1>1, <1>2, <1>4, <1>6, KeyFacts
<1>8. QED
  BY <1>1, <1>2, <1>4, <1>5, <1>7, RecordsStep

LEMMA UpsertListedStep ==
  ASSUME RunsInv, NEW r \in Runs, NEW k, upsertListed(r, k)
  PROVE  RunsInv'
<1>1. /\ At(r, k, {"listed"}, "write") /\ k \in Keys /\ Kind[k] = "listed"
      /\ AtKey(run[r], k) /\ run[r].phase = "write"
  BY AtFacts DEF upsertListed
<1>2. OnlyKey(k) /\ sections' = sections /\ bare' = bare
  BY <1>1, KeyFacts DEF upsertListed, OnlyKey
<1>3. own'[k] = IF run[r].seen = "absent" THEN own[k] + 1 ELSE own[k]
  BY <1>1, KeyFacts DEF upsertListed
<1>4. ~overlapped =>
        /\ run[r].seen = "absent" => own[k] = 0
        /\ run[r].seen = "own" /\ ~run[r].edited => own[k] > 0
  BY <1>1, HoldsAtKey, KeyFacts DEF ReadHolds, Looked
<1>5. ~overlapped => own'[k] <= 1 /\ (run[r].seen # "foreign" /\ ~run[r].edited => own'[k] > 0)
  <2>1. own[k] \in Nat /\ (own[k] > 1 => overlapped)
    BY <1>1, KeyFacts DEF Looked
  <2>2. run[r].seen \in {"absent", "own", "foreign"}
    BY RunFacts DEF Run
  <2>3. QED
    BY <1>3, <1>4, <2>1, <2>2
<1>6. Records(r, run[r].seen # "foreign") /\ (run[r].seen # "foreign") \in BOOLEAN
  BY DEF upsertListed
<1>7. own'[k] \in Nat
  BY <1>1, <1>2 DEF OnlyKey
<1>8. /\ k \in bare' => Kind[k] \notin {"page", "listed"}
      /\ own'[k] > 1 => overlapped /\ Kind[k] \in Looked
      /\ sections' \in [Nodes -> Nat] /\ \A j \in Nodes : sections'[j] > 1 => overlapped
      /\ k \notin bare'
  BY <1>1, <1>2, <1>5, <1>7, KeyFacts DEF Looked
<1>9. QED
  BY <1>1, <1>2, <1>5, <1>6, <1>8, RecordsStep

LEMMA ListLocalStep ==
  ASSUME RunsInv, NEW r \in Runs, NEW k, ListLocal(r, k)
  PROVE  RunsInv'
<1>1. At(r, k, {"listed", "variable", "textStyle"}, "start") /\ k \in Keys /\ run[r].pc = "upsert"
  BY AtFacts DEF ListLocal
<1>2. PICK found \in BOOLEAN :
        run' = [run EXCEPT ![r] = [run[r] EXCEPT !.phase = "write", !.seen = Sees(k), !.settable = found]]
  BY DEF ListLocal
<1>3. Sees(k) \in {"absent", "own", "foreign"}
  BY DEF Sees
<1>4. /\ run' \in [Runs -> Run] /\ \A s \in Runs \ {r} : run'[s] = run[s]
      /\ run'[r].pc = run[r].pc /\ run'[r].stage = run[r].stage /\ run'[r].at = run[r].at
      /\ run'[r].bad = run[r].bad /\ run'[r].edited = run[r].edited
      /\ run'[r].held = run[r].held
      /\ run'[r].phase = "write" /\ run'[r].seen = Sees(k)
  <2> DEFINE q == [run[r] EXCEPT !.phase = "write", !.seen = Sees(k), !.settable = found]
  <2>1. run \in [Runs -> Run] /\ run[r] \in Run
    BY RunFacts
  <2>2. q \in Run
    BY <1>3, <2>1 DEF Run
  <2>3. /\ q.pc = run[r].pc /\ q.stage = run[r].stage /\ q.at = run[r].at
        /\ q.bad = run[r].bad /\ q.edited = run[r].edited /\ q.held = run[r].held
        /\ q.phase = "write" /\ q.seen = Sees(k)
    BY <2>1 DEF Run
  <2>4. run' = [run EXCEPT ![r] = q]
    BY <1>2
  <2> HIDE DEF q
  <2>5. QED
    BY <2>1, <2>2, <2>3, <2>4
<1>5. OnlyKey(k) /\ sections' = sections /\ own' = own /\ bare' = bare
  BY <1>1, KeyFacts DEF ListLocal, OnlyKey, document
<1>6. ReadHolds(run'[r], k, own, sections)
  BY <1>1, <1>4, KeyFacts DEF ReadHolds
<1>7. QED
  BY <1>1, <1>4, <1>5, <1>6, KeyFacts, AwaitsStep

\* Creating a resource where there is none.
LEMMA CreatesEffect ==
  ASSUME RunsInv, NEW k \in Keys, Creates(k)
  PROVE  /\ own' \in [Keys -> Nat] /\ bare' \subseteq Keys
         /\ \A j \in Keys \ {k} : own'[j] = own[j] /\ (j \in bare' => j \in bare)
         /\ own'[k] = own[k] + 1
BY KeyFacts DEF Creates

\* An upsert that awaits a phase of its own.
LEMMA PhaseEffect ==
  ASSUME RunsInv, NEW r \in Runs, NEW phase \in {"start", "write", "value", "fill", "sections"},
         Awaits(r, phase)
  PROVE  /\ run' \in [Runs -> Run] /\ \A s \in Runs \ {r} : run'[s] = run[s]
         /\ run'[r].pc = run[r].pc /\ run'[r].stage = run[r].stage /\ run'[r].at = run[r].at
         /\ run'[r].bad = run[r].bad /\ run'[r].edited = run[r].edited
         /\ run'[r].held = run[r].held
         /\ run'[r].phase = phase /\ run'[r].seen = run[r].seen
<1>1. run \in [Runs -> Run] /\ run[r] \in Run
  BY RunFacts
<1> DEFINE q == [run[r] EXCEPT !.phase = phase]
<1>2. q \in Run
  BY <1>1 DEF Run
<1>3. /\ q.pc = run[r].pc /\ q.stage = run[r].stage /\ q.at = run[r].at
      /\ q.bad = run[r].bad /\ q.edited = run[r].edited /\ q.held = run[r].held
      /\ q.phase = phase /\ q.seen = run[r].seen
  BY <1>1 DEF Run
<1>4. run' = [run EXCEPT ![r] = q]
  BY DEF Awaits
<1> HIDE DEF q
<1>5. QED
  BY <1>1, <1>2, <1>3, <1>4

LEMMA UpsertNamedStep ==
  ASSUME RunsInv, NEW r \in Runs, NEW k, upsertNamed(r, k)
  PROVE  RunsInv'
<1>1. /\ At(r, k, {"variable", "textStyle"}, "write") /\ k \in Keys
      /\ Kind[k] \in {"variable", "textStyle"}
      /\ AtKey(run[r], k) /\ run[r].phase = "write" /\ run[r].pc = "upsert"
  BY AtFacts DEF upsertNamed
<1>2. UNCHANGED <<copied, foreign, notes, sections, markers, window, counters>>
  BY DEF upsertNamed
<1>3. ~overlapped =>
        /\ run[r].seen = "absent" => own[k] = 0
        /\ run[r].seen = "own" /\ ~run[r].edited => own[k] > 0
  BY <1>1, HoldsAtKey DEF ReadHolds, Looked
<1>4. CASE run[r].seen = "own" /\ Awaits(r, "value") /\ Holds
  <2>1. OnlyKey(k) /\ own' = own /\ bare' = bare
    BY <1>1, <1>2, <1>4, KeyFacts DEF OnlyKey, Holds
  <2>2. ~overlapped => ReadHolds(run'[r], k, own', sections')
    BY <1>3, <1>4, <2>1, PhaseEffect DEF ReadHolds
  <2>3. QED
    BY <1>1, <1>2, <1>4, <2>1, <2>2, KeyFacts, PhaseEffect, AwaitsStep
<1>5. CASE run[r].seen = "absent" /\ Awaits(r, "value") /\ Creates(k)
  <2>1. OnlyKey(k) /\ own'[k] = own[k] + 1
    BY <1>1, <1>2, <1>5, CreatesEffect DEF OnlyKey
  <2>2. ~overlapped => own[k] = 0 /\ own'[k] = 1
    BY <1>3, <1>5, <2>1
  <2>3. ~overlapped => ReadHolds(run'[r], k, own', sections')
    BY <1>5, <2>2, PhaseEffect DEF ReadHolds
  <2>4. /\ own'[k] > 1 => overlapped /\ Kind[k] \in Looked
        /\ k \in bare' => Kind[k] \notin {"page", "listed"}
        /\ ~overlapped => ~(own[k] > 0 /\ k \notin bare)
    BY <1>1, <2>2 DEF Looked
  <2>5. QED
    BY <1>1, <1>2, <1>5, <2>1, <2>3, <2>4, KeyFacts, PhaseEffect, AwaitsStep
<1>6. CASE Records(r, FALSE) /\ Holds
  <2>1. OnlyKey(k) /\ own' = own /\ bare' = bare
    BY <1>1, <1>2, <1>6, KeyFacts DEF OnlyKey, Holds
  <2>2. QED
    BY <1>1, <1>2, <1>6, <2>1, KeyFacts, RecordsStep
<1>7. QED
  BY <1>4, <1>5, <1>6 DEF upsertNamed

LEMMA SetValueStep ==
  ASSUME RunsInv, NEW r \in Runs, NEW k, SetValue(r, k)
  PROVE  RunsInv'
<1>1. /\ At(r, k, {"variable", "textStyle"}, "value") /\ k \in Keys
      /\ Kind[k] \in {"variable", "textStyle"}
      /\ AtKey(run[r], k) /\ run[r].phase = "value"
  BY AtFacts DEF SetValue
<1>2. /\ OnlyKey(k) /\ own' = own /\ sections' = sections
      /\ run[r].settable => k \notin bare'
  BY <1>1, KeyFacts DEF SetValue, OnlyKey
<1>3. ~overlapped /\ ~run[r].edited => own[k] > 0
  BY <1>1, HoldsAtKey, KeyFacts DEF ReadHolds
<1>4. Records(r, run[r].settable) /\ run[r].settable \in BOOLEAN
  BY RunFacts DEF SetValue, Run
<1>5. k \in bare' => Kind[k] \notin {"page", "listed"}
  BY <1>1
<1>6. QED
  BY <1>1, <1>2, <1>3, <1>4, <1>5, KeyFacts, RecordsStep

LEMMA FocusPageStep ==
  ASSUME RunsInv, NEW r \in Runs, NEW k, FocusPage(r, k)
  PROVE  RunsInv'
<1>1. /\ At(r, k, {"component", "screen", "darkScreen"}, "start") /\ k \in Keys
      /\ run[r].pc = "upsert" /\ Kind[k] \notin Looked
  BY AtFacts DEF FocusPage, Looked
<1>2. OnlyKey(k) /\ sections' = sections /\ own' = own /\ bare' = bare
  BY <1>1, KeyFacts DEF FocusPage, OnlyKey, document
<1>3. CASE Records(r, FALSE)
  BY <1>1, <1>2, <1>3, KeyFacts, RecordsStep
<1>4. CASE run' = [run EXCEPT ![r] = [@ EXCEPT !.phase = "write", !.seen = "own"]]
  <2> DEFINE q == [run[r] EXCEPT !.phase = "write", !.seen = "own"]
  <2>1. run \in [Runs -> Run] /\ run[r] \in Run
    BY RunFacts
  <2>2. q \in Run
    BY <2>1 DEF Run
  <2>3. /\ q.pc = run[r].pc /\ q.stage = run[r].stage /\ q.at = run[r].at
        /\ q.bad = run[r].bad /\ q.edited = run[r].edited /\ q.held = run[r].held
        /\ q.phase = "write" /\ q.seen = "own"
    BY <2>1 DEF Run
  <2>4. run' = [run EXCEPT ![r] = q]
    BY <1>4
  <2> HIDE DEF q
  <2>5. run' \in [Runs -> Run] /\ run'[r] = q /\ \A s \in Runs \ {r} : run'[s] = run[s]
    BY <2>1, <2>2, <2>4
  <2>6. ReadHolds(run'[r], k, own, sections)
    BY <1>1, <2>3, <2>5 DEF ReadHolds
  <2>7. QED
    BY <1>1, <1>2, <2>3, <2>5, <2>6, KeyFacts, AwaitsStep
<1>5. QED
  BY <1>3, <1>4 DEF FocusPage

LEMMA UpsertNodeStep ==
  ASSUME RunsInv, NEW r \in Runs, NEW k, upsertNode(r, k)
  PROVE  RunsInv'
<1>1. /\ At(r, k, {"component", "screen"}, "write") /\ k \in Keys /\ run[r].pc = "upsert"
      /\ Kind[k] \in {"component", "screen"} /\ Kind[k] \notin Looked
  BY AtFacts DEF upsertNode, Looked
<1>2. UNCHANGED <<copied, foreign, notes, sections, markers, window, counters>>
  BY DEF upsertNode
<1>3. CASE Sees(k) = "foreign" /\ Records(r, FALSE) /\ Holds
  <2>1. OnlyKey(k) /\ own' = own /\ bare' = bare
    BY <1>1, <1>2, <1>3, KeyFacts DEF OnlyKey, Holds
  <2>2. QED
    BY <1>1, <1>2, <1>3, <2>1, KeyFacts, RecordsStep
<1>4. CASE Sees(k) = "own" /\ Awaits(r, "fill") /\ Holds
  <2>1. OnlyKey(k) /\ own' = own /\ bare' = bare
    BY <1>1, <1>2, <1>4, KeyFacts DEF OnlyKey, Holds
  <2>2. ReadHolds(run'[r], k, own', sections')
    BY <1>1, <1>4, <2>1, KeyFacts, PhaseEffect DEF ReadHolds
  <2>3. QED
    BY <1>1, <1>2, <1>4, <2>1, <2>2, KeyFacts, PhaseEffect, AwaitsStep
<1>5. CASE Sees(k) = "absent" /\ Awaits(r, "fill") /\ Creates(k)
  <2>1. OnlyKey(k) /\ own'[k] = 1 /\ own[k] = 0
    BY <1>1, <1>2, <1>5, CreatesEffect, KeyFacts DEF OnlyKey
  <2>2. ReadHolds(run'[r], k, own', sections')
    BY <1>5, <2>1, PhaseEffect DEF ReadHolds
  <2>3. /\ own'[k] > 1 => overlapped /\ Kind[k] \in Looked
        /\ k \in bare' => Kind[k] \notin {"page", "listed"}
        /\ ~(own[k] > 0 /\ k \notin bare)
    BY <1>1, <2>1
  <2>4. QED
    BY <1>1, <1>2, <1>5, <2>1, <2>2, <2>3, KeyFacts, PhaseEffect, AwaitsStep
<1>6. QED
  BY <1>3, <1>4, <1>5 DEF upsertNode

LEMMA UpsertDarkScreenStep ==
  ASSUME RunsInv, NEW r \in Runs, NEW k, upsertDarkScreen(r, k)
  PROVE  RunsInv'
<1>1. /\ At(r, k, {"darkScreen"}, "write") /\ k \in Keys /\ run[r].pc = "upsert"
      /\ Kind[k] = "darkScreen" /\ Kind[k] \notin Looked /\ k \in Nodes
  BY AtFacts DEF upsertDarkScreen, Looked, Nodes
<1>2. UNCHANGED <<copied, foreign, markers, window, counters>>
  BY DEF upsertDarkScreen
<1>3. CASE Sees(k) = "foreign"
  <2>1. OnlyKey(k) /\ own' = own /\ bare' = bare /\ sections' = sections /\ Records(r, FALSE)
    BY <1>1, <1>2, <1>3, KeyFacts DEF upsertDarkScreen, OnlyKey, Holds
  <2>2. QED
    BY <1>1, <2>1, KeyFacts, RecordsStep
<1>4. CASE Sees(k) # "foreign"
  <2>1. /\ IF Sees(k) = "absent" THEN Creates(k) ELSE Holds
        /\ notes' = NotesOutside({k})
        /\ sections' = [sections EXCEPT ![k] = 0]
        /\ run' = [q \in Runs |->
                     IF q = r THEN [run[q] EXCEPT !.phase = "sections"]
                     ELSE IF q \in Holding({k})
                     THEN [run[q] EXCEPT !.held = "removed"] ELSE run[q]]
    BY <1>4 DEF upsertDarkScreen
  <2>2. Sees(k) \in {"absent", "own", "foreign"}
    BY DEF Sees
  <2>3. /\ own' \in [Keys -> Nat] /\ bare' \subseteq Keys /\ own'[k] > 0
        /\ own'[k] = 1 \/ own'[k] = own[k]
        /\ \A j \in Keys \ {k} : own'[j] = own[j] /\ (j \in bare' => j \in bare)
        /\ own[k] > 0 /\ k \notin bare => k \notin bare'
    <3>1. CASE Sees(k) = "absent"
      BY <1>1, <2>1, <3>1, CreatesEffect, KeyFacts
    <3>2. CASE Sees(k) = "own"
      BY <1>1, <2>1, <3>2, KeyFacts DEF Holds
    <3>3. QED
      BY <1>4, <2>2, <3>1, <3>2
  <2>4. OnlyKey(k) /\ sections' \in [Nodes -> Nat] /\ sections'[k] = 0
        /\ \A j \in Nodes : sections'[j] > 1 => overlapped
    BY <1>1, <1>2, <2>1, <2>3, KeyFacts DEF OnlyKey, NotesOutside
  <2> DEFINE filled == [run[r] EXCEPT !.phase = "sections"]
  <2>5. /\ filled \in Run
        /\ filled.pc = run[r].pc /\ filled.stage = run[r].stage /\ filled.at = run[r].at
        /\ filled.bad = run[r].bad /\ filled.edited = run[r].edited
        /\ filled.held = run[r].held /\ filled.phase = "sections"
    BY RunFacts DEF Run
  <2>6. run'[r] = filled
    BY <2>1
  <2>7. ASSUME NEW s \in Runs \ {r}
        PROVE  /\ run'[s] \in Run /\ HeldOK(run'[s])
               /\ run'[s].pc = run[s].pc /\ run'[s].stage = run[s].stage /\ run'[s].at = run[s].at
               /\ run'[s].phase = run[s].phase
               /\ ~overlapped => run'[s] = run[s]
    <3> DEFINE q == [run[s] EXCEPT !.held = "removed"]
    <3>1. run'[s] = run[s] \/ (run'[s] = q /\ s \in Holding({k}))
      BY <2>1
    <3>2. s \in Holding({k}) => run[s].pc = "upsert" /\ run[s].at <= Len(Steps[run[s].stage])
      <4>1. s \in Holding({k}) => Current(s) # {}
        BY DEF Holding, Held
      <4>2. QED
        BY <4>1 DEF Current
    <3>3. run[s] \in Run /\ HeldOK(run[s])
      BY RunFacts
    <3>4. /\ q \in Run /\ q.pc = run[s].pc /\ q.stage = run[s].stage /\ q.at = run[s].at
          /\ q.phase = run[s].phase /\ q.held = "removed"
      BY <3>3 DEF Run
    <3>5. ~overlapped => run[s].pc = "idle"
      BY <1>1, OthersIdle
    <3> HIDE DEF q
    <3>6. QED
      BY <3>1, <3>2, <3>3, <3>4, <3>5 DEF HeldOK
  <2> HIDE DEF filled
  <2>8. run' \in [Runs -> Run]
    BY <2>1, <2>5, <2>6, <2>7
  <2>9. ReadHolds(run'[r], k, own', sections')
    BY <2>3, <2>4, <2>5, <2>6 DEF ReadHolds
  <2>10. /\ k \notin copied => (own'[k] > 1 => overlapped /\ Kind[k] \in Looked)
         /\ k \in bare' => Kind[k] \notin {"page", "listed"}
         /\ own[k] > 0 /\ k \notin bare => own'[k] > 0 /\ k \notin bare'
    BY <1>1, <2>3, KeyFacts
  <2>11. QED
    BY <1>1, <2>4, <2>5, <2>6, <2>7, <2>8, <2>9, <2>10, AwaitsStep
<1>5. QED
  BY <1>3, <1>4

LEMMA RenderComponentStep ==
  ASSUME RunsInv, NEW r \in Runs, NEW k, renderComponent(r, k)
  PROVE  RunsInv'
<1>1. /\ At(r, k, {"component"}, "fill") /\ k \in Keys /\ AtKey(run[r], k) /\ run[r].phase = "fill"
  BY AtFacts DEF renderComponent
<1>2. /\ OnlyKey(k) /\ own' = own /\ sections' = sections /\ k \notin bare' /\ Records(r, TRUE)
  BY <1>1, KeyFacts DEF renderComponent, OnlyKey, NotesOutside
<1>3. ~overlapped /\ ~run[r].edited => own[k] > 0
  BY <1>1, HoldsAtKey, KeyFacts DEF ReadHolds
<1>4. QED
  BY <1>1, <1>2, <1>3, KeyFacts, RecordsStep

LEMMA EnsureSectionsStep ==
  ASSUME RunsInv, NEW r \in Runs, NEW k, ensureSections(r, k)
  PROVE  RunsInv'
<1>1. /\ At(r, k, {"screen"}, "fill") /\ k \in Keys /\ AtKey(run[r], k)
      /\ run[r].phase = "fill" /\ run[r].pc = "upsert" /\ k \in Nodes
  BY AtFacts DEF ensureSections, Nodes
<1>2. /\ OnlyKey(k) /\ own' = own /\ bare' = bare /\ Awaits(r, "sections")
      /\ sections' \in [Nodes -> Nat] /\ sections'[k] = 0
      /\ \A j \in Nodes : sections'[j] > 1 => overlapped
  BY <1>1, KeyFacts DEF ensureSections, OnlyKey
<1>3. ~overlapped => ReadHolds(run'[r], k, own', sections')
  BY <1>1, <1>2, HoldsAtKey, PhaseEffect DEF ReadHolds
<1>4. QED
  BY <1>1, <1>2, <1>3, KeyFacts, PhaseEffect, AwaitsStep

LEMMA AddSectionsStep ==
  ASSUME RunsInv, NEW r \in Runs, NEW k, AddSections(r, k)
  PROVE  RunsInv'
<1>1. /\ At(r, k, {"screen", "darkScreen"}, "sections") /\ k \in Keys /\ AtKey(run[r], k)
      /\ run[r].phase = "sections" /\ k \in Nodes
  BY AtFacts DEF AddSections, Nodes
<1>2. ~overlapped => sections[k] = 0 /\ (~run[r].edited => own[k] > 0)
  BY <1>1, HoldsAtKey, KeyFacts DEF ReadHolds
<1>3. /\ OnlyKey(k) /\ own' = own /\ k \notin bare' /\ Records(r, TRUE)
      /\ sections' = [sections EXCEPT ![k] = sections[k] + 1]
  BY <1>1, KeyFacts DEF AddSections, OnlyKey
<1>4. sections' \in [Nodes -> Nat] /\ \A j \in Nodes : sections'[j] > 1 => overlapped
  BY <1>1, <1>2, <1>3, KeyFacts
<1>5. QED
  BY <1>1, <1>2, <1>3, <1>4, KeyFacts, RecordsStep

LEMMA UpsertsKeep ==
  ASSUME RunsInv, NEW r \in Runs, NEW k, Upsert(r, k)
  PROVE  RunsInv'
BY UpsertPageStep, ListLocalStep, UpsertListedStep, UpsertNamedStep, SetValueStep, FocusPageStep,
   UpsertNodeStep, UpsertDarkScreenStep, RenderComponentStep, EnsureSectionsStep, AddSectionsStep
   DEF Upsert

-----------------------------------------------------------------------------
\* The end of a run, the window and the user.

\* A run that ends keeps its stage and its step.
LEMMA EndStep ==
  ASSUME RunsInv, NEW r \in Runs, run[r].pc = "upsert",
         NEW status \in {"success", "partial-failure", "failed"},
         run' = [run EXCEPT ![r] = [run[r] EXCEPT !.pc = "done", !.status = status]],
         UNCHANGED <<own, copied, bare, foreign, notes, sections, window, checks, clicks, overlapped>>,
         troubles' \in Nat, troubles' <= MaxTroubles,
         markers \subseteq markers', markers' \subseteq Stages, MarkersInOrder',
         status = "success" => ~run[r].bad /\ run[r].at > Len(Steps[run[r].stage])
  PROVE  RunsInv'
<1>1. /\ run \in [Runs -> Run] /\ run[r] \in Run /\ run[r].stage \in Stages
      /\ run[r].at \in 1..Len(Steps[run[r].stage]) + 1
  BY RunFacts
<1>2. Len(Steps[run[r].stage]) \in Nat
  BY <1>1, StepsAreKeys
<1> DEFINE q == [run[r] EXCEPT !.pc = "done", !.status = status]
<1>3. /\ q \in Run /\ q.pc = "done" /\ q.status = status
      /\ q.stage = run[r].stage /\ q.at = run[r].at
      /\ q.bad = run[r].bad /\ q.edited = run[r].edited /\ q.held = run[r].held
  BY <1>1 DEF Run
<1> HIDE DEF q
<1>4. run' \in [Runs -> Run] /\ run'[r] = q /\ \A s \in Runs \ {r} : run'[s] = run[s]
  BY <1>1, <1>3 DEF q
<1>5. ASSUME ~overlapped PROVE AloneOK(q, own, bare, sections)
  <2>1. AloneOK(run[r], own, bare, sections)
    BY <1>5 DEF RunsInv, AloneSound
  <2>2. ASSUME ~q.edited, status = "success" PROVE Complete(q, Len(Steps[q.stage]), own, bare)
    <3>1. ~run[r].bad /\ run[r].at - 1 = Len(Steps[run[r].stage])
      BY <1>1, <1>2, <2>2
    <3>2. Complete(run[r], Len(Steps[run[r].stage]), own, bare)
      BY <1>3, <2>1, <2>2, <3>1 DEF AloneOK
    <3>3. QED
      BY <1>3, <3>2 DEF Complete
  <2>3. QED
    BY <1>3, <2>2 DEF AloneOK, AtKey
<1>6. /\ own \in [Keys -> Nat] /\ sections \in [Nodes -> Nat]
      /\ bare \subseteq Keys /\ (\A k \in bare : Kind[k] \notin {"page", "listed"})
      /\ notes \subseteq Nodes \X Places
      /\ \A k \in Keys \ copied : own[k] > 1 => overlapped /\ Kind[k] \in Looked
      /\ \A k \in Nodes : sections[k] > 1 => overlapped
  BY DEF RunsInv, TypeOK, Standing, UniqueKeys, Looked
<1>7. UNCHANGED <<own, copied, bare, foreign, notes, sections, confirmed, enabled, checks, clicks, overlapped>>
  BY DEF window
<1>8. \A s \in Runs : HeldOK(run'[s])
  BY <1>3, <1>4 DEF RunsInv, Standing, HeldOK
<1>9. QED
  BY <1>1, <1>3, <1>4, <1>5, <1>6, <1>7, <1>8, UpsertStep

LEMMA FinishStep ==
  ASSUME RunsInv, NEW r \in Runs, Finish(r)
  PROVE  RunsInv'
<1>1. /\ run[r].pc = "upsert" /\ run[r].at > Len(Steps[run[r].stage])
      /\ run' = [run EXCEPT ![r] = [run[r] EXCEPT !.pc = "done", !.status = Status(run[r])]]
      /\ markers' = IF Status(run[r]) = "success" THEN markers \cup {run[r].stage} ELSE markers
      /\ UNCHANGED <<own, copied, bare, foreign, notes, sections, window, counters>>
  BY DEF Finish
<1>2. run[r].stage \in Stages /\ run[r].bad \in BOOLEAN /\ run[r].good \in BOOLEAN
  BY <1>1, RunFacts DEF Run
<1>3. /\ Status(run[r]) \in {"success", "partial-failure", "failed"}
      /\ Status(run[r]) = "success" => ~run[r].bad
  BY <1>2 DEF Status
<1>4. markers \subseteq markers' /\ markers' \subseteq Stages
  BY <1>1, <1>2 DEF RunsInv, TypeOK
<1>5. MarkersInOrder'
  BY <1>1 DEF RunsInv, MarkersInOrder, ReadyRuns
<1>6. UNCHANGED <<checks, clicks, overlapped>> /\ troubles' \in Nat /\ troubles' <= MaxTroubles
  BY <1>1 DEF counters, RunsInv, TypeOK, Standing
<1>7. QED
  BY <1>1, <1>3, <1>4, <1>5, <1>6, EndStep

LEMMA ThrownStep ==
  ASSUME RunsInv, NEW r \in Runs, HoldsNothing(r) \/ Rejects(r)
  PROVE  RunsInv'
<1>1. /\ run[r].pc = "upsert"
      /\ run' = [run EXCEPT ![r] = [run[r] EXCEPT !.pc = "done", !.status = "failed"]]
      /\ UNCHANGED <<own, copied, bare, foreign, notes, sections, markers, window, checks, clicks, overlapped>>
      /\ troubles' = troubles \/ Trouble
  BY DEF HoldsNothing, Rejects, Thrown, document, counters
<1>2. troubles' \in Nat /\ troubles' <= MaxTroubles
  BY <1>1, DesignRunsAssumption DEF RunsInv, TypeOK, Standing, Trouble
<1>3. markers \subseteq markers' /\ markers' \subseteq Stages /\ MarkersInOrder'
  BY <1>1 DEF RunsInv, TypeOK, MarkersInOrder
<1>4. QED
  BY <1>1, <1>2, <1>3, EndStep

\* What it fills has been moved by the user, so it promises nothing any more.
LEMMA FillsAwayStep ==
  ASSUME RunsInv, NEW r \in Runs, FillsAway(r)
  PROVE  RunsInv'
<1>1. /\ run[r].pc = "upsert" /\ run[r].held = "moved" /\ Records(r, TRUE)
      /\ UNCHANGED <<own, copied, bare, foreign, notes, sections, markers>>
      /\ UNCHANGED <<confirmed, enabled, checks, clicks, troubles, overlapped>>
  BY DEF FillsAway, document, window, counters
<1>2. /\ run \in [Runs -> Run] /\ run[r] \in Run /\ run[r].stage \in Stages
      /\ run[r].at \in 1..Len(Steps[run[r].stage]) + 1
      /\ run[r].at <= Len(Steps[run[r].stage]) /\ run[r].edited
  BY <1>1, RunFacts DEF RunsInv, Standing, HeldOK
<1>3. Len(Steps[run[r].stage]) \in Nat
  BY <1>2, StepsAreKeys
<1> DEFINE q == recordResult(run[r], TRUE)
<1>4. /\ q \in Run /\ q.pc = "upsert" /\ q.stage = run[r].stage /\ q.at = run[r].at + 1
      /\ q.phase = "start" /\ q.held = "there" /\ q.edited
  <2>1. run[r].at + 1 \in Nat
    BY <1>2, <1>3
  <2>2. QED
    BY <1>1, <1>2, <2>1, RecordedRun
<1>5. run' = [run EXCEPT ![r] = q]
  BY <1>1 DEF Records
<1> HIDE DEF q
<1>6. run' \in [Runs -> Run] /\ run'[r] = q /\ \A s \in Runs \ {r} : run'[s] = run[s]
  BY <1>2, <1>4, <1>5
<1>7. AloneOK(q, own, bare, sections)
  BY <1>4 DEF AloneOK, ReadHolds
<1>8. /\ q.at \in 1..Len(Steps[run[r].stage]) + 1
      /\ \A s \in Runs : HeldOK(run'[s])
  <2>1. run[r].at + 1 \in 1..Len(Steps[run[r].stage]) + 1
    BY <1>2, <1>3
  <2>2. QED
    BY <1>4, <1>6, <2>1 DEF RunsInv, Standing, HeldOK
<1>9. /\ own \in [Keys -> Nat] /\ sections \in [Nodes -> Nat]
      /\ bare \subseteq Keys /\ (\A k \in bare : Kind[k] \notin {"page", "listed"})
      /\ notes \subseteq Nodes \X Places /\ markers \subseteq Stages
      /\ \A k \in Keys \ copied : own[k] > 1 => overlapped /\ Kind[k] \in Looked
      /\ \A k \in Nodes : sections[k] > 1 => overlapped
      /\ troubles \in Nat /\ troubles <= MaxTroubles
  BY DEF RunsInv, TypeOK, Standing, UniqueKeys, Looked
<1>10. MarkersInOrder'
  BY <1>1 DEF RunsInv, MarkersInOrder
<1>11. QED
  BY <1>1, <1>2, <1>4, <1>6, <1>7, <1>8, <1>9, <1>10, UpsertStep

\* The document and the counters of what the invariant says of them alone.
DocumentOK ==
  /\ own \in [Keys -> Nat] /\ sections \in [Nodes -> Nat]
  /\ bare \subseteq Keys /\ foreign \subseteq Keys /\ markers \subseteq Stages
  /\ copied \subseteq Nodes /\ notes \subseteq Nodes \X Places
  /\ \A k \in bare : Kind[k] \notin {"page", "listed"}
  /\ \A k \in Keys \ copied : own[k] > 1 => overlapped /\ Kind[k] \in Looked
  /\ \A k \in Nodes : sections[k] > 1 => overlapped
  /\ MarkersInOrder

CountersOK ==
  /\ {checks, clicks, troubles} \subseteq Nat
  /\ checks + clicks <= MaxGestures /\ troubles <= MaxTroubles
  /\ {confirmed, enabled, overlapped} \subseteq BOOLEAN
  /\ overlapped => checks > 1

\* What the invariant says of the runs alone.
RunsOK ==
  /\ run \in [Runs -> Run]
  /\ \A r \in Runs :
       IF run[r].pc = "idle" THEN run[r].stage = None
       ELSE run[r].stage \in Stages /\ run[r].at \in 1..Len(Steps[run[r].stage]) + 1
  /\ \A r \in Runs : run[r].pc = "posted" => run[r].at = 1 /\ run[r].phase = "start"
  /\ \A r \in Runs : HeldOK(run[r])
  /\ ReadyRuns

LEMMA InvInParts ==
  RunsInv <=> DocumentOK /\ CountersOK /\ RunsOK /\ WindowHolds /\ AloneSound
<1>1. ASSUME RunsOK, NEW r \in Runs, run[r].stage # None
      PROVE  run[r].at <= Len(Steps[run[r].stage]) + 1
  <2>1. run[r].stage \in Stages /\ run[r].at \in 1..Len(Steps[run[r].stage]) + 1
    BY <1>1 DEF RunsOK
  <2>2. QED
    BY <2>1, StepsAreKeys
<1>2. DocumentOK /\ CountersOK /\ RunsOK => TypeOK /\ Standing /\ UniqueKeys
  BY <1>1 DEF DocumentOK, CountersOK, RunsOK, TypeOK, Standing, UniqueKeys, Looked
<1>3. QED
  BY <1>2 DEF RunsInv, DocumentOK, CountersOK, RunsOK, TypeOK, Standing, UniqueKeys, Looked

\* The same after a step.
LEMMA NextInParts ==
  DocumentOK' /\ CountersOK' /\ RunsOK' /\ WindowHolds' /\ AloneSound' => RunsInv'
BY InvInParts, PTL

LEMMA AssertStageReadyStep ==
  ASSUME RunsInv, NEW r \in Runs, assertStageReady(r)
  PROVE  RunsInv'
<1>1. /\ run[r].pc = "posted"
      /\ run' = [run EXCEPT ![r] = IF Prereqs[run[r].stage] \subseteq markers
                                   THEN [run[r] EXCEPT !.pc = "upsert"]
                                   ELSE [run[r] EXCEPT !.pc = "done", !.status = "failed"]]
      /\ UNCHANGED <<document, window, counters>>
  BY DEF assertStageReady, Thrown
<1>2. run \in [Runs -> Run] /\ run[r] \in Run
  BY RunFacts
<1> DEFINE q == IF Prereqs[run[r].stage] \subseteq markers
                THEN [run[r] EXCEPT !.pc = "upsert"]
                ELSE [run[r] EXCEPT !.pc = "done", !.status = "failed"]
<1>3. /\ q \in Run /\ q.stage = run[r].stage /\ q.at = run[r].at /\ q.phase = run[r].phase
      /\ q.held = run[r].held /\ q.edited = run[r].edited
      /\ \/ q.pc = "upsert" /\ Prereqs[run[r].stage] \subseteq markers
         \/ q.pc = "done" /\ q.status = "failed"
  <2>1. [run[r] EXCEPT !.pc = "upsert"] \in Run /\ [run[r] EXCEPT !.pc = "done", !.status = "failed"] \in Run
    BY <1>2 DEF Run
  <2>2. CASE Prereqs[run[r].stage] \subseteq markers
    BY <1>2, <2>1, <2>2 DEF Run
  <2>3. CASE ~(Prereqs[run[r].stage] \subseteq markers)
    BY <1>2, <2>1, <2>3 DEF Run
  <2>4. QED
    BY <2>2, <2>3
<1> HIDE DEF q
<1>4. run'[r] = q /\ (\A s \in Runs \ {r} : run'[s] = run[s]) /\ run' \in [Runs -> Run]
  BY <1>1, <1>2, <1>3 DEF q
<1>5. DocumentOK' /\ CountersOK'
  BY <1>1, InvInParts DEF DocumentOK, CountersOK, MarkersInOrder, document, window, counters
<1>6. run[r].stage \in Stages /\ run[r].at = 1 /\ run[r].phase = "start"
      /\ run[r].at \in 1..Len(Steps[run[r].stage]) + 1
  BY <1>1, InvInParts DEF RunsOK
<1>7. RunsOK'
  <2>1. RunsOK /\ markers' = markers
    BY <1>1, InvInParts DEF document
  <2>2. HeldOK(q)
    <3>1. HeldOK(run[r])
      BY <2>1 DEF RunsOK
    <3>2. 1 <= Len(Steps[run[r].stage])
      BY <1>6, DesignRunsAssumption
    <3>3. QED
      BY <1>3, <1>6, <3>1, <3>2 DEF HeldOK
  <2>3. \A s \in Runs : HeldOK(run'[s])
    BY <1>4, <2>1, <2>2 DEF RunsOK
  <2>4. QED
    BY <1>3, <1>4, <1>6, <2>1, <2>2, <2>3 DEF RunsOK, ReadyRuns
<1>8. WindowHolds'
  <2>1. Busy' = Busy
    BY <1>1, <1>3, <1>4 DEF Busy
  <2>2. QED
    BY <1>1, <2>1 DEF RunsInv, WindowHolds, window, counters
<1>9. AloneSound'
  <2>1. AloneOK(q, own, bare, sections)
    BY <1>3, <1>6 DEF AloneOK, ReadHolds, Complete
  <2>2. UNCHANGED <<own, bare, sections, overlapped>>
    BY <1>1 DEF document, counters
  <2>3. QED
    BY <1>4, <2>1, <2>2 DEF RunsInv, AloneSound
<1>10. QED
  BY <1>5, <1>7, <1>8, <1>9, NextInParts

LEMMA IdleFacts ==
  /\ Idle \in Run /\ Idle.pc = "idle" /\ Idle.stage = None
  /\ Idle.at = 1 /\ Idle.phase = "start" /\ HeldOK(Idle)
BY DEF Idle, Run, HeldOK

LEMMA ResultStep ==
  ASSUME RunsInv, NEW r \in Runs, Result(r)
  PROVE  RunsInv'
<1>1. /\ run[r].pc = "done" /\ enabled' = confirmed
      /\ run' = [run EXCEPT ![r] = Idle]
      /\ UNCHANGED <<own, copied, bare, foreign, notes, sections, markers>>
      /\ UNCHANGED <<confirmed, checks, clicks, troubles, overlapped>>
  BY DEF Result, document, counters
<1>2. DocumentOK /\ CountersOK /\ RunsOK /\ WindowHolds /\ AloneSound
  BY InvInParts
<1>3. run' \in [Runs -> Run] /\ run'[r] = Idle /\ \A s \in Runs \ {r} : run'[s] = run[s]
  BY <1>1, <1>2, IdleFacts DEF RunsOK
<1>4. DocumentOK'
  BY <1>1, <1>2 DEF DocumentOK, MarkersInOrder
<1>5. CountersOK'
  BY <1>1, <1>2 DEF CountersOK
<1>6. RunsOK'
  BY <1>1, <1>2, <1>3, IdleFacts DEF RunsOK, ReadyRuns
<1>7. WindowHolds'
  <2>1. r \in Busy /\ Busy' = Busy \ {r}
    BY <1>1, <1>3, IdleFacts DEF Busy
  <2>2. checks < 2 => Busy' = {}
    BY <1>2, <2>1 DEF CountersOK, WindowHolds
  <2>3. QED
    BY <1>1, <1>2, <2>1, <2>2 DEF WindowHolds
<1>8. AloneSound'
  BY <1>1, <1>2, <1>3, IdleFacts, NotUpsertingOK DEF AloneSound
<1>9. QED
  BY <1>4, <1>5, <1>6, <1>7, <1>8, NextInParts

LEMMA CheckStep == RunsInv /\ Check => RunsInv'
<1> SUFFICES ASSUME RunsInv, Check PROVE RunsInv'
  OBVIOUS
<1>1. /\ checks + clicks < MaxGestures /\ checks' = checks + 1
      /\ confirmed' = ~confirmed /\ enabled' = ~confirmed
      /\ UNCHANGED <<own, copied, bare, foreign, notes, sections, markers>>
      /\ UNCHANGED <<run, clicks, troubles, overlapped>>
  BY DEF Check, document
<1>2. DocumentOK /\ CountersOK /\ RunsOK /\ WindowHolds /\ AloneSound
  BY InvInParts
<1>3. DocumentOK' /\ RunsOK' /\ AloneSound'
  BY <1>1, <1>2 DEF DocumentOK, MarkersInOrder, RunsOK, ReadyRuns, AloneSound
<1>4. {confirmed', enabled', overlapped'} \subseteq BOOLEAN
  BY <1>1, <1>2 DEF CountersOK
<1>5. CountersOK'
  BY <1>1, <1>2, <1>4, DesignRunsAssumption DEF CountersOK
<1>6. WindowHolds'
  <2>1. Busy' = Busy
    BY <1>1 DEF Busy
  <2>2. checks' < 2 => Busy = {}
    BY <1>1, <1>2 DEF CountersOK, WindowHolds
  <2>3. checks' # 0
    BY <1>1, <1>2 DEF CountersOK
  <2>4. QED
    BY <1>1, <1>2, <2>1, <2>2, <2>3 DEF WindowHolds
<1>7. QED
  BY <1>3, <1>5, <1>6, NextInParts

LEMMA ClickStep ==
  ASSUME RunsInv, NEW r \in Runs, NEW g \in Stages, Click(r, g)
  PROVE  RunsInv'
<1>1. /\ enabled /\ run[r].pc = "idle"
      /\ checks + clicks < MaxGestures /\ clicks' = clicks + 1
      /\ enabled' = FALSE
      /\ run' = [run EXCEPT ![r] = [Idle EXCEPT !.pc = "posted", !.stage = g]]
      /\ overlapped' = (overlapped \/ Busy # {})
      /\ UNCHANGED <<own, copied, bare, foreign, notes, sections, markers>>
      /\ UNCHANGED <<confirmed, checks, troubles>>
  BY DEF Click, document
<1>2. DocumentOK /\ CountersOK /\ RunsOK /\ WindowHolds /\ AloneSound
  BY InvInParts
<1> DEFINE q == [Idle EXCEPT !.pc = "posted", !.stage = g]
<1>3. /\ q \in Run /\ q.pc = "posted" /\ q.stage = g /\ q.at = 1 /\ q.phase = "start"
      /\ q.held = "there"
  BY DEF Idle, Run
<1> HIDE DEF q
<1>4. run' \in [Runs -> Run] /\ run'[r] = q /\ \A s \in Runs \ {r} : run'[s] = run[s]
  BY <1>1, <1>2, <1>3 DEF RunsOK, q
<1>5. DocumentOK'
  BY <1>1, <1>2 DEF DocumentOK, MarkersInOrder
<1>6. Busy # {} => checks > 1
  BY <1>1, <1>2 DEF CountersOK, WindowHolds
<1>7. CountersOK'
  <2>1. overlapped' \in BOOLEAN /\ (overlapped' => checks' > 1)
    BY <1>1, <1>2, <1>6 DEF CountersOK
  <2>2. clicks' \in Nat /\ checks' + clicks' <= MaxGestures
    BY <1>1, <1>2, DesignRunsAssumption DEF CountersOK
  <2>3. QED
    BY <1>1, <1>2, <2>1, <2>2 DEF CountersOK
<1>8. RunsOK'
  <2>1. q.at \in 1..Len(Steps[q.stage]) + 1
    BY <1>3, StepsAreKeys
  <2>2. \A s \in Runs : HeldOK(run'[s])
    BY <1>2, <1>3, <1>4 DEF RunsOK, HeldOK
  <2>3. QED
    BY <1>1, <1>2, <1>3, <1>4, <2>1, <2>2 DEF RunsOK, ReadyRuns
<1>9. WindowHolds'
  <2>1. Busy' = Busy \cup {r}
    BY <1>3, <1>4 DEF Busy
  <2>2. checks # 0
    BY <1>1, <1>2 DEF WindowHolds
  <2>3. QED
    BY <1>1, <2>1, <2>2 DEF WindowHolds
<1>10. AloneSound'
  <2>1. AloneOK(q, own, bare, sections)
    BY <1>3, NotUpsertingOK
  <2>2. QED
    BY <1>1, <1>2, <1>4, <2>1 DEF AloneSound
<1>11. QED
  BY <1>5, <1>7, <1>8, <1>9, <1>10, NextInParts

LEMMA CloseStep == RunsInv /\ Close => RunsInv'
<1> SUFFICES ASSUME RunsInv, Close PROVE RunsInv'
  OBVIOUS
<1>1. /\ run' = [r \in Runs |-> Idle]
      /\ confirmed' = FALSE /\ enabled' = FALSE
      /\ troubles < MaxTroubles /\ troubles' = troubles + 1
      /\ UNCHANGED <<own, copied, bare, foreign, notes, sections, markers>>
      /\ UNCHANGED <<checks, clicks, overlapped>>
  BY DEF Close, Trouble, document
<1>2. DocumentOK /\ CountersOK /\ RunsOK /\ WindowHolds
  BY InvInParts
<1>3. DocumentOK'
  BY <1>1, <1>2 DEF DocumentOK, MarkersInOrder
<1>4. CountersOK'
  <2>1. {confirmed', enabled', overlapped'} \subseteq BOOLEAN
    BY <1>1, <1>2 DEF CountersOK
  <2>2. QED
    BY <1>1, <1>2, <2>1, DesignRunsAssumption DEF CountersOK
<1>5. RunsOK'
  BY <1>1, IdleFacts DEF RunsOK, ReadyRuns
<1>6. WindowHolds'
  <2>1. Busy' = {}
    BY <1>1, IdleFacts DEF Busy
  <2>2. QED
    BY <1>1, <2>1 DEF WindowHolds
<1>7. AloneSound'
  BY <1>1, IdleFacts, NotUpsertingOK DEF AloneSound
<1>8. QED
  BY <1>3, <1>4, <1>5, <1>6, <1>7, NextInParts

\* The user edits the document: no run is further than before, and none says
\* any more that its stage is complete.
LEMMA EditStep ==
  ASSUME RunsInv,
         run' \in [Runs -> Run],
         \A r \in Runs :
           /\ run'[r].pc = run[r].pc /\ run'[r].stage = run[r].stage /\ run'[r].at = run[r].at
           /\ run'[r].phase = run[r].phase /\ run'[r].seen = run[r].seen /\ run'[r].edited
           /\ HeldOK(run'[r]),
         own' \in [Keys -> Nat], sections' \in [Nodes -> Nat], foreign' \subseteq Keys,
         bare' \subseteq bare, notes' \subseteq notes,
         copied \subseteq copied', copied' \subseteq Nodes,
         \A k \in Keys : own[k] = 0 => own'[k] = 0,
         \A k \in Keys \ copied' : own'[k] <= own[k],
         \A k \in Nodes : sections'[k] <= sections[k],
         Trouble, UNCHANGED <<markers, window, checks, clicks, overlapped>>
  PROVE  RunsInv'
<1>1. /\ UNCHANGED <<markers, confirmed, enabled, checks, clicks, overlapped>>
      /\ troubles < MaxTroubles /\ troubles' = troubles + 1
  BY DEF window, Trouble
<1>2. DocumentOK /\ CountersOK /\ RunsOK /\ WindowHolds /\ AloneSound
  BY InvInParts
<1>3. DocumentOK'
  <2>1. ASSUME NEW k \in Keys \ copied', own'[k] > 1 PROVE overlapped /\ Kind[k] \in Looked
    <3>1. own[k] \in Nat /\ own'[k] \in Nat /\ own'[k] <= own[k]
      BY <1>2 DEF DocumentOK
    <3>2. own[k] > 1
      BY <2>1, <3>1
    <3>3. QED
      BY <1>2, <3>2 DEF DocumentOK
  <2>2. ASSUME NEW k \in Nodes, sections'[k] > 1 PROVE overlapped
    <3>1. sections[k] \in Nat /\ sections'[k] \in Nat /\ sections'[k] <= sections[k]
      BY <1>2 DEF DocumentOK
    <3>2. sections[k] > 1
      BY <2>2, <3>1
    <3>3. QED
      BY <1>2, <3>2 DEF DocumentOK
  <2>3. QED
    BY <1>1, <1>2, <2>1, <2>2 DEF DocumentOK, MarkersInOrder
<1>4. CountersOK'
  BY <1>1, <1>2, DesignRunsAssumption DEF CountersOK
<1>5. RunsOK'
  <2>1. ASSUME NEW r \in Runs
        PROVE  /\ IF run'[r].pc = "idle" THEN run'[r].stage = None
                  ELSE run'[r].stage \in Stages /\ run'[r].at \in 1..Len(Steps[run'[r].stage]) + 1
               /\ run'[r].pc = "posted" => run'[r].at = 1 /\ run'[r].phase = "start"
               /\ run'[r].pc = "upsert" => Prereqs[run'[r].stage] \subseteq markers
               /\ HeldOK(run'[r])
    <3>1. /\ IF run[r].pc = "idle" THEN run[r].stage = None
             ELSE run[r].stage \in Stages /\ run[r].at \in 1..Len(Steps[run[r].stage]) + 1
          /\ run[r].pc = "posted" => run[r].at = 1 /\ run[r].phase = "start"
          /\ run[r].pc = "upsert" => Prereqs[run[r].stage] \subseteq markers
      BY <1>2 DEF RunsOK, ReadyRuns
    <3>2. QED
      BY <3>1
  <2>2. QED
    BY <1>1, <2>1 DEF RunsOK, ReadyRuns
<1>6. WindowHolds'
  <2>1. Busy' = Busy
    BY DEF Busy
  <2>2. QED
    BY <1>1, <1>2, <2>1 DEF WindowHolds
<1>7. AloneSound'
  <2>1. ASSUME ~overlapped, NEW r \in Runs PROVE AloneOK(run'[r], own', bare', sections')
    <3>1. AloneOK(run[r], own, bare, sections)
      BY <1>2, <2>1 DEF AloneSound
    <3>2. ASSUME NEW k \in Keys, AtKey(run'[r], k) PROVE ReadHolds(run'[r], k, own', sections')
      <4>1. ReadHolds(run[r], k, own, sections)
        BY <3>1, <3>2 DEF AloneOK, AtKey
      <4>2. k \in Nodes /\ sections[k] = 0 => sections'[k] = 0
        BY <1>2 DEF DocumentOK
      <4>3. QED
        BY <4>1, <4>2 DEF ReadHolds
    <3>3. QED
      BY <3>2 DEF AloneOK
  <2>2. QED
    BY <1>1, <2>1 DEF AloneSound
<1>8. QED
  BY <1>3, <1>4, <1>5, <1>6, <1>7, NextInParts

\* What an edit makes of a run: it may take from it what sets a value, or what
\* it holds in the middle of an upsert.
LEMMA EditedFacts ==
  ASSUME RunsInv, NEW r \in Runs,
         NEW q, \/ q = Edited[r] \/ q = [Edited[r] EXCEPT !.settable = FALSE]
                \/ /\ Current(r) # {}
                   /\ \E held \in {"moved", "removed"} : q = [Edited[r] EXCEPT !.held = held]
  PROVE  /\ q \in Run /\ HeldOK(q)
         /\ q.pc = run[r].pc /\ q.stage = run[r].stage /\ q.at = run[r].at
         /\ q.phase = run[r].phase /\ q.seen = run[r].seen /\ q.edited
<1> DEFINE e == Edited[r]
<1>1. run[r] \in Run /\ HeldOK(run[r])
  BY RunFacts DEF RunsInv, Standing
<1>2. e = [run[r] EXCEPT !.edited = TRUE]
  BY DEF Edited
<1>3. /\ e \in Run /\ e.pc = run[r].pc /\ e.stage = run[r].stage /\ e.at = run[r].at
      /\ e.phase = run[r].phase /\ e.seen = run[r].seen /\ e.edited /\ e.held = run[r].held
  BY <1>1, <1>2 DEF Run
<1>4. HeldOK(e)
  BY <1>1, <1>3 DEF HeldOK
<1> HIDE DEF e
<1>5. CASE q = e
  BY <1>3, <1>4, <1>5
<1>6. CASE q = [e EXCEPT !.settable = FALSE]
  <2>1. /\ q \in Run /\ q.pc = e.pc /\ q.stage = e.stage /\ q.at = e.at
        /\ q.phase = e.phase /\ q.seen = e.seen /\ q.edited /\ q.held = e.held
    BY <1>3, <1>6 DEF Run
  <2>2. QED
    BY <1>3, <1>4, <2>1 DEF HeldOK
<1>7. CASE Current(r) # {} /\ \E held \in {"moved", "removed"} : q = [e EXCEPT !.held = held]
  <2>1. run[r].at <= Len(Steps[run[r].stage])
    BY <1>7 DEF Current
  <2>2. /\ q \in Run /\ q.pc = e.pc /\ q.stage = e.stage /\ q.at = e.at
        /\ q.phase = e.phase /\ q.seen = e.seen /\ q.edited
    BY <1>3, <1>7 DEF Run
  <2>3. QED
    BY <1>3, <2>1, <2>2 DEF HeldOK
<1>8. QED
  BY <1>5, <1>6, <1>7 DEF e

LEMMA DeleteStep ==
  ASSUME RunsInv, NEW k \in Keys, Delete(k)
  PROVE  RunsInv'
<1> DEFINE gone == {k} \cup {j \in Keys : Within[j] = k}
           Without(r) == IF r \notin Holding(gone) THEN Edited[r]
                         ELSE IF run[r].phase = "value" /\ k \notin Current(r)
                         THEN [Edited[r] EXCEPT !.settable = FALSE]
                         ELSE [Edited[r] EXCEPT !.held = "removed"]
<1>1. DocumentOK
  BY InvInParts
<1>2. /\ Trouble
      /\ own' = [j \in Keys |-> IF j \in gone THEN 0 ELSE own[j]]
      /\ bare' \subseteq bare /\ notes' \subseteq notes
      /\ sections' = [j \in Nodes |-> IF j \in gone THEN 0 ELSE sections[j]]
      /\ run' = [r \in Runs |-> Without(r)]
      /\ UNCHANGED <<copied, foreign, markers, window, checks, clicks, overlapped>>
  BY DEF Delete, NotesOutside
<1>3. ASSUME NEW r \in Runs
      PROVE  /\ run'[r] \in Run /\ HeldOK(run'[r])
             /\ run'[r].pc = run[r].pc /\ run'[r].stage = run[r].stage /\ run'[r].at = run[r].at
             /\ run'[r].phase = run[r].phase /\ run'[r].seen = run[r].seen /\ run'[r].edited
  <2>1. r \in Holding(gone) => Current(r) # {}
    BY DEF Holding, Held
  <2>2. \/ Without(r) = Edited[r] \/ Without(r) = [Edited[r] EXCEPT !.settable = FALSE]
        \/ Current(r) # {} /\ Without(r) = [Edited[r] EXCEPT !.held = "removed"]
    BY <2>1
  <2>3. run'[r] = Without(r)
    BY <1>2
  <2> HIDE DEF Without
  <2>4. QED
    BY <2>2, <2>3, EditedFacts
<1> HIDE DEF gone
<1>4. run' \in [Runs -> Run]
  BY <1>2, <1>3
<1>5. /\ own' \in [Keys -> Nat] /\ sections' \in [Nodes -> Nat]
      /\ \A j \in Keys : own'[j] <= own[j] /\ (own[j] = 0 => own'[j] = 0)
      /\ \A j \in Nodes : sections'[j] <= sections[j]
  BY <1>1, <1>2 DEF DocumentOK, Nodes
<1>6. foreign' \subseteq Keys /\ copied \subseteq copied' /\ copied' \subseteq Nodes
  BY <1>1, <1>2 DEF DocumentOK
<1>7. QED
  BY <1>2, <1>3, <1>4, <1>5, <1>6, EditStep

LEMMA MoveStep ==
  ASSUME RunsInv, NEW k \in Nodes, Move(k)
  PROVE  RunsInv'
<1>1. DocumentOK /\ k \in Keys
  BY InvInParts DEF Nodes
<1>2. /\ Trouble
      /\ own' = [own EXCEPT ![k] = 0]
      /\ bare' \subseteq bare /\ notes' \subseteq notes
      /\ sections' = [sections EXCEPT ![k] = 0]
      /\ run' = [r \in Runs |-> IF r \in Holding({k}) THEN [Edited[r] EXCEPT !.held = "moved"]
                                                       ELSE Edited[r]]
      /\ UNCHANGED <<copied, foreign, markers, window, checks, clicks, overlapped>>
  BY DEF Move, NotesOutside
<1>3. ASSUME NEW r \in Runs
      PROVE  /\ run'[r] \in Run /\ HeldOK(run'[r])
             /\ run'[r].pc = run[r].pc /\ run'[r].stage = run[r].stage /\ run'[r].at = run[r].at
             /\ run'[r].phase = run[r].phase /\ run'[r].seen = run[r].seen /\ run'[r].edited
  <2>1. r \in Holding({k}) => Current(r) # {}
    BY DEF Holding, Held
  <2>2. \/ run'[r] = Edited[r]
        \/ Current(r) # {} /\ run'[r] = [Edited[r] EXCEPT !.held = "moved"]
    BY <1>2, <2>1
  <2>3. QED
    BY <2>2, EditedFacts
<1>4. run' \in [Runs -> Run]
  BY <1>2, <1>3
<1>5. /\ own' \in [Keys -> Nat] /\ sections' \in [Nodes -> Nat]
      /\ \A j \in Keys : own'[j] <= own[j] /\ (own[j] = 0 => own'[j] = 0)
      /\ \A j \in Nodes : sections'[j] <= sections[j]
  BY <1>1, <1>2 DEF DocumentOK
<1>6. foreign' \subseteq Keys /\ copied \subseteq copied' /\ copied' \subseteq Nodes
  BY <1>1, <1>2 DEF DocumentOK
<1>7. QED
  BY <1>2, <1>3, <1>4, <1>5, <1>6, EditStep

LEMMA CopyStep ==
  ASSUME RunsInv, NEW k \in Nodes, Copy(k)
  PROVE  RunsInv'
<1>1. DocumentOK /\ k \in Keys
  BY InvInParts DEF Nodes
<1>2. /\ Trouble /\ own[k] > 0 /\ run' = Edited
      /\ own' = [own EXCEPT ![k] = own[k] + 1] /\ copied' = copied \cup {k}
      /\ UNCHANGED <<bare, foreign, notes, sections, markers, window, checks, clicks, overlapped>>
  BY DEF Copy
<1>3. run' \in [Runs -> Run]
  BY <1>2, EditedFacts DEF Edited
<1>4. /\ own' \in [Keys -> Nat]
      /\ \A j \in Keys : own[j] = 0 => own'[j] = 0
      /\ \A j \in Keys \ copied' : own'[j] <= own[j]
      /\ \A j \in Nodes : sections[j] <= sections[j]
      /\ sections \in [Nodes -> Nat]
  BY <1>1, <1>2 DEF DocumentOK
<1>5. foreign \subseteq Keys /\ copied \subseteq copied' /\ copied' \subseteq Nodes
  BY <1>1, <1>2 DEF DocumentOK
<1>6. QED
  BY <1>2, <1>3, <1>4, <1>5, EditedFacts, EditStep

LEMMA TakeNameStep ==
  ASSUME RunsInv, NEW k \in Keys, TakeName(k)
  PROVE  RunsInv'
<1>1. DocumentOK
  BY InvInParts
<1>2. /\ Trouble /\ run' = Edited /\ foreign' = foreign \cup {k}
      /\ UNCHANGED <<own, copied, bare, notes, sections, markers, window, checks, clicks, overlapped>>
  BY DEF TakeName
<1>3. run' \in [Runs -> Run]
  BY <1>2, EditedFacts DEF Edited
<1>4. /\ own \in [Keys -> Nat] /\ sections \in [Nodes -> Nat] /\ foreign' \subseteq Keys
      /\ copied \subseteq Nodes
      /\ \A j \in Keys : own[j] <= own[j]
      /\ \A j \in Nodes : sections[j] <= sections[j]
  BY <1>1, <1>2 DEF DocumentOK
<1>5. QED
  BY <1>2, <1>3, <1>4, EditedFacts, EditStep

LEMMA AddNoteStep ==
  ASSUME RunsInv, NEW k \in Nodes, NEW place \in Places, AddNote(k, place)
  PROVE  RunsInv'
<1>1. /\ notes' = notes \cup {<<k, place>>}
      /\ troubles < MaxTroubles /\ troubles' = troubles + 1
      /\ UNCHANGED <<own, copied, bare, foreign, sections, markers, run, checks, clicks, overlapped>>
      /\ UNCHANGED <<confirmed, enabled>>
  BY DEF AddNote, Trouble, window
<1>2. DocumentOK /\ CountersOK /\ RunsOK /\ WindowHolds /\ AloneSound
  BY InvInParts
<1>3. DocumentOK' /\ RunsOK' /\ AloneSound'
  BY <1>1, <1>2 DEF DocumentOK, MarkersInOrder, RunsOK, ReadyRuns, AloneSound
<1>4. CountersOK' /\ WindowHolds'
  BY <1>1, <1>2, DesignRunsAssumption DEF CountersOK, WindowHolds, Busy
<1>5. QED
  BY <1>3, <1>4, NextInParts

-----------------------------------------------------------------------------
\* The invariant holds.

LEMMA RunsInvInit == Init => RunsInv
<1> SUFFICES ASSUME Init PROVE RunsInv
  OBVIOUS
<1>1. DocumentOK
  BY DEF Init, DocumentOK, MarkersInOrder
<1>2. CountersOK
  <2>1. {confirmed, enabled, overlapped} \subseteq BOOLEAN
    BY DEF Init
  <2>2. QED
    BY <2>1, DesignRunsAssumption DEF Init, CountersOK
<1>3. RunsOK
  BY IdleFacts DEF Init, RunsOK, ReadyRuns
<1>4. WindowHolds
  BY IdleFacts DEF Init, WindowHolds, Busy
<1>5. AloneSound
  BY IdleFacts, NotUpsertingOK DEF Init, AloneSound
<1>6. QED
  BY <1>1, <1>2, <1>3, <1>4, <1>5, InvInParts

LEMMA RunsInvStep ==
  ASSUME RunsInv, [Next]_vars
  PROVE  RunsInv'
<1>1. ASSUME NEW r \in Runs, Proceed(r) PROVE RunsInv'
  BY <1>1, AssertStageReadyStep, FinishStep, FillsAwayStep, ThrownStep, ResultStep, UpsertsKeep DEF Proceed
<1>2. ASSUME NEW r \in Runs, Rejects(r) \/ (\E g \in Stages : Click(r, g)) PROVE RunsInv'
  BY <1>2, ThrownStep, ClickStep
<1>3. CASE UNCHANGED vars
  BY <1>3 DEF vars, document, window, counters, RunsInv, TypeOK, Standing, UniqueKeys, MarkersInOrder,
              ReadyRuns, WindowHolds, Busy, AloneSound
<1>4. QED
  BY <1>1, <1>2, <1>3, CheckStep, CloseStep, DeleteStep, TakeNameStep, MoveStep, CopyStep, AddNoteStep
     DEF Next

LEMMA RunsInvHolds == Spec => []RunsInv
BY RunsInvInit, RunsInvStep, PTL DEF Spec

(***************************************************************************)
(* Types of the document, the runs and the window; a run never goes past   *)
(* the last step of its stage.                                             *)
(***************************************************************************)
THEOREM Typing == Spec => []TypeOK
<1>1. RunsInv => TypeOK
  BY DEF RunsInv
<1>2. QED
  BY <1>1, RunsInvHolds, PTL

(***************************************************************************)
(* Where the plugin looks it never makes a second resource of a key, nor a *)
(* second set of sections in a screen, whatever is run again, rejected,    *)
(* deleted, moved or duplicated: what is there twice is what the user has  *)
(* duplicated, or the work of runs that took turns, and they did so only   *)
(* after the checkbox was changed while a stage ran (ui.html:5).           *)
(***************************************************************************)
THEOREM KeysAreUnique == Spec => []UniqueKeys
<1>1. RunsInv => UniqueKeys
  BY DEF RunsInv
<1>2. QED
  BY <1>1, RunsInvHolds, PTL

(***************************************************************************)
(* A stage is complete only after the stages it asks for, even when runs   *)
(* take turns between the question and the mark.                           *)
(***************************************************************************)
THEOREM StagesInOrder == Spec => []MarkersInOrder
<1>1. RunsInv => MarkersInOrder
  BY DEF RunsInv
<1>2. QED
  BY <1>1, RunsInvHolds, PTL

(***************************************************************************)
(* A report of success is of a stage whose resources are all there and     *)
(* finished, what earlier runs have left half done included.               *)
(***************************************************************************)
THEOREM ReportsAreTrue == Spec => []SuccessIsComplete
<1>1. RunsInv => SuccessIsComplete
  BY DEF RunsInv, AloneSound, AloneOK, Complete, SuccessIsComplete
<1>2. QED
  BY <1>1, RunsInvHolds, PTL
=============================================================================
