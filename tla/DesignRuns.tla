----------------------------- MODULE DesignRuns -----------------------------
(***************************************************************************)
(* The Figma plugin of tools/figma-plugin: its window, the stages it runs  *)
(* and the resources of the document each stage creates or updates.        *)
(*                                                                         *)
(* The plugin is one thread, so a step is what runs between two awaits.    *)
(* Its window disables the stage buttons while a stage runs, but the       *)
(* checkbox enables them again: two stages can then take turns at every    *)
(* await.  The user edits the document meanwhile, can close the plugin,    *)
(* and any await can reject: a font does not load, a node has been         *)
(* removed, the file has as many pages as its plan allows.                 *)
(***************************************************************************)
EXTENDS Naturals, Sequences, FiniteSets

CONSTANTS Runs,      \* the stage runs that can be going on at a time
          Stages,    \* the stages
          Steps,     \* the keys a stage upserts, in order
          Prereqs,   \* the stages a stage asks to be complete
          Kind,      \* what a key stands for
          Within,    \* the key of its page or collection, or None
          Alias,     \* the variable whose value a variable takes, or None
          None,
          MaxGestures, \* changes of the checkbox and clicks together
          MaxTroubles  \* edits, rejections and closings together

Keys == DOMAIN Kind
Kinds == {"page", "listed", "variable", "textStyle", "component", "screen", "darkScreen"}
Nodes == {k \in Keys : Kind[k] \in {"component", "screen", "darkScreen"}}

ASSUME DesignRunsAssumption ==
  /\ Steps \in [Stages -> Seq(Keys)] /\ \A g \in Stages : Steps[g] # <<>>
  /\ Prereqs \in [Stages -> SUBSET Stages]
  /\ \A k \in Keys : Kind[k] \in Kinds /\ Within[k] \in Keys \cup {None}
                                       /\ Alias[k] \in Keys \cup {None}
  /\ {MaxGestures, MaxTroubles} \subseteq Nat

VARIABLES own,       \* how many resources of a key there are where the plugin
                     \* looks: components and screens on their own page only
          copied,    \* keys of which the user has made a second resource
          bare,      \* keys whose resource has been created and not finished
          foreign,   \* keys whose name a resource has that is not the plugin's
          notes,     \* what the user has put into a node, and where
          sections,  \* how many sets of generated sections a node has
          markers,   \* the stages marked complete in the document
          run,       \* the runs
          confirmed, enabled,  \* the window: its checkbox and its buttons
          checks, clicks, troubles,
          overlapped \* ghost: a stage has been started while another ran

document == <<own, copied, bare, foreign, notes, sections, markers>>
window == <<confirmed, enabled>>
counters == <<checks, clicks, troubles, overlapped>>
vars == <<document, run, window, counters>>

\* Beside the generated sections of a node, or inside one of them.
Places == {"beside", "inside"}

\* at is the step of the stage, phase where in the upsert the run awaits; seen
\* is what it read before that await and settable whether it then found what a
\* value is set by; bad and good tell of a conflict or an error, and of a
\* resource created or updated, so far; edited that the document has changed
\* under it, held what has become of the resource it holds.
Run == [pc : {"idle", "posted", "upsert", "done"}, stage : Stages \cup {None}, at : Nat,
        phase : {"start", "write", "value", "fill", "sections"},
        seen : {"absent", "own", "foreign"}, settable : BOOLEAN, bad : BOOLEAN, good : BOOLEAN,
        status : {"success", "partial-failure", "failed"}, edited : BOOLEAN,
        held : {"there", "moved", "removed"}]

Idle == [pc |-> "idle", stage |-> None, at |-> 1, phase |-> "start", seen |-> "absent",
         settable |-> FALSE, bad |-> FALSE, good |-> FALSE, status |-> "success",
         edited |-> FALSE, held |-> "there"]

Init ==
  /\ own = [k \in Keys |-> 0]
  /\ copied = {} /\ bare = {} /\ foreign = {} /\ notes = {} /\ markers = {}
  /\ sections = [k \in Nodes |-> 0]
  /\ run = [r \in Runs |-> Idle]
  /\ confirmed = FALSE /\ enabled = FALSE
  /\ checks = 0 /\ clicks = 0 /\ troubles = 0
  /\ overlapped = FALSE

Busy == {r \in Runs : run[r].pc # "idle"}

Trouble == troubles < MaxTroubles /\ troubles' = troubles + 1

-----------------------------------------------------------------------------
\* The window.

Check ==
  /\ checks + clicks < MaxGestures /\ checks' = checks + 1
  /\ confirmed' = ~confirmed
  /\ enabled' = ~confirmed
  /\ UNCHANGED <<document, run, clicks, troubles, overlapped>>

Click(r, g) ==
  /\ enabled
  /\ run[r].pc = "idle"
  /\ checks + clicks < MaxGestures /\ clicks' = clicks + 1
  /\ enabled' = FALSE
  /\ run' = [run EXCEPT ![r] = [Idle EXCEPT !.pc = "posted", !.stage = g]]
  /\ overlapped' = (overlapped \/ Busy # {})
  /\ UNCHANGED <<document, confirmed, checks, troubles>>

\* The result arrives.
Result(r) ==
  /\ run[r].pc = "done"
  /\ enabled' = confirmed
  /\ run' = [run EXCEPT ![r] = Idle]
  /\ UNCHANGED <<document, confirmed, counters>>

\* closePlugin, and the plugin opened again.
Close ==
  /\ Busy # {}
  /\ Trouble
  /\ run' = [r \in Runs |-> Idle]
  /\ confirmed' = FALSE /\ enabled' = FALSE
  /\ UNCHANGED <<document, checks, clicks, overlapped>>

-----------------------------------------------------------------------------
\* The user and the document.

Edited == [r \in Runs |-> [run[r] EXCEPT !.edited = TRUE]]

\* The key r is at, if there is one.
Current(r) ==
  LET q == run[r] IN
  IF q.pc = "upsert" /\ q.at <= Len(Steps[q.stage]) THEN {Steps[q.stage][q.at]} ELSE {}

\* What r holds across an await: the resource it found or made, but the page
\* before it looks for a component or screen there.
Held(r) ==
  {j \in Keys : \E k \in Current(r) :
     CASE run[r].phase = "start"                   -> FALSE
       [] run[r].phase = "write" /\ k \in Nodes    -> j = Within[k]
       [] run[r].phase = "write" /\ k \notin Nodes -> j = k /\ run[r].seen = "own"
       [] OTHER                                    -> j = k}

Holding(ks) == {r \in Runs : run[r].held # "moved" /\ Held(r) \cap ks # {}}

NotesOutside(ks) == {n \in notes : n[1] \notin ks}

\* All there is of k, with what is in it.  A variable whose collection has been
\* deleted is reported as an error; any other use of what is deleted throws.
Delete(k) ==
  LET gone == {k} \cup {j \in Keys : Within[j] = k}
      Without(r) == IF r \notin Holding(gone) THEN Edited[r]
                    ELSE IF run[r].phase = "value" /\ k \notin Current(r)
                    THEN [Edited[r] EXCEPT !.settable = FALSE]
                    ELSE [Edited[r] EXCEPT !.held = "removed"] IN
  /\ Trouble
  /\ own[k] > 0
  /\ own' = [j \in Keys |-> IF j \in gone THEN 0 ELSE own[j]]
  /\ bare' = bare \ gone
  /\ notes' = NotesOutside(gone)
  /\ sections' = [j \in Nodes |-> IF j \in gone THEN 0 ELSE sections[j]]
  /\ run' = [r \in Runs |-> Without(r)]
  /\ UNCHANGED <<copied, foreign, markers, window, checks, clicks, overlapped>>

\* A component or screen goes to another page, where the plugin does not look
\* for it; a run that is filling it goes on doing so there.
Move(k) ==
  /\ Trouble
  /\ own[k] > 0
  /\ own' = [own EXCEPT ![k] = 0]
  /\ bare' = bare \ {k}
  /\ notes' = NotesOutside({k})
  /\ sections' = [sections EXCEPT ![k] = 0]
  /\ run' = [r \in Runs |-> IF r \in Holding({k}) THEN [Edited[r] EXCEPT !.held = "moved"]
                                                  ELSE Edited[r]]
  /\ UNCHANGED <<copied, foreign, markers, window, checks, clicks, overlapped>>

\* A duplicate has the plugin's data too.  It comes after the original, which
\* is the one the plugin finds.
Copy(k) ==
  /\ Trouble
  /\ own[k] > 0
  /\ own' = [own EXCEPT ![k] = @ + 1]
  /\ copied' = copied \cup {k}
  /\ run' = Edited
  /\ UNCHANGED <<bare, foreign, notes, sections, markers, window, checks, clicks, overlapped>>

\* The user makes a resource of the name the plugin uses.
TakeName(k) ==
  /\ Trouble
  /\ k \notin foreign
  /\ foreign' = foreign \cup {k}
  /\ run' = Edited
  /\ UNCHANGED <<own, copied, bare, notes, sections, markers, window, checks, clicks, overlapped>>

AddNote(k, place) ==
  /\ Trouble
  /\ own[k] > 0
  /\ place = "inside" => sections[k] > 0
  /\ notes' = notes \cup {<<k, place>>}
  /\ UNCHANGED <<own, copied, bare, foreign, sections, markers, run, window, checks, clicks,
                 overlapped>>

-----------------------------------------------------------------------------
\* A stage: a sequence of upserts, each recorded in the report.

\* An exception ends the run with a failed report, of which stage is not said.
Thrown(q) == [q EXCEPT !.pc = "done", !.status = "failed"]

\* Faulty variant: what has failed is not asked for.
assertStageReady_Any(r) ==
  /\ run[r].pc = "posted"
  /\ run' = [run EXCEPT ![r].pc = "upsert"]
  /\ UNCHANGED <<document, window, counters>>

assertStageReady(r) ==
  /\ run[r].pc = "posted"
  /\ run' = [run EXCEPT ![r] = IF Prereqs[@.stage] \subseteq markers
                              THEN [@ EXCEPT !.pc = "upsert"] ELSE Thrown(@)]
  /\ UNCHANGED <<document, window, counters>>

\* Faulty variant: a conflict counts as done.
recordResult_ConflictDone(q, ok) ==
  [q EXCEPT !.at = @ + 1, !.phase = "start", !.held = "there", !.good = TRUE]

recordResult(q, ok) ==
  [q EXCEPT !.at = @ + 1, !.phase = "start", !.held = "there",
            !.bad = @ \/ ~ok, !.good = @ \/ ok]

Status(q) == CASE ~q.bad            -> "success"
               [] q.bad /\ q.good  -> "partial-failure"
               [] q.bad /\ ~q.good -> "failed"

Finish(r) ==
  LET q == run[r] IN
  /\ q.pc = "upsert" /\ q.at > Len(Steps[q.stage])
  /\ run' = [run EXCEPT ![r] = [@ EXCEPT !.pc = "done", !.status = Status(q)]]
  /\ markers' = IF Status(q) = "success" THEN markers \cup {q.stage} ELSE markers
  /\ UNCHANGED <<own, copied, bare, foreign, notes, sections, window, counters>>

\* It is of one of these kinds, r awaits in this phase of its upsert, and what
\* r holds is still there.
At(r, k, kinds, phase) ==
  /\ k \in Current(r) /\ Kind[k] \in kinds
  /\ run[r].phase = phase /\ run[r].held = "there"

\* The nodes of a component or screen are looked for on its page only.
Sees(k) == IF own[k] > 0 THEN "own" ELSE IF k \in foreign THEN "foreign" ELSE "absent"

Records(r, ok) == run' = [run EXCEPT ![r] = recordResult(@, ok)]
Awaits(r, phase) == run' = [run EXCEPT ![r].phase = phase]
Creates(k) == own' = [own EXCEPT ![k] = @ + 1] /\ bare' = bare \cup {k}
Holds == UNCHANGED <<own, bare>>

\* Faulty variant: pages are found by their name, not by their key.
upsertPage_ByName(r, k) ==
  /\ At(r, k, {"page"}, "start")
  /\ own' = [own EXCEPT ![k] = IF k \in foreign THEN @ ELSE @ + 1]
  /\ Records(r, k \notin foreign)
  /\ UNCHANGED <<copied, bare, foreign, notes, sections, markers, window, counters>>

\* No await comes between what is found and what is done about it.
upsertPage(r, k) ==
  /\ At(r, k, {"page"}, "start")
  /\ own' = [own EXCEPT ![k] = IF Sees(k) = "absent" THEN @ + 1 ELSE @]
  /\ Records(r, Sees(k) # "foreign")
  /\ UNCHANGED <<copied, bare, foreign, notes, sections, markers, window, counters>>

\* getLocalVariableCollectionsAsync and its like.
ListLocal(r, k) ==
  /\ At(r, k, {"listed", "variable", "textStyle"}, "start")
  /\ run' = [run EXCEPT ![r] = [@ EXCEPT !.phase = "write", !.seen = Sees(k),
                 !.settable = Alias[k] = None \/ Sees(Alias[k]) # "absent"]]
  /\ UNCHANGED <<document, window, counters>>

\* upsertVariableCollection and upsertEffectStyle.
upsertListed(r, k) ==
  /\ At(r, k, {"listed"}, "write")
  /\ own' = [own EXCEPT ![k] = IF run[r].seen = "absent" THEN @ + 1 ELSE @]
  /\ Records(r, run[r].seen # "foreign")
  /\ UNCHANGED <<copied, bare, foreign, notes, sections, markers, window, counters>>

\* upsertVariable and upsertTextStyle up to the await after the creation.
upsertNamed(r, k) ==
  /\ At(r, k, {"variable", "textStyle"}, "write")
  /\ LET homeless == Within[k] # None /\ own[Within[k]] = 0 IN
     \/ run[r].seen = "own" /\ Awaits(r, "value") /\ Holds
     \/ run[r].seen = "absent" /\ ~homeless /\ Awaits(r, "value") /\ Creates(k)
     \/ run[r].seen = "absent" /\ homeless /\ Records(r, FALSE) /\ Holds
     \/ run[r].seen = "foreign" /\ Records(r, FALSE) /\ Holds
  /\ UNCHANGED <<copied, foreign, notes, sections, markers, window, counters>>

\* The collection of the variable, which must still be there; an alias was
\* looked for among the variables listed at first.
SetValue(r, k) ==
  /\ At(r, k, {"variable", "textStyle"}, "value")
  /\ Records(r, run[r].settable)
  /\ bare' = IF run[r].settable THEN bare \ {k} ELSE bare
  /\ UNCHANGED <<own, copied, foreign, notes, sections, markers, window, counters>>

\* pageFor, and the page shown.
FocusPage(r, k) ==
  /\ At(r, k, {"component", "screen", "darkScreen"}, "start")
  /\ IF own[Within[k]] = 0 THEN Records(r, FALSE)
     ELSE run' = [run EXCEPT ![r] = [@ EXCEPT !.phase = "write", !.seen = "own"]]
  /\ UNCHANGED <<document, window, counters>>

\* upsertComponentFamily and upsertScreen up to the fonts.
upsertNode(r, k) ==
  /\ At(r, k, {"component", "screen"}, "write")
  /\ \/ Sees(k) = "foreign" /\ Records(r, FALSE) /\ Holds
     \/ Sees(k) = "own" /\ Awaits(r, "fill") /\ Holds
     \/ Sees(k) = "absent" /\ Awaits(r, "fill") /\ Creates(k)
  /\ UNCHANGED <<copied, foreign, notes, sections, markers, window, counters>>

\* An admin screen is emptied at once, and its contents, which another run may
\* have begun, with it; then renderAdminScreen awaits its fonts.
upsertDarkScreen(r, k) ==
  /\ At(r, k, {"darkScreen"}, "write")
  /\ IF Sees(k) = "foreign"
     THEN Records(r, FALSE) /\ Holds /\ UNCHANGED <<notes, sections>>
     ELSE /\ IF Sees(k) = "absent" THEN Creates(k) ELSE Holds
          /\ notes' = NotesOutside({k})
          /\ sections' = [sections EXCEPT ![k] = 0]
          /\ run' = [q \in Runs |->
                       IF q = r THEN [run[q] EXCEPT !.phase = "sections"]
                       ELSE IF q \in Holding({k})
                       THEN [run[q] EXCEPT !.held = "removed"] ELSE run[q]]
  /\ UNCHANGED <<copied, foreign, markers, window, counters>>

\* A component is emptied and filled once its fonts have loaded.
renderComponent(r, k) ==
  /\ At(r, k, {"component"}, "fill")
  /\ notes' = NotesOutside({k})
  /\ bare' = bare \ {k}
  /\ Records(r, TRUE)
  /\ UNCHANGED <<own, copied, foreign, sections, markers, window, counters>>

\* The sections of an earlier run are removed with what the user has put inside
\* them, and a font is awaited.
ensureSections(r, k) ==
  /\ At(r, k, {"screen"}, "fill")
  /\ sections' = [sections EXCEPT ![k] = 0]
  /\ notes' = notes \ {<<k, "inside">>}
  /\ Awaits(r, "sections")
  /\ UNCHANGED <<own, copied, bare, foreign, markers, window, counters>>

AddSections(r, k) ==
  /\ At(r, k, {"screen", "darkScreen"}, "sections")
  /\ sections' = [sections EXCEPT ![k] = @ + 1]
  /\ bare' = bare \ {k}
  /\ Records(r, TRUE)
  /\ UNCHANGED <<own, copied, foreign, notes, markers, window, counters>>

\* The node it fills has been moved: it is finished where it is now.
FillsAway(r) ==
  /\ run[r].pc = "upsert" /\ run[r].held = "moved"
  /\ Records(r, TRUE)
  /\ UNCHANGED <<document, window, counters>>

\* What it holds has been removed: the next use of it throws.
HoldsNothing(r) ==
  /\ run[r].pc = "upsert" /\ run[r].held = "removed"
  /\ run' = [run EXCEPT ![r] = Thrown(@)]
  /\ UNCHANGED <<document, window, counters>>

\* Faulty variant: the exception is not caught.
Rejects_Uncaught(r) ==
  /\ run[r].pc = "upsert"
  /\ Trouble
  /\ run' = [run EXCEPT ![r] = [Idle EXCEPT !.edited = TRUE]]
  /\ UNCHANGED <<document, window, checks, clicks, overlapped>>

\* Faulty variant: the exception is recorded and the stage goes on.
Rejects_GoesOn(r) ==
  /\ run[r].pc = "upsert"
  /\ Trouble
  /\ Records(r, FALSE)
  /\ UNCHANGED <<document, window, checks, clicks, overlapped>>

Rejects(r) ==
  /\ run[r].pc = "upsert"
  /\ Trouble
  /\ run' = [run EXCEPT ![r] = Thrown(@)]
  /\ UNCHANGED <<document, window, checks, clicks, overlapped>>

-----------------------------------------------------------------------------

Upsert(r, k) ==
  \/ upsertPage(r, k) \/ ListLocal(r, k) \/ upsertListed(r, k) \/ upsertNamed(r, k)
  \/ SetValue(r, k) \/ FocusPage(r, k) \/ upsertNode(r, k) \/ upsertDarkScreen(r, k)
  \/ renderComponent(r, k) \/ ensureSections(r, k) \/ AddSections(r, k)

Proceed(r) ==
  \/ assertStageReady(r) \/ Finish(r) \/ FillsAway(r) \/ HoldsNothing(r) \/ Result(r)
  \/ \E k \in Current(r) : Upsert(r, k)

Next ==
  \/ Check \/ Close
  \/ \E k \in Keys : Delete(k) \/ TakeName(k)
  \/ \E k \in Nodes : Move(k) \/ Copy(k) \/ \E place \in Places : AddNote(k, place)
  \/ \E r \in Runs : Proceed(r) \/ Rejects(r) \/ \E g \in Stages : Click(r, g)

Spec == Init /\ [][Next]_vars

\* A run that has been started goes on; the user may do nothing.
FairSpec == Spec /\ \A r \in Runs : WF_vars(Proceed(r))

-----------------------------------------------------------------------------
\* Properties.

TypeOK ==
  /\ own \in [Keys -> Nat]
  /\ copied \subseteq Nodes /\ bare \subseteq Keys /\ foreign \subseteq Keys
  /\ notes \subseteq Nodes \X Places
  /\ sections \in [Nodes -> Nat] /\ markers \subseteq Stages
  /\ run \in [Runs -> Run]
  /\ \A r \in Runs : run[r].stage # None => run[r].at <= Len(Steps[run[r].stage]) + 1
  /\ {confirmed, enabled, overlapped} \subseteq BOOLEAN
  /\ checks + clicks <= MaxGestures /\ troubles <= MaxTroubles

(***************************************************************************)
(* However often stages are run again, after whatever failure or edit, the *)
(* plugin makes no second resource of a key where it looks for one, and no *)
(* second set of sections in a screen: a second one is the user's copy, or *)
(* of stages that took turns, which they do only if the user has changed   *)
(* the checkbox meanwhile.  Pages, components and screens stay single even *)
(* then, since no await comes between their search and their creation.     *)
(* (A node moved to another page is not looked for there and made again.)  *)
(***************************************************************************)
UniqueKeys ==
  /\ overlapped => checks > 1
  /\ \A k \in Keys \ copied :
       own[k] > 1 => overlapped /\ Kind[k] \in {"listed", "variable", "textStyle"}
  /\ \A k \in Nodes : sections[k] > 1 => overlapped

(***************************************************************************)
(* A stage is marked complete only after those it asks for, even when a    *)
(* stage is run again and fails.                                           *)
(***************************************************************************)
MarkersInOrder == \A g \in markers : Prereqs[g] \subseteq markers

(***************************************************************************)
(* A report of success is one of a complete stage: every resource of it is *)
(* there and finished, unless the user has edited the document or run      *)
(* another stage meanwhile; what an earlier run left half done included.   *)
(***************************************************************************)
SuccessIsComplete ==
  \A r \in Runs :
    run[r].pc = "done" /\ run[r].status = "success" /\ ~run[r].edited /\ ~overlapped =>
      \A i \in 1..Len(Steps[run[r].stage]) :
        own[Steps[run[r].stage][i]] > 0 /\ Steps[run[r].stage][i] \notin bare

(***************************************************************************)
(* "Unknown user nodes are not deleted": what the user has put into a      *)
(* component or screen is there as long as that is.                        *)
(***************************************************************************)
NotesKept == [][\A n \in notes \ notes' : own'[n[1]] = 0]_document

(***************************************************************************)
(* A run ends with a report, whatever rejects, and the buttons come back   *)
(* with it while the box is checked.                                       *)
(***************************************************************************)
ButtonsComeBack == []<>(confirmed => enabled)
=============================================================================
