------------------------------- MODULE Skills -------------------------------
(***************************************************************************)
(* Skills: selection, validation, activation and the execution of their    *)
(* commands (pkg/agent/nodes/skills.go, pkg/skills/registry,               *)
(* pkg/skills/validation, pkg/tools/skills), by turns that run at the same *)
(* time and share the skill directories and the validation records.        *)
(*                                                                         *)
(* A skill is loose: a bare directory with a SKILL.md, which its owner may *)
(* edit at any time (nothing outside the tests calls SaveSkillBundle).     *)
(* Its bundle is every file below the directory: the owner's files, named  *)
(* by a version, and the temporary scripts of the commands that run in it  *)
(* (exec.go:84 creates them there, with extensions a bundle may contain).  *)
(* The bundle stands for its hash, which is assumed to have no collisions. *)
(* A validation record is kept under its key, <<skill, bundle>>; the       *)
(* policy version never changes while the process runs.                    *)
(***************************************************************************)
EXTENDS Naturals, Sequences, FiniteSets, SequencesExt

CONSTANTS
    Turns,          \* turns with a skills node, possibly concurrent
    Names,          \* skills installed
    Versions,       \* what the owner may put into a skill's directory
    FirstVersion,   \* what is there at first
    MaxSelected,    \* bound: skills the selector picks for a turn
    MaxCalls,       \* bound: RunSkillCommand calls of a turn
    MaxEdits,       \* bound: edits by the owner
    MaxFaults,      \* bound: failed accesses to the record files
    MaxCrashes,     \* bound: deaths of the process
    Nothing         \* no key, no bundle, no catalog

ASSUME SkillsAssumption ==
    /\ FirstVersion \in Versions
    /\ {MaxSelected, MaxCalls, MaxEdits, MaxFaults, MaxCrashes} \subseteq Nat

\* A temporary script has a name no other call gets.
Scripts == Turns \X (1..MaxCalls)

Bundles == [version : Versions, scripts : SUBSET Scripts]

Keys == Names \X Bundles

\* The temporary file a turn's Save renames into place: unique, as a turn saves
\* at most one record for each skill it still has to deal with.
Temps == Turns \X Nat

Statuses == {"none", "APPROVED", "REJECTED", "STALE"}

ASSUME NothingAssumption ==
    /\ Nothing \notin Keys \cup Temps
    /\ Nothing \notin Bundles
    /\ Nothing \notin [Names -> Bundles]

VARIABLES
    disk,           \* disk[s]: what is in the directory of skill s
    records,        \* records[k]: the validation record under key k
    pc,             \* pc[t]: where the turn is
    catalog,        \* catalog[t]: ListSkills, until the selector has answered
    todo,           \* todo[t]: keys of the selected skills not yet dealt with
    others,         \* others[t]: files InvalidateOthers has still to read
    superseded,     \* superseded[t]: the file it is about to mark STALE
    loaded,         \* loaded[t]: the bundle under validation
    injected,       \* injected[t]: active skills, with the bundle they came from
    licence,        \* licence[t]: the key RunSkillCommand looks at
    calls,          \* calls[t]: RunSkillCommand calls so far
    started,        \* history: the bundle t's command found when it started
    disturbed,      \* history: turns whose skill's directory was changed after
                    \* authorize had looked at it and before the start
    stopped,        \* turns whose ctx is done
    approvals,      \* history: keys a validation approved
    met,            \* history: skills two turns validated at the same time
    edits, faults, crashes

files == <<disk, records>>
node == <<catalog, todo, others, superseded, loaded, injected>>
tool == <<licence, calls, started, disturbed>>
history == <<approvals, met>>
budgets == <<edits, faults, crashes>>

vars == <<files, pc, node, tool, stopped, history, budgets>>

ApprovalSteps == {"invalidating", "staling", "loadingFresh", "loadingTrusted",
                  "validating", "savingApproval", "savingRejection",
                  "savingStale"}
CommandSteps == {"authorizing", "starting", "running"}
Steps == {"idle", "selecting", "next", "acting", "over"}
            \cup ApprovalSteps \cup CommandSteps

Init ==
    /\ disk = [s \in Names |-> [version |-> FirstVersion, scripts |-> {}]]
    /\ records = [k \in Keys |-> "none"]
    /\ pc = [t \in Turns |-> "idle"]
    /\ catalog = [t \in Turns |-> Nothing]
    /\ todo = [t \in Turns |-> <<>>]
    /\ others = [t \in Turns |-> {}]
    /\ superseded = [t \in Turns |-> Nothing]
    /\ loaded = [t \in Turns |-> Nothing]
    /\ injected = [t \in Turns |-> {}]
    /\ licence = [t \in Turns |-> Nothing]
    /\ calls = [t \in Turns |-> 0]
    /\ started = [t \in Turns |-> Nothing]
    /\ disturbed = {}
    /\ stopped = {}
    /\ approvals = {}
    /\ met = {}
    /\ edits = 0 /\ faults = 0 /\ crashes = 0

Goto(t, step) == pc' = [pc EXCEPT ![t] = step]

\* An access to the record files fails.
Fault == faults < MaxFaults /\ faults' = faults + 1

-----------------------------------------------------------------------------
(* activateSkills: list, select, then one skill after another              *)

\* Registry.ListSkills, with the hash of every skill's directory.
List(t) ==
    /\ pc[t] = "idle"
    /\ catalog' = [catalog EXCEPT ![t] = disk]
    /\ Goto(t, "selecting")
    /\ UNCHANGED <<files, todo, others, superseded, loaded, injected, tool,
                   stopped, history, budgets>>

\* selection.Select: any skills of the catalog, in any order, also twice; none
\* if the provider fails, as it does when the turn is stopped.
Select(t) ==
    /\ pc[t] = "selecting"
    /\ \E n \in 0..MaxSelected : \E chosen \in [1..n -> Names] :
        /\ t \in stopped => n = 0
        /\ todo' = [todo EXCEPT ![t] =
                        [i \in 1..n |-> <<chosen[i], catalog[t][chosen[i]]>>]]
    /\ catalog' = [catalog EXCEPT ![t] = Nothing]
    /\ Goto(t, "next")
    /\ UNCHANGED <<files, others, superseded, loaded, injected, tool, stopped,
                   history, budgets>>

\* The key ensureApproved works on: the hash is the one that was listed.
Wanted(t) == Head(todo[t])

Validating(s) == {t \in Turns : pc[t] \in ApprovalSteps /\ Wanted(t)[1] = s}

MutNoOthers(t) == {}

Temp(t) == <<t, Len(todo[t])>>

\* The directory entries InvalidateOthers goes through: the records of other
\* bundles, and files that are just being saved, of whichever bundle.
OtherFiles(t) ==
    {k \in Keys : k[1] = Wanted(t)[1] /\ k # Wanted(t) /\ records[k] # "none"}
        \cup {Temp(u) : u \in {v \in Validating(Wanted(t)[1]) :
                                    pc[v] = "savingApproval"}}

\* The next selected skill: InvalidateOthers reads the directory.
Begin(t) ==
    /\ pc[t] = "next"
    /\ todo[t] # <<>>
    /\ others' = [others EXCEPT ![t] = OtherFiles(t)]
    /\ met' = IF Validating(Wanted(t)[1]) # {} THEN met \cup {Wanted(t)[1]}
              ELSE met
    /\ Goto(t, "invalidating")
    /\ UNCHANGED <<files, catalog, todo, superseded, loaded, injected, tool,
                   stopped, approvals, budgets>>

\* No skill is left: the turn goes on with those that were activated.
NodeDone(t) ==
    /\ pc[t] = "next"
    /\ todo[t] = <<>>
    /\ Goto(t, "acting")
    /\ UNCHANGED <<files, node, tool, stopped, history, budgets>>

-----------------------------------------------------------------------------
(* ensureApproved                                                          *)

MutSupersedes(status) == status \in {"APPROVED", "REJECTED"}

Supersedes(status) == status = "APPROVED"

\* What a file says; one that was renamed away cannot be read.
Says(file) ==
    IF file \in Keys THEN records[file]
    ELSE IF \E u \in Turns : pc[u] = "savingApproval" /\ Temp(u) = file
         THEN "APPROVED" ELSE "none"

\* InvalidateOthers reads one file and goes on to rewrite it if APPROVED ...
InvalidateRead(t) ==
    /\ pc[t] = "invalidating"
    /\ \E k \in others[t] :
        /\ others' = [others EXCEPT ![t] = @ \ {k}]
        /\ IF Supersedes(Says(k))
           THEN superseded' = [superseded EXCEPT ![t] = k] /\ Goto(t, "staling")
           ELSE UNCHANGED <<superseded, pc>>
    /\ UNCHANGED <<files, catalog, todo, loaded, injected, tool, stopped,
                   history, budgets>>

\* ... or fails to read some of them: they are passed over.
InvalidateUnread(t) ==
    /\ pc[t] = "invalidating"
    /\ \E rest \in SUBSET others[t] :
        rest # others[t] /\ others' = [others EXCEPT ![t] = rest]
    /\ Fault
    /\ UNCHANGED <<files, pc, catalog, todo, superseded, loaded, injected, tool,
                   stopped, history, edits, crashes>>

\* The file is replaced by one that says STALE, whatever it says by now: a
\* record, or the file a Save is about to rename. An error is ignored.
InvalidateWrite(t) ==
    /\ pc[t] = "staling"
    /\ \/ /\ superseded[t] \in Keys
          /\ records' = [records EXCEPT ![superseded[t]] = "STALE"]
          /\ Goto(t, "invalidating")
          /\ UNCHANGED faults
       \/ /\ superseded[t] \notin Keys
          /\ pc' = [u \in Turns |->
                        CASE u = t -> "invalidating"
                          [] u # t /\ pc[u] = "savingApproval"
                                   /\ Temp(u) = superseded[t] -> "savingStale"
                          [] OTHER -> pc[u]]
          /\ UNCHANGED <<records, faults>>
       \/ Fault /\ Goto(t, "invalidating") /\ UNCHANGED records
    /\ superseded' = [superseded EXCEPT ![t] = Nothing]
    /\ UNCHANGED <<disk, catalog, todo, others, loaded, injected, tool, stopped,
                   history, edits, crashes>>

\* The skill is not activated, and the loop goes on.
Skip(t) ==
    /\ todo' = [todo EXCEPT ![t] = Tail(@)]
    /\ Goto(t, "next")

\* The skill is activated with bundle b.
Activate(t, b) ==
    /\ injected' = [injected EXCEPT ![t] = @ \cup {<<Wanted(t)[1], b>>}]
    /\ Skip(t)

Revalidates(status) == status \in {"none", "STALE"}

Trusts(status) == status = "APPROVED"

\* Store.Get: validate a skill without a usable record, load an approved one,
\* pass over a rejected one. An unreadable record is a rejected one.
Get(t) ==
    /\ pc[t] = "invalidating"
    /\ others[t] = {}
    /\ \/ /\ Revalidates(records[Wanted(t)])
          /\ Goto(t, "loadingFresh")
          /\ UNCHANGED <<todo, faults>>
       \/ /\ ~Revalidates(records[Wanted(t)])
          /\ Trusts(records[Wanted(t)])
          /\ Goto(t, "loadingTrusted")
          /\ UNCHANGED <<todo, faults>>
       \/ /\ ~Revalidates(records[Wanted(t)])
          /\ ~Trusts(records[Wanted(t)])
          /\ Skip(t)
          /\ UNCHANGED faults
       \/ Fault /\ Skip(t)
    /\ UNCHANGED <<files, catalog, others, superseded, loaded, injected, tool,
                   stopped, history, edits, crashes>>

MutAnyContent(t) == TRUE

\* LoadSkillBundle compares what it loaded with the hash that was listed.
SameContent(t) == disk[Wanted(t)[1]] = Wanted(t)[2]

\* An approved skill is loaded and activated.
LoadTrusted(t) ==
    /\ pc[t] = "loadingTrusted"
    /\ IF SameContent(t)
       THEN Activate(t, disk[Wanted(t)[1]])
       ELSE Skip(t) /\ UNCHANGED injected
    /\ UNCHANGED <<files, catalog, others, superseded, loaded, tool, stopped,
                   history, budgets>>

\* A skill without a verdict is loaded to be validated.
LoadFresh(t) ==
    /\ pc[t] = "loadingFresh"
    /\ IF SameContent(t)
       THEN /\ loaded' = [loaded EXCEPT ![t] = disk[Wanted(t)[1]]]
            /\ Goto(t, "validating")
            /\ UNCHANGED todo
       ELSE Skip(t) /\ UNCHANGED loaded
    /\ UNCHANGED <<files, catalog, others, superseded, injected, tool, stopped,
                   history, budgets>>

\* Validate: the structural and static checks and the provider decide. A stop,
\* a failed provider call and an unreadable answer are rejections. Save then
\* writes the record to a temporary file in the directory of the records.
Validate(t) ==
    /\ pc[t] = "validating"
    /\ \/ /\ t \notin stopped
          /\ approvals' = approvals \cup {<<Wanted(t)[1], loaded[t]>>}
          /\ Goto(t, "savingApproval")
       \/ Goto(t, "savingRejection") /\ UNCHANGED approvals
    /\ UNCHANGED <<files, node, tool, stopped, met, budgets>>

SavedStatus == [savingApproval |-> "APPROVED", savingRejection |-> "REJECTED",
                savingStale |-> "STALE"]

\* Save renames the file or fails, which is ignored, and ensureApproved ends.
SaveVerdict(t) ==
    /\ pc[t] \in DOMAIN SavedStatus
    /\ \/ /\ records' = [records EXCEPT ![<<Wanted(t)[1], loaded[t]>>] =
                                             SavedStatus[pc[t]]]
          /\ UNCHANGED faults
       \/ Fault /\ UNCHANGED records
    /\ IF pc[t] = "savingRejection" THEN Skip(t) /\ UNCHANGED injected
       ELSE Activate(t, loaded[t])
    /\ loaded' = [loaded EXCEPT ![t] = Nothing]
    /\ UNCHANGED <<disk, catalog, others, superseded, tool, stopped, history,
                   edits, crashes>>

-----------------------------------------------------------------------------
(* RunSkillCommand                                                         *)

\* activeThisTurn
ActiveThisTurn(t, s) == \E k \in injected[t] : k[1] = s

\* The model asks for a command; authorize finds the bundle as it is now.
Call(t) ==
    /\ pc[t] = "acting"
    /\ calls[t] < MaxCalls
    /\ \E s \in Names :
        /\ ActiveThisTurn(t, s)
        /\ licence' = [licence EXCEPT ![t] = <<s, disk[s]>>]
    /\ calls' = [calls EXCEPT ![t] = @ + 1]
    /\ Goto(t, "authorizing")
    /\ UNCHANGED <<files, node, started, disturbed, stopped, history, budgets>>

MutLicensed(status) == status # "REJECTED"

Licensed(status) == status = "APPROVED"

\* The record of that bundle must be APPROVED, and readable.
Authorize(t) ==
    /\ pc[t] = "authorizing"
    /\ \/ /\ Licensed(records[licence[t]])
          /\ Goto(t, "starting")
          /\ UNCHANGED <<licence, disturbed, faults>>
       \/ /\ \/ ~Licensed(records[licence[t]]) /\ UNCHANGED faults
             \/ Fault
          /\ licence' = [licence EXCEPT ![t] = Nothing]
          /\ disturbed' = disturbed \ {t}
          /\ Goto(t, "acting")
    /\ UNCHANGED <<files, node, calls, started, stopped, history, edits,
                   crashes>>

\* Turns whose command for skill s has not started yet.
Awaiting(s) ==
    {t \in Turns : pc[t] \in {"authorizing", "starting"} /\ licence[t][1] = s}

Script(t) == <<t, calls[t]>>

\* buildRunSpec and run: a script is written into the skill's directory, an
\* argv (runtime "process") needs none. Nothing looks at the bundle again.
Start(t) ==
    /\ pc[t] = "starting"
    /\ LET s == licence[t][1] IN
         /\ \/ /\ disk' = [disk EXCEPT ![s].scripts = @ \cup {Script(t)}]
               /\ disturbed' = disturbed \cup (Awaiting(s) \ {t})
            \/ UNCHANGED <<disk, disturbed>>
         /\ started' = [started EXCEPT ![t] = disk[s]]
    /\ Goto(t, "running")
    /\ UNCHANGED <<records, node, licence, calls, stopped, history, budgets>>

\* The command ends, fails to start or is killed; its script is removed.
Finish(t) ==
    /\ pc[t] = "running"
    /\ LET s == licence[t][1] IN
         /\ disk' = [disk EXCEPT ![s].scripts = @ \ {Script(t)}]
         /\ disturbed' = (disturbed \ {t}) \cup
                 (IF Script(t) \in disk[s].scripts THEN Awaiting(s) ELSE {})
    /\ licence' = [licence EXCEPT ![t] = Nothing]
    /\ started' = [started EXCEPT ![t] = Nothing]
    /\ Goto(t, "acting")
    /\ UNCHANGED <<records, node, calls, stopped, history, budgets>>

EndTurn(t) ==
    /\ pc[t] = "acting"
    /\ Goto(t, "over")
    /\ injected' = [injected EXCEPT ![t] = {}]
    /\ UNCHANGED <<files, catalog, todo, others, superseded, loaded, tool,
                   stopped, history, budgets>>

-----------------------------------------------------------------------------
(* The environment                                                         *)

\* The user of a turn cancels it, or goes away, while its skills node runs; a
\* later stop changes nothing here.
Stop(t) ==
    /\ pc[t] \notin {"idle", "acting", "over"} \cup CommandSteps
    /\ t \notin stopped
    /\ stopped' = stopped \cup {t}
    /\ UNCHANGED <<files, pc, node, tool, history, budgets>>

\* The owner of a skill changes it.
Edit(s) ==
    /\ edits < MaxEdits
    /\ \E v \in Versions \ {disk[s].version} :
        disk' = [disk EXCEPT ![s].version = v]
    /\ disturbed' = disturbed \cup Awaiting(s)
    /\ edits' = edits + 1
    /\ UNCHANGED <<records, pc, node, licence, calls, started, stopped, history,
                   faults, crashes>>

\* The process dies: what is on disk stays, scripts of running commands too.
Crash ==
    /\ crashes < MaxCrashes
    /\ crashes' = crashes + 1
    /\ pc' = [t \in Turns |-> IF pc[t] = "idle" THEN "idle" ELSE "over"]
    /\ catalog' = [t \in Turns |-> Nothing]
    /\ todo' = [t \in Turns |-> <<>>]
    /\ others' = [t \in Turns |-> {}]
    /\ superseded' = [t \in Turns |-> Nothing]
    /\ loaded' = [t \in Turns |-> Nothing]
    /\ injected' = [t \in Turns |-> {}]
    /\ licence' = [t \in Turns |-> Nothing]
    /\ started' = [t \in Turns |-> Nothing]
    /\ disturbed' = {}
    /\ UNCHANGED <<files, calls, stopped, history, edits, faults>>

Quiet == (\A t \in Turns : pc[t] = "over") /\ UNCHANGED vars

NodeStep(t) == \/ List(t) \/ Select(t) \/ Begin(t) \/ NodeDone(t)
               \/ InvalidateRead(t) \/ InvalidateUnread(t) \/ InvalidateWrite(t)
               \/ Get(t) \/ LoadTrusted(t) \/ LoadFresh(t) \/ Validate(t)
               \/ SaveVerdict(t)

ToolStep(t) == Call(t) \/ Authorize(t) \/ Start(t) \/ Finish(t) \/ EndTurn(t)

Next ==
    \/ \E t \in Turns : NodeStep(t) \/ ToolStep(t) \/ Stop(t)
    \/ \E s \in Names : Edit(s)
    \/ Crash
    \/ Quiet

Spec == Init /\ [][Next]_vars

-----------------------------------------------------------------------------
(* Properties                                                              *)

\* Variables have the shapes of the code's values, and each turn holds exactly
\* what its place in ensureApproved and RunSkillCommand needs.
TypeOK ==
    /\ disk \in [Names -> Bundles]
    /\ records \in [Keys -> Statuses]
    /\ pc \in [Turns -> Steps]
    /\ catalog \in [Turns -> [Names -> Bundles] \cup {Nothing}]
    /\ todo \in [Turns -> Seq(Keys)]
    /\ others \in [Turns -> SUBSET (Keys \cup Temps)]
    /\ superseded \in [Turns -> Keys \cup Temps \cup {Nothing}]
    /\ loaded \in [Turns -> Bundles \cup {Nothing}]
    /\ injected \in [Turns -> SUBSET Keys]
    /\ licence \in [Turns -> Keys \cup {Nothing}]
    /\ calls \in [Turns -> 0..MaxCalls]
    /\ started \in [Turns -> Bundles \cup {Nothing}]
    /\ disturbed \subseteq Turns
    /\ stopped \subseteq Turns
    /\ approvals \subseteq Keys
    /\ met \subseteq Names
    /\ edits \in 0..MaxEdits /\ faults \in 0..MaxFaults
    /\ crashes \in 0..MaxCrashes
    /\ \A t \in Turns :
        /\ pc[t] = "selecting" => catalog[t] # Nothing
        /\ pc[t] \in ApprovalSteps => todo[t] # <<>>
        /\ pc[t] = "staling" => superseded[t] # Nothing
        /\ pc[t] \in {"validating"} \cup DOMAIN SavedStatus =>
                loaded[t] # Nothing
        /\ pc[t] \in CommandSteps => licence[t] # Nothing /\ calls[t] > 0

\* Instructions in a turn's prompt come from a bundle whose very content a
\* validation approved, though the directory may change between the listing,
\* the look-up, the load and the verdict, and other turns rewrite the records
\* (activateSkills, ensureApproved, LoadSkillBundle).
InstructionsWereApproved == \A t \in Turns : injected[t] \subseteq approvals

\* The files a command finds when it starts are a bundle of its skill that a
\* validation approved, whatever other turns do to the records after their
\* verdicts - unless the owner or the script of another command changed the
\* directory between authorize's look at it and the start: the code does not
\* look again (Execute, authorize, run). It may be another bundle than the one
\* whose instructions the turn follows.
CommandsWereApproved ==
    \A t \in Turns : pc[t] = "running" /\ t \notin disturbed =>
        <<licence[t][1], started[t]>> \in approvals

\* A record says APPROVED or STALE only about content that was approved once:
\* neither a cancelled or rejected validation nor the marking of superseded
\* records makes an approval (Validate, Save, InvalidateOthers).
ApprovalsHaveVerdicts ==
    \A k \in Keys : records[k] \in {"APPROVED", "STALE"} => k \in approvals

\* After edits, crashes and re-validations at most one bundle of a skill is
\* approved at a time, so that a superseded one is validated anew when it comes
\* back (InvalidateOthers) - unless a record could not be accessed or two turns
\* validated the skill at the same time.
OneBundleApproved ==
    \A s \in Names : faults = 0 /\ s \notin met =>
        Cardinality({b \in Bundles : records[<<s, b>>] = "APPROVED"}) <= 1

=============================================================================
