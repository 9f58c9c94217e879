--------------------------- MODULE CandidateSource ---------------------------
(***************************************************************************)
(* How a proposal becomes a commit, an image and the head of the default   *)
(* branch, command by command: EngineeringService.implement over git and   *)
(* the Codex command line, gates and image build in the worktree, source   *)
(* promotion and rollback, and the cleanup of worktree and branch.         *)
(*                                                                         *)
(* IterationWorkflow and PostPromotionSoak take each of these for one      *)
(* action, and nobody else for part of them.  Here others act between two  *)
(* commands.  A Codex turn that is given up leaves processes that go on    *)
(* writing: the client ends the process it started, not what that one      *)
(* started, and when the control plane dies nobody ends either.  People    *)
(* work in the checkout of the default branch.  And the process, or the    *)
(* machine, may stop at any command; DBOS then runs the step again.        *)
(*                                                                         *)
(* A file is abstracted to who wrote it and whether the proposal allows    *)
(* its path, a tree to the set of its differences to the baseline.         *)
(***************************************************************************)
EXTENDS Naturals, Sequences, FiniteSets

CONSTANTS
    Attempts,      \* max_implementation_attempts of the proposal
    Tries,         \* max_attempts of the steps that compensate
    MaxWrites,     \* bound: files that turns change
    MaxEdits,      \* bound: how often people begin to change something
    MaxCrashes     \* bound: restarts

ASSUME CandidateSourceAssumption ==
    /\ Attempts \in Nat \ {0} /\ Tries \in Nat \ {0}
    /\ MaxWrites \in Nat /\ MaxEdits \in Nat /\ MaxCrashes \in Nat

VARIABLES
    main,       \* checkout of the default branch: [log, dirty], its commits since the baseline
    branch,     \* autodev/<cycle>: [exists, log]
    tree,       \* the worktree: [dir, reg, files, index]
    image,      \* the tagged image: [files, label], or NoImage
    journal,    \* thread journal of the Codex client: attempt -> thread, or 0
    started,    \* Codex threads so far
    child,      \* thread of the turn the client waits for, or 0
    strays,     \* threads of turns that were given up and may still write
    flow,       \* what DBOS has recorded: [at, candidate, result]
    step,       \* the step under way, lost in a crash: [at, attempt, tries]
    unchecked,  \* writes that came after the paths were checked and before git add
    late,       \* writes that came after the candidate was read back
    raced,      \* people have worked since the rollback last looked
    budget      \* [writes, edits, crashes] so far

git == <<main, branch, tree>>
codex == <<journal, started, child, strays>>
history == <<unchecked, late, raced>>  \* not in the code
vars == <<git, image, codex, flow, step, history, budget>>

----------------------------------------------------------------------------
\* An attempt opens at most one thread in each life of the process.
Threads == 1 .. Attempts * (MaxCrashes + 1)

\* Thread 0 stands for no turn: what a gate leaves, and what a checkout has not yet written.
Writes == [thread : Threads \cup {0}, allowed : BOOLEAN]
Output == [thread |-> 0, allowed |-> TRUE]
Missing == [thread |-> 0, allowed |-> FALSE]

\* A commit is known by its tree and its Autodev-Codex-Thread trailer; people set none.
Commits == [files : SUBSET Writes, thread : Threads \cup {0}]
Theirs == [files |-> {}, thread |-> 0]

NoCandidate == [files |-> {}, thread |-> 0, attempt |-> 0]
NoImage == [files |-> {}, label |-> {}]
NoTree == [dir |-> FALSE, reg |-> "no", files |-> {}, index |-> {}]

Fresh == [at |-> "begun", attempt |-> 1, tries |-> 1]

Tip(log) == log[Len(log)]
TipFiles == IF branch.log = <<>> THEN {} ELSE Tip(branch.log).files

\* changed_paths: worktree and index against HEAD; nothing is ever written back.
Changed == (tree.files \cup tree.index) \ TipFiles

\* What validate_changed_paths lets pass, but for max_changed_files: files are not counted, so
\* that it refuses any number of them is a choice where it is called.
Authorized(writes) == writes # {} /\ \A w \in writes : w.allowed

\* The commit as recover_candidate describes it, and as DBOS records it.
Candidate == [files |-> flow.candidate.files, thread |-> flow.candidate.thread]
Recorded == flow.candidate # NoCandidate

At(stage, place) == flow.at = stage /\ step.at = place
Goto(place) == step' = [step EXCEPT !.at = place] /\ UNCHANGED flow
Enter(stage) == flow' = [flow EXCEPT !.at = stage] /\ step' = Fresh

\* A step that raises: cleanup, then the cycle has failed.
Fails ==
    /\ flow' = [flow EXCEPT !.at = "cleanup", !.result = "failed"]
    /\ step' = Fresh

Init ==
    /\ main = [log |-> <<>>, dirty |-> FALSE]
    /\ branch = [exists |-> FALSE, log |-> <<>>]
    /\ tree = NoTree /\ image = NoImage
    /\ journal = [a \in 1 .. Attempts |-> 0]
    /\ started = 0 /\ child = 0 /\ strays = {}
    /\ flow = [at |-> "implement", candidate |-> NoCandidate, result |-> "none"]
    /\ step = Fresh
    /\ unchecked = {} /\ late = {} /\ raced = FALSE
    /\ budget = [writes |-> 0, edits |-> 0, crashes |-> 0]

----------------------------------------------------------------------------
\* implement: baseline and worktree.

VerifyBaseline ==
    /\ At("implement", "begun")
    /\ IF ~main.dirty /\ main.log = <<>> THEN Goto("worktree") ELSE Fails
    /\ UNCHANGED <<git, image, codex, history, budget>>

\* create_worktree takes the directory that is there, whatever state git left it in.
FindWorktree ==
    /\ At("implement", "worktree")
    /\ Goto(IF tree.dir THEN "recover" ELSE "adding")
    /\ UNCHANGED <<git, image, codex, history, budget>>

\* git worktree add: the branch, the registration under a lock, the files.
AddBranch ==
    /\ At("implement", "adding")
    /\ branch' = [branch EXCEPT !.exists = TRUE]
    /\ Goto("branched")
    /\ UNCHANGED <<main, tree, image, codex, history, budget>>

AddRegistration ==
    /\ At("implement", "branched")
    /\ tree' = [dir |-> TRUE, reg |-> "locked", files |-> {Missing}, index |-> {Missing}]
    /\ Goto("registered")
    /\ UNCHANGED <<main, branch, image, codex, history, budget>>

AddFiles ==
    /\ At("implement", "registered")
    /\ tree' = [dir |-> TRUE, reg |-> "yes", files |-> TipFiles, index |-> TipFiles]
    /\ Goto("recover")
    /\ UNCHANGED <<main, branch, image, codex, history, budget>>

----------------------------------------------------------------------------
\* implement: the commit of an earlier try, or a turn of the Codex command line.

CandidateReady ==
    /\ flow' = [flow EXCEPT !.at = "verify",
                            !.candidate = [files   |-> Tip(branch.log).files,
                                           thread  |-> Tip(branch.log).thread,
                                           attempt |-> step.attempt]]
    /\ step' = Fresh

\* Faulty variant: a recovered candidate is taken as it is.
RecoverUnchecked ==
    /\ At("implement", "recover")
    /\ IF Changed # {} \/ branch.log = <<>> THEN Goto("turn") /\ UNCHANGED unchecked
       ELSE /\ unchecked' = {}
            /\ IF Len(branch.log) = 1 THEN CandidateReady ELSE Fails
    /\ UNCHANGED <<git, image, codex, late, raced, budget>>

\* recover_candidate and _recovered_attempt.
Recover ==
    /\ At("implement", "recover")
    /\ IF Changed # {} \/ branch.log = <<>> THEN Goto("turn") /\ UNCHANGED unchecked
       ELSE /\ unchecked' = {}
            /\ \/ /\ Len(branch.log) = 1 /\ Authorized(Tip(branch.log).files)
                  /\ CandidateReady
               \/ Fails
    /\ UNCHANGED <<git, image, codex, late, raced, budget>>

\* run_turn: the journaled thread is resumed, or a new one begun.
StartTurn ==
    /\ At("implement", "turn") /\ child = 0
    /\ IF journal[step.attempt] # 0
       THEN child' = journal[step.attempt] /\ UNCHANGED started
       ELSE child' = started + 1 /\ started' = started + 1
    /\ UNCHANGED <<git, image, journal, strays, flow, step, history, budget>>

\* Faulty variant: one attempt more than the proposal has.
OneAttemptMore ==
    IF step.attempt <= Attempts
    THEN step' = [Fresh EXCEPT !.attempt = step.attempt + 1] /\ UNCHANGED flow
    ELSE Fails

\* A CodexProviderError: the next attempt, from the beginning, in the same worktree.
NextAttempt ==
    IF step.attempt < Attempts
    THEN step' = [Fresh EXCEPT !.attempt = step.attempt + 1] /\ UNCHANGED flow
    ELSE Fails

\* The thread is journaled from the output of a process that has exited with 0.
Journaled == [journal EXCEPT ![step.attempt] = child]

TurnCompletes ==
    /\ At("implement", "turn") /\ child # 0
    /\ journal' = Journaled /\ child' = 0
    /\ Goto("check")
    /\ UNCHANGED <<git, image, started, strays, history, budget>>

\* An exit with 0 and no turn.completed, or with an error, or a timeout.
TurnFails ==
    /\ At("implement", "turn") /\ child # 0
    /\ \/ journal' = Journaled /\ UNCHANGED strays
       \/ journal' = journal /\ strays' \in {strays, strays \cup {child}}
    /\ child' = 0
    /\ NextAttempt
    /\ UNCHANGED <<git, image, started, history, budget>>

----------------------------------------------------------------------------
\* implement: the commit.

CheckPaths ==
    /\ At("implement", "check")
    /\ \/ Authorized(Changed) /\ Goto("stage")
       \/ Fails
    /\ unchecked' = {}
    /\ UNCHANGED <<git, image, codex, late, raced, budget>>

\* commit_candidate: git add --all, of what is there by now.  What was changed when it was
\* checked still is, so recover_candidate finds nothing here.
Stage ==
    /\ At("implement", "stage")
    /\ tree' = [tree EXCEPT !.index = tree.files]
    /\ Goto("commit")
    /\ UNCHANGED <<main, branch, image, codex, history, budget>>

Commit ==
    /\ At("implement", "commit")
    /\ branch' = [branch EXCEPT !.log =
                    Append(@, [files |-> tree.index, thread |-> journal[step.attempt]])]
    /\ Goto("confirm")
    /\ UNCHANGED <<main, tree, image, codex, history, budget>>

\* Faulty variant: the worktree is not looked at again after the commit.
ConfirmByLog ==
    /\ At("implement", "confirm")
    /\ IF Len(branch.log) = 1 THEN CandidateReady ELSE Fails
    /\ UNCHANGED <<git, image, codex, history, budget>>

\* Faulty variant: the commits of the branch are not counted.
ConfirmUncounted ==
    /\ At("implement", "confirm")
    /\ IF Changed = {} THEN CandidateReady ELSE Fails
    /\ UNCHANGED <<git, image, codex, history, budget>>

\* The commit is read back: nothing else changed, and one commit.
Confirm ==
    /\ At("implement", "confirm")
    /\ IF Changed = {} /\ Len(branch.log) = 1 THEN CandidateReady ELSE Fails
    /\ UNCHANGED <<git, image, codex, history, budget>>

----------------------------------------------------------------------------
\* Gates, image build and canary, over the files the worktree then has.

\* The gates run in the worktree, where they may leave files behind.
Verify ==
    /\ At("verify", "begun")
    /\ \/ tree' = tree /\ late' = late
       \/ /\ tree' = [tree EXCEPT !.files = @ \cup {Output}]
          /\ late' = late \cup {Output}
    /\ Enter("build") \/ Fails
    /\ UNCHANGED <<main, branch, image, codex, unchecked, raced, budget>>

\* docker build of the worktree, labelled with the candidate's tree; an image that has the
\* tag of this candidate already is taken for it.
BuildImage ==
    /\ At("build", "begun")
    /\ image' = IF image # NoImage THEN image
                ELSE [files |-> tree.files, label |-> flow.candidate.files]
    /\ Goto("built")
    /\ UNCHANGED <<git, codex, history, budget>>

\* The supply chain scan passes or rejects the image.
ScanImage ==
    /\ At("build", "built")
    /\ Enter("canary") \/ Fails
    /\ UNCHANGED <<git, image, codex, history, budget>>

\* Deployment, performance gate, canary stages: IterationWorkflow's.
Canary ==
    /\ At("canary", "begun")
    /\ Enter("promote") \/ Fails
    /\ UNCHANGED <<git, image, codex, history, budget>>

----------------------------------------------------------------------------
\* Source promotion: promote_candidate.

\* Faulty variant: a promotion that fails is given up like any stage before it.
PromotionForgotten == Fails

PromotionFails ==
    /\ flow' = [flow EXCEPT !.at = "rollback", !.result = "failed"]
    /\ step' = Fresh

CheckPromotion ==
    /\ At("promote", "begun")
    /\ IF main.dirty THEN PromotionFails
       ELSE IF main.log = <<>> THEN Goto("merge")
       ELSE IF Tip(main.log) = Candidate THEN Goto("merged")
       ELSE PromotionFails
    /\ UNCHANGED <<git, image, codex, history, budget>>

\* git merge --ff-only, which may stop at what people have changed since.
Merge ==
    /\ At("promote", "merge")
    /\ \/ /\ main.log = <<>>
          /\ main' = [main EXCEPT !.log = <<Candidate>>]
          /\ Goto("merged")
       \/ /\ main.log # <<>> \/ main.dirty
          /\ PromotionFails
          /\ UNCHANGED main
    /\ UNCHANGED <<branch, tree, image, codex, history, budget>>

\* _promoted_commit.
ConfirmPromotion ==
    /\ At("promote", "merged")
    /\ IF Tip(main.log) = Candidate THEN Enter("live") ELSE PromotionFails
    /\ UNCHANGED <<git, image, codex, history, budget>>

\* The release is finalized and soaks: it stays, it is withdrawn, or finalizing it fails.
Live ==
    /\ At("live", "begun")
    /\ \/ flow' = [flow EXCEPT !.at = "cleanup", !.result = "kept"]
       \/ flow' = [flow EXCEPT !.at = "rollback", !.result = "withdrawn"]
       \/ flow' = [flow EXCEPT !.at = "rollback", !.result = "failed"]
    /\ step' = Fresh
    /\ UNCHANGED <<git, image, codex, history, budget>>

----------------------------------------------------------------------------
\* Compensation: restore_baseline, then cleanup_cycle, in one step that is tried again.

\* Faulty variant: the tries are not counted.
RaisesUncounted == step' = [Fresh EXCEPT !.tries = step.tries] /\ UNCHANGED flow

\* The steps of IterationWorkflow are retried, those of the soak are not.
Raises ==
    IF step.tries < (IF flow.result = "failed" THEN Tries ELSE 1)
    THEN step' = [Fresh EXCEPT !.tries = step.tries + 1] /\ UNCHANGED flow
    ELSE Enter("error")

\* Faulty variant: one commit since the baseline is taken for the candidate.
CheckCountOnly ==
    /\ At("rollback", "begun")
    /\ raced' = FALSE
    /\ IF main.dirty THEN Raises
       ELSE IF main.log = <<>> THEN Goto("restored")
       ELSE IF Len(main.log) = 1 THEN Goto("reset")
       ELSE Raises
    /\ UNCHANGED <<git, image, codex, unchecked, late, budget>>

\* Clean, and one commit at most, which has the trailer of a candidate.
CheckRollback ==
    /\ At("rollback", "begun")
    /\ raced' = FALSE
    /\ IF main.dirty THEN Raises
       ELSE IF main.log = <<>> THEN Goto("restored")
       ELSE IF Len(main.log) = 1 /\ Tip(main.log).thread # 0 THEN Goto("reset")
       ELSE Raises
    /\ UNCHANGED <<git, image, codex, unchecked, late, budget>>

\* git reset --hard.
Reset ==
    /\ At("rollback", "reset")
    /\ main' = [log |-> <<>>, dirty |-> FALSE]
    /\ Goto("confirm")
    /\ UNCHANGED <<branch, tree, image, codex, history, budget>>

ConfirmRollback ==
    /\ At("rollback", "confirm")
    /\ IF ~main.dirty /\ main.log = <<>> THEN Goto("restored") ELSE Raises
    /\ UNCHANGED <<git, image, codex, history, budget>>

Cleaning == At("cleanup", "begun") \/ At("rollback", "restored")

\* git worktree remove, which refuses a locked worktree; what it leaves of the directory of
\* one that is no longer registered is removed as far as that goes.
RemoveWorktree ==
    /\ Cleaning
    /\ IF tree.dir /\ tree.reg = "locked" THEN Raises /\ UNCHANGED tree
       ELSE /\ tree' \in {NoTree} \cup
                  (IF tree.dir THEN {[tree EXCEPT !.reg = "no", !.index = {}]} ELSE {})
            /\ Goto("removed")
    /\ UNCHANGED <<main, branch, image, codex, history, budget>>

\* git branch -D, if it is there.
DeleteBranch ==
    /\ At("cleanup", "removed") \/ At("rollback", "removed")
    /\ branch' = [exists |-> FALSE, log |-> <<>>]
    /\ Enter("ended")
    /\ UNCHANGED <<main, tree, image, codex, history, budget>>

----------------------------------------------------------------------------
\* Everybody else.

\* A turn, or what is left of one, changes one more file.  After the build nobody reads the
\* worktree any more.  Nothing obliges a process left behind to write, so its end is no step.
Write ==
    \E t \in (strays \cup {child}) \ {0}, allowed \in BOOLEAN :
        LET w == [thread |-> t, allowed |-> allowed]
        IN  /\ flow.at \in {"implement", "verify", "build"}
            /\ tree.dir /\ w \notin tree.files
            /\ budget.writes < MaxWrites
            /\ tree' = [tree EXCEPT !.files = @ \cup {w}]
            /\ unchecked' = IF At("implement", "stage") THEN unchecked \cup {w}
                            ELSE unchecked
            /\ late' = IF Recorded THEN late \cup {w} ELSE late
            /\ budget' = [budget EXCEPT !.writes = @ + 1]
            /\ UNCHANGED <<main, branch, image, codex, flow, step, raced>>

\* Somebody works in the checkout of the default branch.
PersonEdits ==
    /\ budget.edits < MaxEdits /\ ~main.dirty
    /\ main' = [main EXCEPT !.dirty = TRUE]
    /\ raced' = TRUE
    /\ budget' = [budget EXCEPT !.edits = @ + 1]
    /\ UNCHANGED <<branch, tree, image, codex, flow, step, unchecked, late>>

PersonCommits ==
    /\ main.dirty
    /\ main' = [log |-> Append(main.log, Theirs), dirty |-> FALSE]
    /\ raced' = TRUE
    /\ UNCHANGED <<branch, tree, image, codex, flow, step, unchecked, late, budget>>

\* The process stops; DBOS runs the step again.  The turn under way may survive it.
Crash ==
    /\ budget.crashes < MaxCrashes
    /\ flow.at \notin {"ended", "error"}
    /\ budget' = [budget EXCEPT !.crashes = @ + 1]
    /\ step' = Fresh
    /\ child' = 0
    /\ strays' \in {strays, strays \cup ({child} \ {0})}
    /\ UNCHANGED <<git, image, journal, started, flow, history>>

----------------------------------------------------------------------------
Implement ==
    \/ VerifyBaseline \/ FindWorktree \/ AddBranch \/ AddRegistration \/ AddFiles
    \/ Recover \/ StartTurn \/ TurnCompletes \/ TurnFails
    \/ CheckPaths \/ Stage \/ Commit \/ Confirm

Release ==
    \/ Verify \/ BuildImage \/ ScanImage \/ Canary
    \/ CheckPromotion \/ Merge \/ ConfirmPromotion \/ Live

Compensate ==
    \/ CheckRollback \/ Reset \/ ConfirmRollback \/ RemoveWorktree \/ DeleteBranch

Others == Write \/ PersonEdits \/ PersonCommits \/ Crash

Next == Implement \/ Release \/ Compensate \/ Others

\* DBOS goes on with what it has begun, and the client waits for a turn only so long; the
\* others owe the run nothing.
Fairness == WF_vars(Implement) /\ WF_vars(Release) /\ WF_vars(Compensate)

Spec == Init /\ [][Next]_vars /\ Fairness

----------------------------------------------------------------------------
\* The worktree as git knows it, what DBOS has recorded, and the step under way.
Trees == [dir : BOOLEAN, reg : {"no", "locked", "yes"},
          files : SUBSET Writes, index : SUBSET Writes]

Ats == {"implement", "verify", "build", "canary", "promote", "live", "rollback", "cleanup",
        "ended", "error"}

Results == {"none", "failed", "kept", "withdrawn"}

Recordings == [files : SUBSET Writes, thread : Threads \cup {0}, attempt : 0 .. Attempts]

Flows == [at : Ats, candidate : Recordings, result : Results]

Places == {"begun", "worktree", "adding", "branched", "registered", "recover", "turn", "check",
           "stage", "commit", "confirm", "built", "merge", "merged", "reset", "restored",
           "removed"}

Steps == [at : Places, attempt : 1 .. Attempts, tries : 1 .. Tries]

\* The shape of the state: git's three places, the client's threads, the recorded result and
\* the step of the workflow, each within its bounds.
TypeOK ==
    /\ main \in [log : Seq(Commits), dirty : BOOLEAN]
    /\ branch \in [exists : BOOLEAN, log : Seq(Commits)]
    /\ tree \in Trees
    /\ image \in [files : SUBSET Writes, label : SUBSET Writes]
    /\ journal \in [1 .. Attempts -> Threads \cup {0}]
    /\ started \in Threads \cup {0} /\ child \in 0 .. started /\ strays \subseteq 1 .. started
    /\ flow \in Flows /\ step \in Steps
    /\ unchecked \subseteq Writes /\ late \subseteq Writes /\ raced \in BOOLEAN
    /\ budget \in [writes : 0 .. MaxWrites, edits : 0 .. MaxEdits, crashes : 0 .. MaxCrashes]

\* While its branch is there, the recorded candidate is the one commit on it, however many
\* attempts, crashes and abandoned turns it took: what recover_candidate reads back is what
\* gates, build and promotion then go by.
OneCandidateCommit ==
    Recorded /\ branch.exists => branch.log = <<Candidate>>

\* What the proposal does not allow is in a candidate only if it was written between the
\* check of the paths and git add: neither a later attempt in the same worktree nor the
\* recovery of a commit takes over anything unchecked.
ScopeIsEnforced ==
    Recorded => \A w \in flow.candidate.files : w.allowed \/ w \in unchecked

\* The image, which is built from the worktree, holds the candidate it is labelled with, and
\* beyond it nothing but what was written after the commit was read back.
ImageIsTheCandidate ==
    image # NoImage =>
        /\ image.label = flow.candidate.files
        /\ image.label \subseteq image.files
        /\ image.files \ image.label \subseteq late

Work(m) ==
    Cardinality({i \in DOMAIN m.log : m.log[i] = Theirs}) + (IF m.dirty THEN 1 ELSE 0)

\* Promotion and rollback take nothing that people did in the checkout, committed or not,
\* unless they did it while the rollback was between its check and its reset.
PeopleKeepTheirWork == [][Work(main') < Work(main) => raced]_vars

\* When the run has ended, the candidate is on the default branch if the release was kept,
\* and is not there if it failed or was withdrawn.
MainTellsTheOutcome ==
    flow.at = "ended" =>
        (flow.result = "kept" <=> Recorded /\ \E i \in DOMAIN main.log : main.log[i] = Candidate)

\* Whatever fails, is abandoned or gets in between, the run comes to its end, or stops with
\* an error that is reported.
EveryRunEnds == <>(flow.at \in {"ended", "error"})

=============================================================================
