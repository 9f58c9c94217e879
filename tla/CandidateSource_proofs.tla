------------------------ MODULE CandidateSource_proofs ------------------------
(***************************************************************************)
(* The candidate for any numbers of attempts, tries, writes, edits and     *)
(* restarts: one commit within its scope, in the image that bears its      *)
(* name, on the default branch exactly when the release was kept, and      *)
(* nothing of anybody else's work taken by the way back.  The invariant    *)
(* follows the files from the worktree to the commit, the commit from the  *)
(* branch to the default branch, and the threads whose turns write them.   *)
(***************************************************************************)
EXTENDS CandidateSource, FiniteSetTheorems, TLAPS

Releasing == {"verify", "build", "canary", "promote", "live"}
Writing == {"implement", "verify", "build"}
InTree == {"recover", "turn", "check", "stage", "commit", "confirm"}

\* Allowed, or written when the paths were already checked.
Excused(w) == w.allowed \/ w \in unchecked

OnMain == Recorded /\ \E i \in DOMAIN main.log : main.log[i] = Candidate

\* What is known of the candidate and of the image as the run goes on.
StagesFollow ==
    /\ flow.at = "implement" => ~Recorded
    /\ flow.at \in Releasing => Recorded
    /\ flow.at \in {"implement", "verify"} => image = NoImage

\* A thread is begun once per attempt and life of the process, and known when it is committed.
ThreadsAreCounted ==
    /\ \A a \in 1 .. Attempts : journal[a] <= started
    /\ child # 0 => flow.at = "implement" /\ step.at = "turn"
    /\ started <= Attempts * budget.crashes + Attempts
    /\ flow.at = "implement" => started <= Attempts * budget.crashes + step.attempt
    /\ flow.at = "implement"
         /\ step.at \in {"begun", "worktree", "adding", "branched", "registered", "recover", "turn"}
         /\ child = 0
         => started < Attempts * budget.crashes + step.attempt

ThreadsAreNamed ==
    /\ \A i \in DOMAIN branch.log : branch.log[i].thread # 0
    /\ Recorded => flow.candidate.thread # 0
    /\ flow.at = "implement" /\ step.at \in {"check", "stage", "commit"} =>
         journal[step.attempt] # 0

\* The worktree holds what was committed.
CommitIsInTree ==
    /\ flow.at \in Writing /\ branch.log # <<>> => tree.dir /\ TipFiles \subseteq tree.files
    /\ flow.at = "implement" =>
        /\ step.at \in {"adding", "branched"} => ~tree.dir
        /\ step.at = "registered" => branch.log = <<>>
        /\ step.at \in InTree => tree.dir
        /\ step.at = "commit" => tree.index \subseteq tree.files
    /\ flow.at \in {"verify", "build"} =>
        /\ flow.candidate.files \subseteq tree.files
        /\ tree.files \ flow.candidate.files \subseteq late

\* What is on its way into the commit was checked, or came after the check.
CommitIsChecked ==
    flow.at = "implement" =>
        /\ step.at = "stage" => \A w \in Changed : Excused(w)
        /\ step.at = "commit" /\ branch.log = <<>> => \A w \in tree.index : Excused(w)
        /\ step.at = "confirm" /\ Len(branch.log) = 1 => \A w \in TipFiles : Excused(w)

\* The default branch has the candidate, besides the work of people, when the run says so.
MainFollows ==
    /\ \A i \in DOMAIN main.log :
         main.log[i] = Theirs \/ (Recorded /\ main.log[i] = Candidate)
    /\ flow.at \in {"implement", "verify", "build", "canary"} => ~OnMain
    /\ flow.at = "promote" /\ step.at = "merged" => OnMain
    /\ flow.at = "live" => OnMain
    /\ flow.at \in {"cleanup", "ended"} => (flow.result = "kept" <=> OnMain)
    /\ flow.at = "rollback" => flow.result # "kept"
    /\ flow.at = "rollback" /\ step.at \in {"confirm", "restored", "removed"} => ~OnMain

\* What the rollback is about to reset is the candidate alone, unless somebody came since.
ResetIsLookedAt ==
    flow.at = "rollback" /\ step.at = "reset" =>
        raced \/ (~main.dirty /\ Len(main.log) = 1 /\ Tip(main.log).thread # 0)

IInv ==
    /\ TypeOK
    /\ StagesFollow
    /\ ThreadsAreCounted
    /\ ThreadsAreNamed
    /\ CommitIsInTree
    /\ CommitIsChecked
    /\ MainFollows
    /\ ResetIsLookedAt
    /\ OneCandidateCommit
    /\ ScopeIsEnforced
    /\ ImageIsTheCandidate

----------------------------------------------------------------------------
\* The shapes of the records, and of what the run goes on with.
LEMMA BoundsTyped ==
    /\ Attempts \in Nat \ {0} /\ Tries \in Nat \ {0}
    /\ MaxWrites \in Nat /\ MaxEdits \in Nat /\ MaxCrashes \in Nat
    BY CandidateSourceAssumption

LEMMA StateTyped ==
    ASSUME TypeOK
    PROVE  /\ main \in [log : Seq(Commits), dirty : BOOLEAN]
           /\ branch \in [exists : BOOLEAN, log : Seq(Commits)]
           /\ tree \in Trees
           /\ flow \in Flows /\ flow.at \in Ats /\ flow.result \in Results
           /\ flow.candidate \in Recordings
           /\ step \in Steps /\ step.at \in Places
           /\ step.attempt \in 1 .. Attempts /\ step.tries \in 1 .. Tries
    BY DEF TypeOK, Flows, Steps

LEMMA FreshTyped == Fresh \in Steps /\ Fresh.at = "begun" /\ Fresh.attempt = 1
    BY BoundsTyped DEF Fresh, Steps, Places

LEMMA GotoTyped ==
    ASSUME TypeOK, NEW place \in Places, Goto(place)
    PROVE  /\ flow' = flow /\ step' \in Steps
           /\ step'.at = place /\ step'.attempt = step.attempt
    BY StateTyped DEF Goto, Steps

LEMMA EnterTyped ==
    ASSUME TypeOK, NEW at \in Ats, Enter(at)
    PROVE  /\ flow' \in Flows /\ flow'.at = at /\ flow'.candidate = flow.candidate
           /\ flow'.result = flow.result
           /\ step' \in Steps /\ step'.at = "begun"
    BY StateTyped, FreshTyped DEF Enter, Flows

\* The ways off the way to a release, and off a compensation.
LEMMA EndsTyped ==
    ASSUME TypeOK, NEW at \in Ats, NEW result \in Results,
           flow' = [flow EXCEPT !.at = at, !.result = result], step' = Fresh
    PROVE  /\ flow' \in Flows /\ flow'.at = at /\ flow'.candidate = flow.candidate
           /\ flow'.result = result
           /\ step' \in Steps /\ step'.at = "begun"
    BY StateTyped, FreshTyped DEF Flows

LEMMA FailsTyped ==
    ASSUME TypeOK, Fails
    PROVE  /\ flow' \in Flows /\ flow'.at = "cleanup" /\ flow'.candidate = flow.candidate
           /\ flow'.result = "failed"
           /\ step' \in Steps /\ step'.at = "begun"
    BY EndsTyped DEF Fails, Ats, Results

LEMMA PromotionFailsTyped ==
    ASSUME TypeOK, PromotionFails
    PROVE  /\ flow' \in Flows /\ flow'.at = "rollback" /\ flow'.candidate = flow.candidate
           /\ flow'.result = "failed"
           /\ step' \in Steps /\ step'.at = "begun"
    BY EndsTyped DEF PromotionFails, Ats, Results

LEMMA RaisesTyped ==
    ASSUME TypeOK, Raises
    PROVE  /\ flow' \in Flows /\ flow'.at \in {flow.at, "error"}
           /\ flow'.candidate = flow.candidate /\ flow'.result = flow.result
           /\ step' \in Steps /\ step'.at = "begun"
<1>1. CASE Enter("error")
    BY <1>1, EnterTyped DEF Ats
<1>2. CASE /\ step.tries < (IF flow.result = "failed" THEN Tries ELSE 1)
           /\ step' = [Fresh EXCEPT !.tries = step.tries + 1] /\ UNCHANGED flow
    <2>1. step.tries + 1 \in 1 .. Tries
        BY <1>2, StateTyped, BoundsTyped
    <2>2. step' = [Fresh EXCEPT !.tries = step.tries + 1]
        BY <1>2
    <2>3. Fresh \in Steps /\ Fresh.at = "begun"
        BY FreshTyped
    <2>4. step' \in Steps /\ step'.at = "begun"
        BY <2>1, <2>2, <2>3 DEF Steps
    <2> QED
        BY <1>2, <2>4, StateTyped
<1> QED
    BY <1>1, <1>2 DEF Raises

LEMMA InitIInv == Init => IInv
<1> SUFFICES ASSUME Init
             PROVE  IInv
    OBVIOUS
<1>1. NoCandidate \in Recordings
    BY BoundsTyped DEF NoCandidate, Recordings
<1>2. Fresh \in Steps /\ flow \in Flows
    BY <1>1, FreshTyped DEF Init, Flows, Ats, Results
<1>3. NoTree \in Trees /\ NoImage \in [files : SUBSET Writes, label : SUBSET Writes]
    BY DEF NoTree, Trees, NoImage
<1>4. <<>> \in Seq(Commits)
    OBVIOUS
<1>5. TypeOK
    <2>1. started \in Threads \cup {0} /\ child \in 0 .. started /\ strays \subseteq 1 .. started
        BY DEF Init
    <2>2. journal \in [1 .. Attempts -> Threads \cup {0}]
        BY DEF Init
    <2>3. budget \in [writes : 0 .. MaxWrites, edits : 0 .. MaxEdits, crashes : 0 .. MaxCrashes]
        BY BoundsTyped DEF Init
    <2> QED
        BY <1>2, <1>3, <1>4, <2>1, <2>2, <2>3 DEF Init, TypeOK
<1>6. StagesFollow /\ ThreadsAreNamed /\ CommitIsInTree /\ CommitIsChecked
    BY DEF Init, StagesFollow, Releasing, Recorded, ThreadsAreNamed, CommitIsInTree, Writing,
           InTree, CommitIsChecked, Fresh
<1>7. ThreadsAreCounted
    BY BoundsTyped DEF Init, ThreadsAreCounted, Fresh
<1>8. MainFollows /\ ResetIsLookedAt /\ OneCandidateCommit /\ ScopeIsEnforced
      /\ ImageIsTheCandidate
    BY DEF Init, MainFollows, OnMain, Recorded, ResetIsLookedAt, OneCandidateCommit,
           ScopeIsEnforced, ImageIsTheCandidate
<1> QED
    BY <1>5, <1>6, <1>7, <1>8 DEF IInv

----------------------------------------------------------------------------
\* What stays as it is while the files, the commit or the default branch do.

Written == \A i \in DOMAIN main.log : main.log[i] = Theirs \/ (Recorded /\ main.log[i] = Candidate)

LEMMA SameMain ==
    ASSUME IInv, UNCHANGED main, flow'.candidate = flow.candidate
    PROVE  /\ OnMain' <=> OnMain
           /\ Written' /\ (Recorded' <=> Recorded)
<1>1. Recorded' <=> Recorded
    BY DEF Recorded, NoCandidate
<1>2. Candidate' = Candidate
    BY DEF Candidate
<1> QED
    BY <1>1, <1>2 DEF OnMain, Written, IInv, MainFollows

LEMMA PureTyped ==
    ASSUME TypeOK, UNCHANGED <<git, image, codex, history, budget>>, flow' \in Flows, step' \in Steps
    PROVE  TypeOK'
    BY DEF TypeOK, git, codex, history

\* A step after which nobody writes in the worktree any more.
LEMMA LeavesTheTree ==
    ASSUME IInv, TypeOK', child' = 0,
           UNCHANGED <<image, journal, started, late, budget>>, UNCHANGED unchecked \/ ~Recorded,
           flow'.at \notin Writing, flow'.candidate = flow.candidate,
           flow'.at \in Releasing => flow.at \in Releasing,
           UNCHANGED branch \/ (~branch'.exists /\ branch'.log = <<>>),
           MainFollows', ResetIsLookedAt'
    PROVE  IInv'
<1>1. Recorded' <=> Recorded
    BY DEF Recorded, NoCandidate
<1>2. Candidate' = Candidate
    BY DEF Candidate
<1>3. StagesFollow'
    BY <1>1 DEF IInv, StagesFollow, Writing
<1>4. ThreadsAreCounted'
    BY DEF IInv, ThreadsAreCounted, Writing
<1>5. ThreadsAreNamed'
    BY <1>1 DEF IInv, ThreadsAreNamed, Writing
<1>6. CommitIsInTree' /\ CommitIsChecked'
    BY DEF CommitIsInTree, CommitIsChecked, Writing
<1>7. OneCandidateCommit'
    BY <1>1, <1>2 DEF IInv, OneCandidateCommit
<1>8. ScopeIsEnforced' /\ ImageIsTheCandidate'
    BY <1>1 DEF IInv, ScopeIsEnforced, ImageIsTheCandidate, NoImage
<1> QED
    BY <1>3, <1>4, <1>5, <1>6, <1>7, <1>8 DEF IInv

\* A step that fails before promotion: nothing of the candidate is on the default branch.
LEMMA FailsWell ==
    ASSUME IInv, Fails, flow.at \in {"implement", "verify", "build", "canary"},
           TypeOK', child' = 0, UNCHANGED <<main, branch, image, journal, started, late, budget>>,
           UNCHANGED unchecked \/ ~Recorded
    PROVE  IInv'
<1>1. /\ flow'.at = "cleanup" /\ flow'.candidate = flow.candidate /\ flow'.result = "failed"
      /\ step'.at = "begun"
    BY FailsTyped DEF IInv
<1>2. MainFollows'
    BY <1>1, SameMain DEF IInv, MainFollows, Written
<1>3. ResetIsLookedAt'
    BY <1>1 DEF ResetIsLookedAt
<1> QED
    BY <1>1, <1>2, <1>3, LeavesTheTree DEF Writing, Releasing

----------------------------------------------------------------------------
\* Promotion, and what follows it.

LEMMA NoTurn ==
    ASSUME IInv, flow.at # "implement" \/ step.at # "turn"
    PROVE  child = 0
    BY DEF IInv, ThreadsAreCounted

LEMMA CanaryIInv == IInv /\ (ScanImage \/ Canary) => IInv'
<1> SUFFICES ASSUME IInv, ScanImage \/ Canary
             PROVE  IInv'
    OBVIOUS
<1>1. /\ UNCHANGED <<git, image, codex, history, budget>>
      /\ UNCHANGED <<main, branch, image, journal, started, child, raced, unchecked, late, budget>>
      /\ flow.at \in {"build", "canary"} /\ child = 0
    BY NoTurn DEF ScanImage, Canary, At, git, codex, history
<1>2. CASE Fails
    BY <1>1, <1>2, FailsTyped, PureTyped, FailsWell DEF IInv
<1>3. CASE \E at \in {"canary", "promote"} : Enter(at)
    <2>1. /\ flow' \in Flows /\ step' \in Steps /\ step'.at = "begun"
          /\ flow'.at \in {"canary", "promote"} /\ flow'.candidate = flow.candidate
        BY <1>3, EnterTyped DEF Ats, IInv
    <2>2. TypeOK'
        BY <1>1, <2>1, PureTyped DEF IInv
    <2>3. MainFollows'
        BY <1>1, <2>1, SameMain DEF IInv, MainFollows, Written
    <2>4. ResetIsLookedAt'
        BY <2>1 DEF ResetIsLookedAt
    <2> QED
        BY <1>1, <2>1, <2>2, <2>3, <2>4, LeavesTheTree DEF Writing, Releasing
<1> QED
    BY <1>2, <1>3 DEF ScanImage, Canary

\* The last commit of the default branch is one of its commits.
LEMMA TipIsThere ==
    ASSUME TypeOK, main.log # <<>>
    PROVE  Len(main.log) \in DOMAIN main.log
    BY DEF TypeOK

LEMMA PromotionIInv == IInv /\ (CheckPromotion \/ ConfirmPromotion \/ Live) => IInv'
<1> SUFFICES ASSUME IInv, CheckPromotion \/ ConfirmPromotion \/ Live
             PROVE  IInv'
    OBVIOUS
<1>1. /\ UNCHANGED <<git, image, codex, history, budget>>
      /\ UNCHANGED <<main, branch, image, journal, started, child, raced, unchecked, late, budget>>
      /\ flow.at \in {"promote", "live"} /\ child = 0
    BY NoTurn DEF CheckPromotion, ConfirmPromotion, Live, At, git, codex, history
<1>2. /\ Recorded
      /\ flow.at = "live" => OnMain
      /\ main.log # <<>> /\ Tip(main.log) = Candidate => OnMain
      /\ flow.at = "promote" /\ step.at = "merged" => OnMain
    BY <1>1, TipIsThere DEF IInv, StagesFollow, Releasing, MainFollows, OnMain, Tip
<1>3. /\ flow' \in Flows /\ step' \in Steps /\ flow'.candidate = flow.candidate
      /\ \/ flow'.at = "rollback" /\ flow'.result \in {"failed", "withdrawn"} /\ step'.at = "begun"
         \/ flow'.at = "promote" /\ step'.at = "merge"
         \/ flow'.at = "promote" /\ step'.at = "merged" /\ OnMain
         \/ flow'.at = "live" /\ OnMain
         \/ flow'.at = "cleanup" /\ flow'.result = "kept" /\ OnMain
    <2>1. CASE CheckPromotion
        <3>1. flow.at = "promote"
            BY <2>1 DEF CheckPromotion, At
        <3>2. CASE PromotionFails
            BY <3>2, PromotionFailsTyped DEF IInv
        <3>3. CASE Goto("merge")
            BY <3>1, <3>3, GotoTyped, StateTyped DEF IInv, Places
        <3>4. CASE Goto("merged") /\ main.log # <<>> /\ Tip(main.log) = Candidate
            BY <1>2, <3>1, <3>4, GotoTyped, StateTyped DEF IInv, Places
        <3> QED
            BY <2>1, <3>2, <3>3, <3>4 DEF CheckPromotion
    <2>2. CASE ConfirmPromotion
        <3>1. OnMain
            BY <1>2, <2>2 DEF ConfirmPromotion, At
        <3>2. CASE PromotionFails
            BY <3>2, PromotionFailsTyped DEF IInv
        <3>3. CASE Enter("live")
            BY <3>1, <3>3, EnterTyped DEF IInv, Ats
        <3> QED
            BY <2>2, <3>2, <3>3 DEF ConfirmPromotion
    <2>3. CASE Live
        <3>1. OnMain
            BY <1>2, <2>3 DEF Live, At
        <3>2. PICK at \in {"cleanup", "rollback"}, result \in Results :
                /\ flow' = [flow EXCEPT !.at = at, !.result = result] /\ step' = Fresh
                /\ at = "cleanup" => result = "kept"
                /\ at = "rollback" => result \in {"failed", "withdrawn"}
            BY <2>3 DEF Live, Results
        <3>3. at \in Ats
            BY DEF Ats
        <3> QED
            BY <3>1, <3>2, <3>3, EndsTyped DEF IInv
    <2> QED
        BY <2>1, <2>2, <2>3
<1>4. TypeOK'
    BY <1>1, <1>3, PureTyped DEF IInv
<1>5. MainFollows'
    BY <1>1, <1>3, SameMain DEF IInv, MainFollows, Written
<1>6. ResetIsLookedAt'
    BY <1>3 DEF ResetIsLookedAt
<1> QED
    BY <1>1, <1>3, <1>4, <1>5, <1>6, LeavesTheTree DEF Writing, Releasing

LEMMA MergeIInv == IInv /\ Merge => IInv'
<1> SUFFICES ASSUME IInv, Merge
             PROVE  IInv'
    OBVIOUS
<1>1. /\ UNCHANGED <<branch, tree, image, journal, started, child, strays, raced, unchecked, late,
                     budget>>
      /\ flow.at = "promote" /\ child = 0 /\ Recorded
    BY NoTurn DEF Merge, At, codex, history, IInv, StagesFollow, Releasing
<1>2. CASE PromotionFails /\ UNCHANGED main
    <2>1. /\ flow' \in Flows /\ flow'.at = "rollback" /\ flow'.candidate = flow.candidate
          /\ flow'.result = "failed" /\ step' \in Steps /\ step'.at = "begun"
        BY <1>2, PromotionFailsTyped DEF IInv
    <2>2. TypeOK'
        BY <1>1, <1>2, <2>1 DEF IInv, TypeOK
    <2>3. MainFollows'
        BY <1>2, <2>1, SameMain DEF IInv, MainFollows, Written
    <2>4. ResetIsLookedAt'
        BY <2>1 DEF ResetIsLookedAt
    <2> QED
        BY <1>1, <2>1, <2>2, <2>3, <2>4, LeavesTheTree DEF Writing, Releasing
<1>3. CASE main' = [main EXCEPT !.log = <<Candidate>>] /\ Goto("merged")
    <2>1. /\ flow' = flow /\ step' \in Steps /\ step'.at = "merged"
        BY <1>3, GotoTyped DEF IInv, Places
    <2>2. Candidate \in Commits /\ Candidate' = Candidate /\ Recorded'
        BY <1>1, <2>1, StateTyped DEF Candidate, Commits, Recordings, IInv, Recorded, NoCandidate
    <2>3. /\ main' \in [log : Seq(Commits), dirty : BOOLEAN]
          /\ DOMAIN main'.log = 1 .. 1 /\ main'.log[1] = Candidate
        <3>1. \A c \in Commits :
                <<c>> \in Seq(Commits) /\ DOMAIN <<c>> = 1 .. 1 /\ <<c>>[1] = c
            OBVIOUS
        <3>2. main \in [log : Seq(Commits), dirty : BOOLEAN]
            BY StateTyped DEF IInv
        <3>3. <<Candidate>> \in Seq(Commits)
            BY <2>2, <3>1
        <3>4. /\ main' \in [log : Seq(Commits), dirty : BOOLEAN]
              /\ main'.log = <<Candidate>>
            BY <1>3, <3>2, <3>3
        <3> QED
            BY <2>2, <3>1, <3>4
    <2>4. TypeOK'
        BY <1>1, <2>1, <2>3 DEF IInv, TypeOK
    <2>5. MainFollows'
        BY <1>1, <2>1, <2>2, <2>3 DEF MainFollows, OnMain
    <2>6. ResetIsLookedAt'
        BY <1>1, <2>1 DEF ResetIsLookedAt
    <2> QED
        BY <1>1, <2>1, <2>4, <2>5, <2>6, LeavesTheTree DEF Writing, Releasing
<1> QED
    BY <1>2, <1>3 DEF Merge

----------------------------------------------------------------------------
\* Compensation and cleanup.

\* What a compensation does to the run: it goes on, starts over, or gives up.
LEMMA CompensatesWell ==
    ASSUME IInv, TypeOK', flow.at \in {"rollback", "cleanup"},
           UNCHANGED <<image, journal, started, child, unchecked, late, budget>>,
           UNCHANGED branch \/ (~branch'.exists /\ branch'.log = <<>>),
           flow'.at \in {flow.at, "ended", "error"},
           flow'.candidate = flow.candidate, flow'.result = flow.result,
           Written',
           flow.at = "cleanup" => UNCHANGED main,
           flow'.at = "rollback" /\ step'.at \in {"confirm", "restored", "removed"} => ~OnMain',
           flow.at = "rollback" /\ flow'.at = "ended" => ~OnMain',
           ResetIsLookedAt'
    PROVE  IInv'
<1>1. child' = 0
    BY NoTurn
<1>2. flow.at = "cleanup" => (flow'.result = "kept" <=> OnMain')
    BY SameMain DEF IInv, MainFollows
<1>3. flow.at = "rollback" => flow'.result # "kept"
    BY DEF IInv, MainFollows
<1>4. MainFollows'
    BY <1>2, <1>3 DEF MainFollows, Written
<1> QED
    BY <1>1, <1>4, LeavesTheTree DEF Writing, Releasing

LEMMA CheckRollbackIInv == IInv /\ (CheckRollback \/ ConfirmRollback) => IInv'
<1> SUFFICES ASSUME IInv, CheckRollback \/ ConfirmRollback
             PROVE  IInv'
    OBVIOUS
<1>1. /\ UNCHANGED <<main, branch, tree, image, journal, started, child, strays, unchecked, late,
                     budget>>
      /\ flow.at = "rollback" /\ raced' \in BOOLEAN
    BY DEF CheckRollback, ConfirmRollback, At, git, codex, history, IInv, TypeOK
<1>2. /\ flow' \in Flows /\ step' \in Steps
      /\ flow'.candidate = flow.candidate /\ flow'.result = flow.result
      /\ \/ flow'.at \in {"rollback", "error"} /\ step'.at = "begun"
         \/ flow'.at = "rollback" /\ step'.at = "restored" /\ main.log = <<>>
         \/ /\ flow'.at = "rollback" /\ step'.at = "reset"
            /\ ~main.dirty /\ Len(main.log) = 1 /\ Tip(main.log).thread # 0
    <2>1. CASE Raises
        BY <1>1, <2>1, RaisesTyped DEF IInv
    <2>2. CASE Goto("restored") /\ main.log = <<>>
        BY <1>1, <2>2, GotoTyped, StateTyped DEF IInv, Places
    <2>3. CASE Goto("reset") /\ ~main.dirty /\ Len(main.log) = 1 /\ Tip(main.log).thread # 0
        BY <1>1, <2>3, GotoTyped, StateTyped DEF IInv, Places
    <2> QED
        BY <2>1, <2>2, <2>3 DEF CheckRollback, ConfirmRollback
<1>3. TypeOK'
    BY <1>1, <1>2 DEF IInv, TypeOK
<1>4. Written' /\ (main.log = <<>> => ~OnMain')
    BY <1>1, <1>2, SameMain DEF OnMain
<1>5. ResetIsLookedAt'
    BY <1>1, <1>2 DEF ResetIsLookedAt, Tip
<1> QED
    BY <1>1, <1>2, <1>3, <1>4, <1>5, CompensatesWell

LEMMA ResetIInv == IInv /\ Reset => IInv'
<1> SUFFICES ASSUME IInv, Reset
             PROVE  IInv'
    OBVIOUS
<1>1. /\ UNCHANGED <<branch, tree, image, journal, started, child, strays, raced, unchecked, late,
                     budget>>
      /\ flow.at = "rollback" /\ main' = [log |-> <<>>, dirty |-> FALSE]
    BY DEF Reset, At, codex, history
<1>2. flow' = flow /\ step' \in Steps /\ step'.at = "confirm"
    BY GotoTyped DEF Reset, IInv, Places
<1>3. main' \in [log : Seq(Commits), dirty : BOOLEAN] /\ main'.log = <<>>
    BY <1>1
<1>4. TypeOK'
    BY <1>1, <1>2, <1>3 DEF IInv, TypeOK
<1>5. Written' /\ ~OnMain'
    BY <1>3 DEF Written, OnMain
<1>6. ResetIsLookedAt'
    BY <1>2 DEF ResetIsLookedAt
<1> QED
    BY <1>1, <1>2, <1>4, <1>5, <1>6, CompensatesWell

LEMMA CleanupIInv == IInv /\ (RemoveWorktree \/ DeleteBranch) => IInv'
<1> SUFFICES ASSUME IInv, RemoveWorktree \/ DeleteBranch
             PROVE  IInv'
    OBVIOUS
<1>1. /\ UNCHANGED <<main, image, journal, started, child, strays, raced, unchecked, late, budget>>
      /\ flow.at \in {"rollback", "cleanup"}
      /\ flow.at = "rollback" => step.at \in {"restored", "removed"}
    BY DEF RemoveWorktree, DeleteBranch, Cleaning, At, codex, history
<1>2. /\ flow' \in Flows /\ step' \in Steps
      /\ flow'.candidate = flow.candidate /\ flow'.result = flow.result
      /\ flow'.at \in {flow.at, "ended", "error"} /\ step'.at \in {"begun", "removed"}
    <2>1. CASE Raises
        BY <2>1, RaisesTyped DEF IInv
    <2>2. CASE Goto("removed")
        BY <2>2, GotoTyped, StateTyped DEF IInv, Places
    <2>3. CASE Enter("ended")
        BY <2>3, EnterTyped DEF IInv, Ats
    <2> QED
        BY <2>1, <2>2, <2>3 DEF RemoveWorktree, DeleteBranch
<1>3. tree' \in Trees
    <2>1. tree \in Trees /\ NoTree \in Trees
        BY StateTyped DEF IInv, NoTree, Trees
    <2>2. [tree EXCEPT !.reg = "no", !.index = {}] \in Trees
        BY <2>1 DEF Trees
    <2> QED
        BY <2>1, <2>2 DEF RemoveWorktree, DeleteBranch
<1>4. UNCHANGED branch \/ branch' = [exists |-> FALSE, log |-> <<>>]
    BY DEF RemoveWorktree, DeleteBranch
<1>5. TypeOK'
    <2>1. [exists |-> FALSE, log |-> <<>>] \in [exists : BOOLEAN, log : Seq(Commits)]
        OBVIOUS
    <2>2. branch' \in [exists : BOOLEAN, log : Seq(Commits)]
        BY <1>4, <2>1, StateTyped DEF IInv
    <2> QED
        BY <1>1, <1>2, <1>3, <2>2 DEF IInv, TypeOK
<1>6. Written' /\ (OnMain' <=> OnMain)
    BY <1>1, <1>2, SameMain
<1>7. flow.at = "rollback" => ~OnMain
    BY <1>1 DEF IInv, MainFollows
<1>8. ResetIsLookedAt'
    BY <1>2 DEF ResetIsLookedAt
<1> QED
    BY <1>1, <1>2, <1>4, <1>5, <1>6, <1>7, <1>8, CompensatesWell

----------------------------------------------------------------------------
\* Everybody else.

\* Somebody's commit is not the candidate's.
LEMMA TheirsIsNotTheCandidate ==
    ASSUME IInv, Recorded
    PROVE  Theirs # Candidate
    BY DEF IInv, ThreadsAreNamed, Theirs, Candidate

LEMMA PeopleIInv == IInv /\ (PersonEdits \/ PersonCommits) => IInv'
<1> SUFFICES ASSUME IInv, PersonEdits \/ PersonCommits
             PROVE  IInv'
    OBVIOUS
<1>1. /\ UNCHANGED <<branch, tree, image, journal, started, child, strays, flow, step, unchecked,
                     late>>
      /\ raced' = TRUE /\ budget'.crashes = budget.crashes
    BY DEF PersonEdits, PersonCommits, codex, IInv, TypeOK
<1>2. main \in [log : Seq(Commits), dirty : BOOLEAN] /\ Theirs \in Commits
    BY StateTyped DEF IInv, Theirs, Commits
<1>3. /\ main' \in [log : Seq(Commits), dirty : BOOLEAN]
      /\ \/ main'.log = main.log
         \/ main'.log = Append(main.log, Theirs)
    <2>1. CASE PersonEdits
        BY <1>2, <2>1 DEF PersonEdits
    <2>2. CASE PersonCommits
        <3>1. Append(main.log, Theirs) \in Seq(Commits)
            BY <1>2
        <3>2. main' = [log |-> Append(main.log, Theirs), dirty |-> FALSE]
            BY <2>2 DEF PersonCommits
        <3> QED
            BY <3>1, <3>2
    <2> QED
        BY <2>1, <2>2
<1>4. budget' \in [writes : 0 .. MaxWrites, edits : 0 .. MaxEdits, crashes : 0 .. MaxCrashes]
    <2>1. budget \in [writes : 0 .. MaxWrites, edits : 0 .. MaxEdits, crashes : 0 .. MaxCrashes]
        BY DEF IInv, TypeOK
    <2>2. CASE PersonEdits
        <3>1. budget.edits < MaxEdits /\ budget' = [budget EXCEPT !.edits = @ + 1]
            BY <2>2 DEF PersonEdits
        <3> QED
            BY <2>1, <3>1, BoundsTyped
    <2> QED
        BY <2>1, <2>2 DEF PersonCommits
<1>5. TypeOK'
    BY <1>1, <1>3, <1>4 DEF IInv, TypeOK
<1>6. Recorded' <=> Recorded
    BY <1>1 DEF Recorded, NoCandidate
<1>7. Candidate' = Candidate
    BY <1>1 DEF Candidate
<1>8. /\ \A i \in DOMAIN main.log : i \in DOMAIN main'.log /\ main'.log[i] = main.log[i]
      /\ \A i \in DOMAIN main'.log : i \in DOMAIN main.log \/ main'.log[i] = Theirs
    BY <1>2, <1>3
<1>9. Written' /\ (OnMain' <=> OnMain)
    BY <1>6, <1>7, <1>8, TheirsIsNotTheCandidate DEF Written, OnMain, IInv, MainFollows
<1>10. MainFollows'
    BY <1>1, <1>9 DEF IInv, MainFollows, Written
<1>11. ResetIsLookedAt'
    BY <1>1 DEF ResetIsLookedAt
<1>12. StagesFollow' /\ ThreadsAreNamed' /\ CommitIsInTree' /\ CommitIsChecked'
    BY <1>1, <1>6
    DEF IInv, StagesFollow, ThreadsAreNamed, CommitIsInTree, CommitIsChecked, TipFiles, Changed,
        Excused, NoImage
<1>13. ThreadsAreCounted'
    BY <1>1 DEF IInv, ThreadsAreCounted
<1>14. OneCandidateCommit' /\ ScopeIsEnforced' /\ ImageIsTheCandidate'
    BY <1>1, <1>6, <1>7 DEF IInv, OneCandidateCommit, ScopeIsEnforced, ImageIsTheCandidate, NoImage
<1> QED
    BY <1>5, <1>10, <1>11, <1>12, <1>13, <1>14 DEF IInv

----------------------------------------------------------------------------
\* implement: before there is a candidate.

LEMMA StaysUnrecorded ==
    ASSUME IInv, flow.at = "implement", flow' = flow, UNCHANGED <<main, image>>
    PROVE  /\ StagesFollow' /\ MainFollows' /\ ResetIsLookedAt' /\ OneCandidateCommit'
           /\ ScopeIsEnforced' /\ ImageIsTheCandidate'
<1>1. ~Recorded /\ ~Recorded'
    BY DEF IInv, StagesFollow, Recorded, NoCandidate
<1>2. image' = NoImage
    BY DEF IInv, StagesFollow
<1>3. NoImage' = NoImage
    BY DEF NoImage
<1>4. MainFollows'
    BY SameMain DEF IInv, MainFollows, Written
<1> QED
    BY <1>1, <1>2, <1>3, <1>4
    DEF StagesFollow, Releasing, ResetIsLookedAt, OneCandidateCommit, ScopeIsEnforced,
        ImageIsTheCandidate

\* A step of implement that changes neither git nor the threads.
LEMMA PureImplementIInv ==
    ASSUME IInv, flow.at = "implement", child = 0, NEW place \in Places, Goto(place),
           UNCHANGED <<git, image, codex, late, raced, budget>>,
           place \in {"worktree", "adding", "branched", "registered", "recover", "turn"} =>
             step.at \in {"begun", "worktree", "adding", "branched", "registered", "recover", "turn"},
           place \in {"check", "stage", "commit"} => step.at \in {"check", "stage", "commit"},
           place \in {"adding", "branched"} => ~tree.dir,
           place \in InTree => tree.dir,
           place \notin {"begun", "registered", "commit", "confirm"},
           place = "stage" => \A w \in Changed : w.allowed,
           UNCHANGED unchecked \/ unchecked' = {}
    PROVE  IInv'
<1>1. /\ UNCHANGED <<main, branch, tree, image, journal, started, child, strays, flow, late, raced,
                     budget>>
      /\ step' \in Steps /\ step'.at = place /\ step'.attempt = step.attempt
    BY GotoTyped DEF git, codex, IInv
<1>2. TypeOK'
    BY <1>1 DEF IInv, TypeOK
<1>3. ThreadsAreCounted'
    BY <1>1 DEF IInv, ThreadsAreCounted
<1>4. ThreadsAreNamed'
    <2>1. Recorded' <=> Recorded
        BY <1>1 DEF Recorded, NoCandidate
    <2> QED
        BY <1>1, <2>1 DEF IInv, ThreadsAreNamed
<1>5. CommitIsInTree'
    <2>1. TipFiles' = TipFiles
        BY <1>1 DEF TipFiles, Tip
    <2> QED
        BY <1>1, <2>1 DEF IInv, CommitIsInTree, Writing
<1>6. CommitIsChecked'
    <2>1. Changed' = Changed
        BY <1>1 DEF Changed, TipFiles, Tip
    <2> QED
        BY <1>1, <2>1 DEF CommitIsChecked, Excused
<1> QED
    BY <1>1, <1>2, <1>3, <1>4, <1>5, <1>6, StaysUnrecorded DEF IInv

LEMMA FindIInv == IInv /\ (VerifyBaseline \/ FindWorktree) => IInv'
<1> SUFFICES ASSUME IInv, VerifyBaseline \/ FindWorktree
             PROVE  IInv'
    OBVIOUS
<1>1. /\ UNCHANGED <<git, image, codex, history, budget>>
      /\ UNCHANGED <<main, branch, image, journal, started, child, raced, unchecked, late, budget>>
      /\ flow.at = "implement" /\ child = 0 /\ step.at \in {"begun", "worktree"}
    BY NoTurn DEF VerifyBaseline, FindWorktree, At, git, codex, history
<1>2. CASE Fails
    BY <1>1, <1>2, FailsTyped, PureTyped, FailsWell DEF IInv
<1>3. CASE \E place \in {"worktree", "recover", "adding"} :
             /\ Goto(place)
             /\ place = "recover" => tree.dir
             /\ place = "adding" => ~tree.dir
    BY <1>1, <1>3, PureImplementIInv DEF Places, InTree
<1> QED
    BY <1>2, <1>3 DEF VerifyBaseline, FindWorktree

\* The last commit of the branch is one of its commits.
LEMMA TipFilesTyped ==
    ASSUME TypeOK
    PROVE  /\ TipFiles \subseteq Writes
           /\ branch.log # <<>> => /\ Len(branch.log) \in DOMAIN branch.log
                                  /\ Tip(branch.log) \in Commits
<1>1. branch.log \in Seq(Commits)
    BY DEF TypeOK
<1>2. CASE branch.log = <<>>
    BY <1>2 DEF TipFiles
<1>3. CASE branch.log # <<>>
    <2>1. Len(branch.log) \in DOMAIN branch.log
        BY <1>1, <1>3
    <2>2. Tip(branch.log) \in Commits
        BY <1>1, <2>1 DEF Tip
    <2> QED
        BY <1>3, <2>1, <2>2 DEF TipFiles, Commits
<1> QED
    BY <1>2, <1>3

\* The worktree that is added has the files of the branch.
LEMMA AddIInv == IInv /\ (AddBranch \/ AddRegistration \/ AddFiles) => IInv'
<1> SUFFICES ASSUME IInv, AddBranch \/ AddRegistration \/ AddFiles
             PROVE  IInv'
    OBVIOUS
<1>1. /\ UNCHANGED <<main, image, journal, started, child, strays, unchecked, late, raced, budget>>
      /\ flow.at = "implement" /\ child = 0 /\ flow' = flow
      /\ step.at \in {"adding", "branched", "registered"}
    BY NoTurn DEF AddBranch, AddRegistration, AddFiles, At, codex, history, Goto
<1>2. /\ step' \in Steps /\ step'.attempt = step.attempt
      /\ step'.at \in {"branched", "registered", "recover"}
      /\ step'.at = "branched" => step.at = "adding"
      /\ step'.at = "registered" => step.at = "branched"
    BY GotoTyped DEF AddBranch, AddRegistration, AddFiles, At, IInv, Places
<1>3. branch' \in [exists : BOOLEAN, log : Seq(Commits)] /\ branch'.log = branch.log
    BY StateTyped DEF IInv, AddBranch, AddRegistration, AddFiles
<1>4. TipFiles' = TipFiles /\ TipFiles \subseteq Writes
    BY <1>3, TipFilesTyped DEF TipFiles, Tip, IInv
<1>5. tree' \in Trees
    <2>1. {Missing} \subseteq Writes
        BY DEF Missing, Writes
    <2>2. CASE AddBranch
        BY <2>2, StateTyped DEF IInv, AddBranch
    <2>3. CASE AddRegistration
        BY <2>1, <2>3 DEF AddRegistration, Trees
    <2>4. CASE AddFiles
        BY <1>4, <2>4 DEF AddFiles, Trees
    <2> QED
        BY <2>2, <2>3, <2>4
<1>6. TypeOK'
    BY <1>1, <1>2, <1>3, <1>5 DEF IInv, TypeOK
<1>7. ThreadsAreCounted'
    BY <1>1, <1>2 DEF IInv, ThreadsAreCounted
<1>8. ThreadsAreNamed'
    <2>1. Recorded' <=> Recorded
        BY <1>1 DEF Recorded, NoCandidate
    <2> QED
        BY <1>1, <1>2, <1>3, <2>1 DEF IInv, ThreadsAreNamed
<1>9. CommitIsInTree'
    <2>1. step.at \in {"adding", "branched"} => ~tree.dir /\ branch.log = <<>>
        BY <1>1 DEF IInv, CommitIsInTree, Writing
    <2>2. step'.at = "branched" => ~tree'.dir /\ branch.log = <<>>
        BY <1>2, <2>1 DEF AddBranch, AddRegistration, AddFiles, Goto, At
    <2>3. step'.at = "registered" => tree'.dir /\ branch.log = <<>>
        BY <1>2, <2>1 DEF AddBranch, AddRegistration, AddFiles, Goto, At
    <2>4. step'.at = "recover" => tree'.dir /\ TipFiles \subseteq tree'.files
        <3>1. CASE AddFiles
            BY <3>1 DEF AddFiles
        <3>2. CASE AddBranch \/ AddRegistration
            BY <3>2, GotoTyped DEF AddBranch, AddRegistration, IInv, Places
        <3> QED
            BY <3>1, <3>2
    <2> QED
        BY <1>1, <1>2, <1>3, <1>4, <2>2, <2>3, <2>4 DEF CommitIsInTree, Writing, InTree
<1>10. CommitIsChecked'
    BY <1>2 DEF CommitIsChecked
<1> QED
    BY <1>1, <1>6, <1>7, <1>8, <1>9, <1>10, StaysUnrecorded DEF IInv

\* The commit that is read back, with the worktree clean, is the candidate.
LEMMA ReadyIInv ==
    ASSUME IInv, flow.at = "implement", child = 0, CandidateReady,
           UNCHANGED <<git, image, codex, late, raced, budget>>, UNCHANGED unchecked \/ unchecked' = {},
           Changed = {}, Len(branch.log) = 1,
           \A w \in TipFiles : w.allowed \/ w \in unchecked'
    PROVE  IInv'
<1>1. /\ UNCHANGED <<main, branch, tree, image, journal, started, child, strays, late, raced, budget>>
      /\ ~Recorded /\ image = NoImage
    BY DEF git, codex, IInv, StagesFollow
<1>2. /\ branch.log # <<>> /\ branch.log = <<Tip(branch.log)>> /\ DOMAIN branch.log = 1 .. 1
      /\ Tip(branch.log) = branch.log[1] /\ Tip(branch.log) \in Commits
      /\ TipFiles = Tip(branch.log).files
    <2>1. branch.log \in Seq(Commits)
        BY DEF IInv, TypeOK
    <2> QED
        BY <2>1, TipFilesTyped DEF Tip, TipFiles, IInv
<1>3. /\ Tip(branch.log).files \subseteq Writes /\ Tip(branch.log).thread \in Threads \cup {0}
      /\ Tip(branch.log) = [files |-> Tip(branch.log).files, thread |-> Tip(branch.log).thread]
      /\ Tip(branch.log).thread # 0
    BY <1>2 DEF Commits, IInv, ThreadsAreNamed
<1> DEFINE found == [files |-> Tip(branch.log).files, thread |-> Tip(branch.log).thread,
                     attempt |-> step.attempt]
<1>4. found \in Recordings /\ found # NoCandidate
    BY <1>3, StateTyped, BoundsTyped DEF Recordings, NoCandidate, IInv
<1>5. found.files = TipFiles /\ found.thread = Tip(branch.log).thread
    BY <1>2
<1>6. flow' = [flow EXCEPT !.at = "verify", !.candidate = found] /\ step' = Fresh
    BY DEF CandidateReady
<1> HIDE DEF found
<1>7. /\ flow' \in Flows /\ flow'.at = "verify" /\ flow'.candidate = found
      /\ step' \in Steps /\ step'.at = "begun"
    BY <1>4, <1>6, StateTyped, FreshTyped DEF Flows, Ats, IInv
<1>8. Recorded' /\ Candidate' = Tip(branch.log)
    <2>1. Recorded'
        BY <1>4, <1>7 DEF Recorded, NoCandidate
    <2>2. Candidate' = [files |-> found.files, thread |-> found.thread]
        BY <1>7 DEF Candidate
    <2> QED
        BY <1>2, <1>3, <1>5, <2>1, <2>2
<1>9. TypeOK'
    BY <1>1, <1>7 DEF IInv, TypeOK
<1>10. tree.files = TipFiles
    BY <1>2 DEF Changed, IInv, CommitIsInTree, Writing
<1>11. MainFollows'
    <2>1. \A i \in DOMAIN main.log : main.log[i] = Theirs
        BY <1>1 DEF IInv, MainFollows
    <2>2. Theirs # Candidate'
        BY <1>3, <1>8 DEF Theirs
    <2>3. ~OnMain' /\ Theirs' = Theirs
        BY <1>1, <2>1, <2>2 DEF OnMain, Theirs
    <2> QED
        BY <1>1, <1>7, <2>1, <2>3 DEF MainFollows
<1>12. StagesFollow'
    BY <1>1, <1>7, <1>8 DEF StagesFollow, Releasing, NoImage
<1>13. ThreadsAreCounted'
    BY <1>1, <1>7 DEF IInv, ThreadsAreCounted
<1>14. ThreadsAreNamed'
    BY <1>1, <1>3, <1>5, <1>7, <1>8 DEF IInv, ThreadsAreNamed
<1>15. CommitIsInTree'
    <2>1. TipFiles' = TipFiles
        BY <1>1 DEF TipFiles, Tip
    <2> QED
        BY <1>1, <1>2, <1>5, <1>7, <1>10, <2>1 DEF CommitIsInTree, IInv, Writing
<1>16. OneCandidateCommit'
    BY <1>1, <1>2, <1>8 DEF OneCandidateCommit
<1>17. ScopeIsEnforced'
    BY <1>5, <1>7 DEF ScopeIsEnforced
<1>18. ImageIsTheCandidate' /\ CommitIsChecked' /\ ResetIsLookedAt'
    BY <1>1, <1>7 DEF ImageIsTheCandidate, NoImage, CommitIsChecked, ResetIsLookedAt
<1> QED
    BY <1>9, <1>11, <1>12, <1>13, <1>14, <1>15, <1>16, <1>17, <1>18 DEF IInv

LEMMA RecoverIInv == IInv /\ Recover => IInv'
<1> SUFFICES ASSUME IInv, Recover
             PROVE  IInv'
    OBVIOUS
<1>1. /\ UNCHANGED <<git, image, codex, late, raced, budget>>
      /\ UNCHANGED <<main, branch, tree, image, journal, started, child, strays, late, raced, budget>>
      /\ flow.at = "implement" /\ child = 0 /\ step.at = "recover" /\ ~Recorded
      /\ UNCHANGED unchecked \/ unchecked' = {}
    BY NoTurn DEF Recover, At, git, codex, IInv, StagesFollow
<1>2. CASE Goto("turn")
    <2>1. tree.dir
        BY <1>1 DEF IInv, CommitIsInTree, InTree
    <2> QED
        BY <1>1, <1>2, <2>1, PureImplementIInv DEF Places
<1>3. CASE Fails
    <2>1. TypeOK'
        BY <1>1, <1>3, FailsTyped DEF IInv, TypeOK
    <2> QED
        BY <1>1, <1>3, <2>1, FailsWell
<1>4. CASE /\ Changed = {} /\ branch.log # <<>> /\ Len(branch.log) = 1
           /\ Authorized(Tip(branch.log).files) /\ CandidateReady
    <2>1. \A w \in TipFiles : w.allowed
        BY <1>4 DEF TipFiles, Authorized
    <2> QED
        BY <1>1, <1>4, <2>1, ReadyIInv
<1> QED
    BY <1>2, <1>3, <1>4 DEF Recover

LEMMA ConfirmIInv == IInv /\ Confirm => IInv'
<1> SUFFICES ASSUME IInv, Confirm
             PROVE  IInv'
    OBVIOUS
<1>1. /\ UNCHANGED <<git, image, codex, history, budget>>
      /\ UNCHANGED <<main, branch, tree, image, journal, started, child, strays, unchecked, late,
                     raced, budget>>
      /\ flow.at = "implement" /\ child = 0 /\ step.at = "confirm"
    BY NoTurn DEF Confirm, At, git, codex, history
<1>2. CASE Fails
    BY <1>1, <1>2, FailsTyped, PureTyped, FailsWell DEF IInv
<1>3. CASE Changed = {} /\ Len(branch.log) = 1 /\ CandidateReady
    <2>1. \A w \in TipFiles : w.allowed \/ w \in unchecked'
        BY <1>1, <1>3 DEF IInv, CommitIsChecked, Excused
    <2> QED
        BY <1>1, <1>3, <2>1, ReadyIInv
<1> QED
    BY <1>2, <1>3 DEF Confirm

----------------------------------------------------------------------------
\* implement: the threads.

LEMMA OneMoreLife ==
    ASSUME NEW a \in Nat, NEW c \in Nat, NEW m \in Nat, c <= m
    PROVE  /\ a * (c + 1) = a * c + a
           /\ a * c \in Nat /\ a * (m + 1) \in Nat
           /\ a * c + a <= a * (m + 1)
<1>1. a * (c + 1) = a * c + a /\ a * c \in Nat /\ a * (m + 1) \in Nat
    OBVIOUS
<1>2. PICK d \in Nat : m = c + d
    <2>1. m - c \in Nat /\ m = c + (m - c)
        OBVIOUS
    <2> QED
        BY <2>1
<1>3. a * (m + 1) = a * c + a + a * d /\ a * d \in Nat
    BY <1>2
<1> QED
    BY <1>1, <1>3

\* The threads that were begun in these lives of the process have room in all of them.
LEMMA ThreadsHaveRoom ==
    ASSUME IInv
    PROVE  /\ Attempts * budget.crashes \in Nat /\ budget.crashes \in 0 .. MaxCrashes
           /\ Attempts * (MaxCrashes + 1) \in Nat
           /\ Attempts * (budget.crashes + 1) = Attempts * budget.crashes + Attempts
           /\ Attempts * budget.crashes + Attempts <= Attempts * (MaxCrashes + 1)
           /\ started \in Nat /\ started <= Attempts * (MaxCrashes + 1)
<1>1. budget.crashes \in 0 .. MaxCrashes
    BY DEF IInv, TypeOK
<1>2. started \in Nat /\ (started = 0 \/ started <= Attempts * (MaxCrashes + 1))
    BY DEF IInv, TypeOK, Threads
<1> QED
    BY <1>1, <1>2, BoundsTyped, OneMoreLife

\* A step of the turn, which leaves git and what the run has recorded.
LEMMA TurnIInv ==
    ASSUME IInv, flow.at = "implement", step.at = "turn", flow' = flow,
           UNCHANGED <<git, image, history, budget>>, TypeOK', ThreadsAreCounted',
           step'.at \in {"begun", "turn", "check"},
           step'.at = "check" => journal'[step'.attempt] # 0
    PROVE  IInv'
<1>1. UNCHANGED <<main, branch, tree, image, unchecked, late, raced, budget>>
    BY DEF git, history
<1>2. ThreadsAreNamed'
    <2>1. Recorded' <=> Recorded
        BY DEF Recorded, NoCandidate
    <2> QED
        BY <1>1, <2>1 DEF IInv, ThreadsAreNamed
<1>3. CommitIsInTree'
    <2>1. TipFiles' = TipFiles
        BY <1>1 DEF TipFiles, Tip
    <2> QED
        BY <1>1, <2>1 DEF IInv, CommitIsInTree, Writing, InTree
<1>4. CommitIsChecked'
    BY DEF CommitIsChecked
<1> QED
    BY <1>1, <1>2, <1>3, <1>4, StaysUnrecorded DEF IInv

LEMMA StartTurnIInv == IInv /\ StartTurn => IInv'
<1> SUFFICES ASSUME IInv, StartTurn
             PROVE  IInv'
    OBVIOUS
<1>1. /\ UNCHANGED <<git, image, journal, strays, flow, step, history, budget>>
      /\ UNCHANGED <<main, branch, tree, unchecked, late, raced>>
      /\ flow.at = "implement" /\ step.at = "turn" /\ child = 0
      /\ step.attempt \in 1 .. Attempts
    BY StateTyped DEF StartTurn, At, git, history, IInv
<1>2. started < Attempts * budget.crashes + step.attempt
    BY <1>1 DEF IInv, ThreadsAreCounted
<1>3. /\ journal \in [1 .. Attempts -> Threads \cup {0}]
      /\ started \in Threads \cup {0} /\ strays \subseteq 1 .. started
      /\ journal[step.attempt] <= started /\ journal[step.attempt] \in Nat
    BY <1>1 DEF IInv, TypeOK, Threads, ThreadsAreCounted
<1>4. /\ started' \in {started, started + 1} /\ started' \in Threads \cup {0}
      /\ child' \in 0 .. started' /\ child' # 0
    <2>1. CASE journal[step.attempt] # 0
        BY <1>3, <2>1, ThreadsHaveRoom DEF StartTurn
    <2>2. CASE journal[step.attempt] = 0
        <3>1. started + 1 <= Attempts * (MaxCrashes + 1)
            BY <1>1, <1>2, ThreadsHaveRoom, BoundsTyped
        <3> QED
            BY <2>2, <3>1, ThreadsHaveRoom DEF StartTurn, Threads
    <2> QED
        BY <2>1, <2>2
<1>5. strays \subseteq 1 .. started'
    BY <1>3, <1>4, ThreadsHaveRoom
<1>6. TypeOK'
    BY <1>1, <1>4, <1>5 DEF IInv, TypeOK
<1>7. ThreadsAreCounted'
    <2>1. \A a \in 1 .. Attempts : journal[a] <= started'
        <3> SUFFICES ASSUME NEW a \in 1 .. Attempts
                     PROVE  journal[a] <= started'
            OBVIOUS
        <3>1. journal[a] <= started /\ journal[a] \in Nat
            BY <1>3 DEF IInv, ThreadsAreCounted, Threads
        <3> QED
            BY <3>1, <1>4, ThreadsHaveRoom
    <2>2. started' <= Attempts * budget.crashes + step.attempt
        BY <1>1, <1>2, <1>4, ThreadsHaveRoom
    <2>3. started' <= Attempts * budget.crashes + Attempts
        BY <1>1, <1>4, <2>2, ThreadsHaveRoom, BoundsTyped
    <2> QED
        BY <1>1, <1>4, <2>1, <2>2, <2>3 DEF ThreadsAreCounted
<1> QED
    BY <1>1, <1>6, <1>7, TurnIInv

LEMMA JournaledTyped ==
    ASSUME IInv, child # 0
    PROVE  /\ Journaled \in [1 .. Attempts -> Threads \cup {0}]
           /\ Journaled[step.attempt] = child
           /\ \A a \in 1 .. Attempts : Journaled[a] <= started
<1>1. /\ journal \in [1 .. Attempts -> Threads \cup {0}] /\ started \in Threads \cup {0}
      /\ child \in 1 .. started /\ step.attempt \in 1 .. Attempts
    BY StateTyped DEF IInv, TypeOK
<1>2. child \in Threads \cup {0} /\ child <= started
    BY <1>1, ThreadsHaveRoom DEF Threads
<1>3. \A a \in 1 .. Attempts : journal[a] <= started
    BY DEF IInv, ThreadsAreCounted
<1> QED
    BY <1>1, <1>2, <1>3 DEF Journaled

LEMMA TurnCompletesIInv == IInv /\ TurnCompletes => IInv'
<1> SUFFICES ASSUME IInv, TurnCompletes
             PROVE  IInv'
    OBVIOUS
<1>1. /\ UNCHANGED <<git, image, started, strays, history, budget>>
      /\ UNCHANGED <<main, branch, tree, unchecked, late, raced>>
      /\ flow.at = "implement" /\ step.at = "turn" /\ child # 0
      /\ journal' = Journaled /\ child' = 0
    BY DEF TurnCompletes, At, git, history
<1>2. /\ flow' = flow /\ step' \in Steps
      /\ step'.at = "check" /\ step'.attempt = step.attempt
    BY GotoTyped DEF TurnCompletes, IInv, Places
<1>3. TypeOK'
    BY <1>1, <1>2, JournaledTyped, ThreadsHaveRoom DEF IInv, TypeOK
<1>4. ThreadsAreCounted'
    BY <1>1, <1>2, JournaledTyped DEF IInv, ThreadsAreCounted
<1> QED
    BY <1>1, <1>2, <1>3, <1>4, JournaledTyped, TurnIInv

LEMMA TurnFailsIInv == IInv /\ TurnFails => IInv'
<1> SUFFICES ASSUME IInv, TurnFails
             PROVE  IInv'
    OBVIOUS
<1>1. /\ UNCHANGED <<git, image, started, history, budget>>
      /\ UNCHANGED <<main, branch, tree, unchecked, late, raced>>
      /\ flow.at = "implement" /\ step.at = "turn" /\ child # 0
      /\ journal' \in {journal, Journaled} /\ strays' \in {strays, strays \cup {child}}
      /\ child' = 0
    BY DEF TurnFails, At, git, history
<1>2. /\ journal' \in [1 .. Attempts -> Threads \cup {0}]
      /\ \A a \in 1 .. Attempts : journal'[a] <= started
    BY <1>1, JournaledTyped DEF IInv, TypeOK, ThreadsAreCounted
<1>3. strays' \subseteq 1 .. started /\ child' \in 0 .. started
    BY <1>1, ThreadsHaveRoom DEF IInv, TypeOK
<1>4. CASE Fails
    <2>1. /\ flow' \in Flows /\ flow'.at = "cleanup" /\ flow'.candidate = flow.candidate
          /\ flow'.result = "failed" /\ step' \in Steps /\ step'.at = "begun"
        BY <1>4, FailsTyped DEF IInv
    <2>2. TypeOK'
        BY <1>1, <1>2, <1>3, <2>1 DEF IInv, TypeOK
    <2>3. ~Recorded /\ ~Recorded'
        BY <1>1, <2>1 DEF IInv, StagesFollow, Recorded, NoCandidate
    <2>4. MainFollows'
        BY <1>1, <2>1, SameMain DEF IInv, MainFollows, Written
    <2>5. StagesFollow' /\ ThreadsAreCounted' /\ ThreadsAreNamed'
        BY <1>1, <1>2, <2>1, <2>3
        DEF IInv, StagesFollow, Releasing, ThreadsAreCounted, ThreadsAreNamed
    <2>6. CommitIsInTree' /\ CommitIsChecked' /\ ResetIsLookedAt'
        BY <2>1 DEF CommitIsInTree, CommitIsChecked, ResetIsLookedAt, Writing
    <2>7. OneCandidateCommit' /\ ScopeIsEnforced'
        BY <2>3 DEF OneCandidateCommit, ScopeIsEnforced
    <2>8. ImageIsTheCandidate'
        BY <1>1 DEF IInv, StagesFollow, ImageIsTheCandidate, NoImage
    <2> QED
        BY <2>2, <2>4, <2>5, <2>6, <2>7, <2>8 DEF IInv
<1>5. CASE /\ step.attempt < Attempts
           /\ step' = [Fresh EXCEPT !.attempt = step.attempt + 1] /\ UNCHANGED flow
    <2>1. step' \in Steps /\ step'.at = "begun" /\ step'.attempt = step.attempt + 1
        <3>1. step.attempt + 1 \in 1 .. Attempts
            BY <1>5, StateTyped, BoundsTyped DEF IInv
        <3>2. step' = [Fresh EXCEPT !.attempt = step.attempt + 1]
            BY <1>5
        <3>3. Fresh \in Steps /\ Fresh.at = "begun"
            BY FreshTyped
        <3> QED
            BY <3>1, <3>2, <3>3 DEF Steps
    <2>2. TypeOK'
        BY <1>1, <1>2, <1>3, <1>5, <2>1 DEF IInv, TypeOK
    <2>3. ThreadsAreCounted'
        <3>1. started <= Attempts * budget.crashes + step.attempt
            BY <1>1 DEF IInv, ThreadsAreCounted
        <3>2. started < Attempts * budget.crashes + (step.attempt + 1)
            BY <3>1, ThreadsHaveRoom, StateTyped DEF IInv
        <3>3. started <= Attempts * budget.crashes + (step.attempt + 1)
            BY <3>2, ThreadsHaveRoom, StateTyped DEF IInv
        <3> QED
            BY <1>1, <1>2, <2>1, <3>2, <3>3 DEF IInv, ThreadsAreCounted
    <2> QED
        BY <1>1, <1>5, <2>1, <2>2, <2>3, TurnIInv
<1> QED
    BY <1>4, <1>5 DEF TurnFails, NextAttempt

----------------------------------------------------------------------------
\* implement: the commit.

LEMMA CheckPathsIInv == IInv /\ CheckPaths => IInv'
<1> SUFFICES ASSUME IInv, CheckPaths
             PROVE  IInv'
    OBVIOUS
<1>1. /\ UNCHANGED <<git, image, codex, late, raced, budget>>
      /\ UNCHANGED <<main, branch, tree, image, journal, started, child, strays, late, raced, budget>>
      /\ flow.at = "implement" /\ child = 0 /\ step.at = "check" /\ ~Recorded
      /\ unchecked' = {}
    BY NoTurn DEF CheckPaths, At, git, codex, IInv, StagesFollow
<1>2. CASE Fails
    <2>1. TypeOK'
        BY <1>1, <1>2, FailsTyped DEF IInv, TypeOK
    <2> QED
        BY <1>1, <1>2, <2>1, FailsWell
<1>3. CASE Authorized(Changed) /\ Goto("stage")
    <2>1. tree.dir
        BY <1>1 DEF IInv, CommitIsInTree, InTree
    <2> QED
        BY <1>1, <1>3, <2>1, PureImplementIInv DEF Places, Authorized
<1> QED
    BY <1>2, <1>3 DEF CheckPaths

LEMMA StageIInv == IInv /\ Stage => IInv'
<1> SUFFICES ASSUME IInv, Stage
             PROVE  IInv'
    OBVIOUS
<1>1. /\ UNCHANGED <<main, branch, image, journal, started, child, strays, unchecked, late, raced,
                     budget>>
      /\ flow.at = "implement" /\ child = 0 /\ step.at = "stage"
    BY NoTurn DEF Stage, At, codex, history
<1>2. /\ flow' = flow /\ step' \in Steps
      /\ step'.at = "commit" /\ step'.attempt = step.attempt
    BY GotoTyped DEF Stage, IInv, Places
<1>3. /\ tree' \in Trees /\ tree'.dir = tree.dir
      /\ tree'.files = tree.files /\ tree'.index = tree.files
    BY StateTyped DEF Stage, Trees, IInv
<1>4. TypeOK'
    BY <1>1, <1>2, <1>3 DEF IInv, TypeOK
<1>5. ThreadsAreCounted'
    BY <1>1, <1>2 DEF IInv, ThreadsAreCounted
<1>6. ThreadsAreNamed'
    <2>1. Recorded' <=> Recorded
        BY <1>2 DEF Recorded, NoCandidate
    <2> QED
        BY <1>1, <1>2, <2>1 DEF IInv, ThreadsAreNamed
<1>7. CommitIsInTree'
    <2>1. TipFiles' = TipFiles
        BY <1>1 DEF TipFiles, Tip
    <2> QED
        BY <1>1, <1>2, <1>3, <2>1 DEF IInv, CommitIsInTree, Writing, InTree
<1>8. CommitIsChecked'
    <2>1. branch.log = <<>> => \A w \in tree.files : Excused(w)
        BY <1>1 DEF IInv, CommitIsChecked, Changed, TipFiles
    <2> QED
        BY <1>1, <1>2, <1>3, <2>1 DEF CommitIsChecked, Excused
<1> QED
    BY <1>1, <1>2, <1>4, <1>5, <1>6, <1>7, <1>8, StaysUnrecorded DEF IInv

LEMMA CommitIInv == IInv /\ Commit => IInv'
<1> SUFFICES ASSUME IInv, Commit
             PROVE  IInv'
    OBVIOUS
<1>1. /\ UNCHANGED <<main, tree, image, journal, started, child, strays, unchecked, late, raced,
                     budget>>
      /\ flow.at = "implement" /\ child = 0 /\ step.at = "commit"
    BY NoTurn DEF Commit, At, codex, history
<1>2. /\ flow' = flow /\ step' \in Steps
      /\ step'.at = "confirm" /\ step'.attempt = step.attempt
    BY GotoTyped DEF Commit, IInv, Places
<1> DEFINE made == [files |-> tree.index, thread |-> journal[step.attempt]]
<1>3. /\ made \in Commits /\ made.thread # 0 /\ made.files = tree.index
    BY <1>1, StateTyped DEF Commits, Trees, IInv, TypeOK, ThreadsAreNamed
<1>4. branch' = [branch EXCEPT !.log = Append(@, made)]
    BY DEF Commit
<1> HIDE DEF made
<1>5. branch \in [exists : BOOLEAN, log : Seq(Commits)]
    BY StateTyped DEF IInv
<1>6. /\ branch' \in [exists : BOOLEAN, log : Seq(Commits)]
      /\ branch'.log = Append(branch.log, made)
    <2>1. Append(branch.log, made) \in Seq(Commits)
        BY <1>3, <1>5
    <2>2. branch' = [branch EXCEPT !.log = Append(branch.log, made)]
        BY <1>4
    <2> QED
        BY <1>5, <2>1, <2>2
<1>7. /\ Len(branch'.log) = Len(branch.log) + 1 /\ branch'.log # <<>>
      /\ branch'.log[Len(branch'.log)] = made
      /\ \A i \in DOMAIN branch'.log : i \in DOMAIN branch.log \/ branch'.log[i] = made
      /\ \A i \in DOMAIN branch.log : branch'.log[i] = branch.log[i]
      /\ Len(branch'.log) = 1 => branch.log = <<>>
    BY <1>3, <1>5, <1>6
<1>8. TipFiles' = tree.index
    BY <1>3, <1>7 DEF TipFiles, Tip
<1>9. TypeOK'
    BY <1>1, <1>2, <1>6 DEF IInv, TypeOK
<1>10. ThreadsAreCounted'
    BY <1>1, <1>2 DEF IInv, ThreadsAreCounted
<1>11. ThreadsAreNamed'
    <2>1. Recorded' <=> Recorded
        BY <1>2 DEF Recorded, NoCandidate
    <2> QED
        BY <1>1, <1>2, <1>3, <1>7, <2>1 DEF IInv, ThreadsAreNamed
<1>12. CommitIsInTree'
    BY <1>1, <1>2, <1>8 DEF IInv, CommitIsInTree, Writing, InTree
<1>13. CommitIsChecked'
    BY <1>1, <1>2, <1>7, <1>8 DEF IInv, CommitIsChecked, Excused
<1> QED
    BY <1>1, <1>2, <1>9, <1>10, <1>11, <1>12, <1>13, StaysUnrecorded DEF IInv

----------------------------------------------------------------------------
\* Gates and image build.

LEMMA VerifyIInv == IInv /\ Verify => IInv'
<1> SUFFICES ASSUME IInv, Verify
             PROVE  IInv'
    OBVIOUS
<1>1. /\ UNCHANGED <<main, branch, image, journal, started, child, strays, unchecked, raced, budget>>
      /\ flow.at = "verify" /\ child = 0 /\ Recorded /\ image = NoImage
    BY NoTurn DEF Verify, At, codex, IInv, StagesFollow, Releasing
<1>2. /\ flow' \in Flows /\ step' \in Steps /\ step'.at = "begun"
      /\ flow'.candidate = flow.candidate
      /\ \/ flow'.at = "build"
         \/ flow'.at = "cleanup" /\ flow'.result = "failed"
    <2>1. CASE Fails
        BY <2>1, FailsTyped DEF IInv
    <2>2. CASE Enter("build")
        BY <2>2, EnterTyped DEF IInv, Ats
    <2> QED
        BY <2>1, <2>2 DEF Verify
<1>3. Output \in Writes
    BY DEF Output, Writes
<1>4. /\ tree' \in Trees /\ late' \subseteq Writes
      /\ tree'.dir = tree.dir
      /\ tree.files \subseteq tree'.files /\ late \subseteq late'
      /\ tree'.files \ tree.files \subseteq late'
    <2>1. tree \in Trees /\ late \subseteq Writes
        BY StateTyped DEF IInv, TypeOK
    <2>2. CASE tree' = tree /\ late' = late
        BY <2>1, <2>2
    <2>3. CASE /\ tree' = [tree EXCEPT !.files = @ \cup {Output}]
               /\ late' = late \cup {Output}
        BY <1>3, <2>1, <2>3 DEF Trees
    <2> QED
        BY <2>2, <2>3 DEF Verify
<1>5. TypeOK'
    BY <1>1, <1>2, <1>4 DEF IInv, TypeOK
<1>6. (Recorded' <=> Recorded) /\ Candidate' = Candidate
    BY <1>2 DEF Recorded, NoCandidate, Candidate
<1>7. StagesFollow' /\ ThreadsAreCounted' /\ ThreadsAreNamed'
    BY <1>1, <1>2, <1>6 DEF IInv, StagesFollow, Releasing, ThreadsAreCounted, ThreadsAreNamed, NoImage
<1>8. CommitIsInTree'
    <2>1. TipFiles' = TipFiles
        BY <1>1 DEF TipFiles, Tip
    <2> QED
        BY <1>1, <1>2, <1>4, <2>1 DEF IInv, CommitIsInTree, Writing
<1>9. MainFollows'
    BY <1>1, <1>2, SameMain DEF IInv, MainFollows, Written
<1>10. CommitIsChecked' /\ ResetIsLookedAt'
    BY <1>2 DEF CommitIsChecked, ResetIsLookedAt
<1>11. OneCandidateCommit' /\ ScopeIsEnforced' /\ ImageIsTheCandidate'
    BY <1>1, <1>2, <1>6 DEF IInv, OneCandidateCommit, ScopeIsEnforced, ImageIsTheCandidate, NoImage
<1> QED
    BY <1>5, <1>7, <1>8, <1>9, <1>10, <1>11 DEF IInv

LEMMA BuildImageIInv == IInv /\ BuildImage => IInv'
<1> SUFFICES ASSUME IInv, BuildImage
             PROVE  IInv'
    OBVIOUS
<1>1. /\ UNCHANGED <<git, codex, history, budget>>
      /\ UNCHANGED <<main, branch, tree, journal, started, child, strays, unchecked, late, raced,
                     budget>>
      /\ flow.at = "build" /\ child = 0
    BY NoTurn DEF BuildImage, At, git, codex, history
<1>2. flow' = flow /\ step' \in Steps /\ step'.at = "built"
    BY GotoTyped DEF BuildImage, IInv, Places
<1>3. image' \in [files : SUBSET Writes, label : SUBSET Writes]
    BY StateTyped DEF IInv, TypeOK, BuildImage, Trees, Recordings
<1>4. TypeOK'
    BY <1>1, <1>2, <1>3 DEF IInv, TypeOK
<1>5. ImageIsTheCandidate'
    <2>1. flow.candidate.files \subseteq tree.files /\ tree.files \ flow.candidate.files \subseteq late
        BY <1>1 DEF IInv, CommitIsInTree
    <2>2. CASE image # NoImage
        BY <1>1, <1>2, <2>2 DEF IInv, ImageIsTheCandidate, BuildImage, NoImage
    <2>3. CASE image' = [files |-> tree.files, label |-> flow.candidate.files]
        BY <1>1, <1>2, <2>1, <2>3 DEF ImageIsTheCandidate
    <2> QED
        BY <2>2, <2>3 DEF BuildImage
<1>6. (Recorded' <=> Recorded) /\ Candidate' = Candidate
    BY <1>2 DEF Recorded, NoCandidate, Candidate
<1>7. StagesFollow' /\ ThreadsAreCounted' /\ ThreadsAreNamed'
    BY <1>1, <1>2, <1>6 DEF IInv, StagesFollow, ThreadsAreCounted, ThreadsAreNamed
<1>8. CommitIsInTree'
    <2>1. TipFiles' = TipFiles
        BY <1>1 DEF TipFiles, Tip
    <2> QED
        BY <1>1, <1>2, <2>1 DEF IInv, CommitIsInTree
<1>9. MainFollows'
    BY <1>1, <1>2, SameMain DEF IInv, MainFollows, Written
<1>10. CommitIsChecked' /\ ResetIsLookedAt'
    BY <1>1, <1>2 DEF CommitIsChecked, ResetIsLookedAt
<1>11. OneCandidateCommit' /\ ScopeIsEnforced'
    BY <1>1, <1>2, <1>6 DEF IInv, OneCandidateCommit, ScopeIsEnforced
<1> QED
    BY <1>4, <1>5, <1>7, <1>8, <1>9, <1>10, <1>11 DEF IInv

----------------------------------------------------------------------------
\* Turns that go on, and a process that stops.

LEMMA WriteIInv == IInv /\ Write => IInv'
<1> SUFFICES ASSUME IInv, Write
             PROVE  IInv'
    OBVIOUS
<1>1. PICK t \in (strays \cup {child}) \ {0}, allowed \in BOOLEAN :
         LET w == [thread |-> t, allowed |-> allowed]
         IN  /\ flow.at \in {"implement", "verify", "build"}
             /\ tree.dir /\ w \notin tree.files
             /\ budget.writes < MaxWrites
             /\ tree' = [tree EXCEPT !.files = @ \cup {w}]
             /\ unchecked' = IF At("implement", "stage") THEN unchecked \cup {w}
                             ELSE unchecked
             /\ late' = IF Recorded THEN late \cup {w} ELSE late
             /\ budget' = [budget EXCEPT !.writes = @ + 1]
             /\ UNCHANGED <<main, branch, image, codex, flow, step, raced>>
    BY DEF Write
<1> DEFINE w == [thread |-> t, allowed |-> allowed]
<1>2. /\ UNCHANGED <<main, branch, image, journal, started, child, strays, flow, step, raced>>
      /\ flow.at \in Writing /\ tree.dir /\ budget.writes < MaxWrites
      /\ tree' = [tree EXCEPT !.files = @ \cup {w}]
      /\ budget' = [budget EXCEPT !.writes = @ + 1]
      /\ unchecked' \in {unchecked, unchecked \cup {w}}
      /\ At("implement", "stage") => w \in unchecked'
      /\ late' \in {late, late \cup {w}}
      /\ Recorded => w \in late'
    BY <1>1 DEF codex, Writing
<1>3. w \in Writes
    <2>1. t \in 1 .. started /\ started \in Threads \cup {0}
        BY DEF IInv, TypeOK
    <2>2. t \in Threads
        BY <2>1, ThreadsHaveRoom DEF Threads
    <2> QED
        BY <2>2 DEF Writes
<1> HIDE DEF w
<1>4. /\ tree' \in Trees /\ tree'.dir = tree.dir /\ tree'.index = tree.index
      /\ tree'.files = tree.files \cup {w}
    BY <1>2, <1>3, StateTyped DEF IInv, Trees
<1>5. budget' \in [writes : 0 .. MaxWrites, edits : 0 .. MaxEdits, crashes : 0 .. MaxCrashes]
      /\ budget'.crashes = budget.crashes
    <2>1. budget \in [writes : 0 .. MaxWrites, edits : 0 .. MaxEdits, crashes : 0 .. MaxCrashes]
        BY DEF IInv, TypeOK
    <2>2. budget' = [budget EXCEPT !.writes = budget.writes + 1]
        BY <1>2
    <2>3. budget.writes + 1 \in 0 .. MaxWrites
        BY <1>2, <2>1, BoundsTyped
    <2> QED
        BY <2>1, <2>2, <2>3
<1>6. unchecked' \subseteq Writes /\ late' \subseteq Writes
      /\ unchecked \subseteq unchecked' /\ late \subseteq late'
    BY <1>2, <1>3 DEF IInv, TypeOK
<1>7. TypeOK'
    BY <1>2, <1>4, <1>5, <1>6 DEF IInv, TypeOK
<1>8. (Recorded' <=> Recorded) /\ Candidate' = Candidate
    BY <1>2 DEF Recorded, NoCandidate, Candidate
<1>9. TipFiles' = TipFiles
    BY <1>2 DEF TipFiles, Tip
<1>10. StagesFollow' /\ ThreadsAreNamed'
    BY <1>2, <1>8 DEF IInv, StagesFollow, ThreadsAreNamed, NoImage
<1>11. ThreadsAreCounted'
    BY <1>2, <1>5 DEF IInv, ThreadsAreCounted
<1>12. CommitIsInTree'
    <2>1. flow.at \in {"verify", "build"} => w \in late'
        BY <1>2 DEF IInv, StagesFollow, Releasing
    <2>2. flow.at = "implement" /\ step.at \in {"adding", "branched"} => ~tree.dir
        BY DEF IInv, CommitIsInTree
    <2> QED
        BY <1>2, <1>4, <1>6, <1>9, <2>1, <2>2 DEF IInv, CommitIsInTree
<1>13. CommitIsChecked'
    <2>1. At("implement", "stage") => \A x \in Changed' : Excused(x)'
        <3>1. Changed' \subseteq Changed \cup {w}
            BY <1>4, <1>9 DEF Changed
        <3> QED
            BY <1>2, <1>6, <3>1 DEF IInv, CommitIsChecked, Excused, At
    <2>2. \A x : Excused(x) => Excused(x)'
        BY <1>6 DEF Excused
    <2> QED
        BY <1>2, <1>4, <1>9, <2>1, <2>2 DEF IInv, CommitIsChecked, At
<1>14. MainFollows' /\ ResetIsLookedAt'
    BY <1>2, SameMain DEF IInv, MainFollows, Written, ResetIsLookedAt, Tip
<1>15. OneCandidateCommit' /\ ScopeIsEnforced' /\ ImageIsTheCandidate'
    BY <1>2, <1>6, <1>8 DEF IInv, OneCandidateCommit, ScopeIsEnforced, ImageIsTheCandidate, NoImage
<1> QED
    BY <1>7, <1>10, <1>11, <1>12, <1>13, <1>14, <1>15 DEF IInv

LEMMA CrashIInv == IInv /\ Crash => IInv'
<1> SUFFICES ASSUME IInv, Crash
             PROVE  IInv'
    OBVIOUS
<1>1. /\ UNCHANGED <<main, branch, tree, image, journal, started, flow, unchecked, late, raced>>
      /\ budget.crashes < MaxCrashes /\ flow.at \notin {"ended", "error"}
      /\ budget' = [budget EXCEPT !.crashes = budget.crashes + 1]
      /\ step' = Fresh /\ child' = 0
      /\ strays' \in {strays, strays \cup ({child} \ {0})}
    BY DEF Crash, git, history
<1>2. step' \in Steps /\ step'.at = "begun" /\ step'.attempt = 1
    BY <1>1, FreshTyped
<1>3. /\ budget' \in [writes : 0 .. MaxWrites, edits : 0 .. MaxEdits, crashes : 0 .. MaxCrashes]
      /\ budget'.crashes = budget.crashes + 1
    <2>1. budget \in [writes : 0 .. MaxWrites, edits : 0 .. MaxEdits, crashes : 0 .. MaxCrashes]
        BY DEF IInv, TypeOK
    <2>2. budget.crashes + 1 \in 0 .. MaxCrashes
        BY <1>1, <2>1, BoundsTyped
    <2> QED
        BY <1>1, <2>1, <2>2
<1>4. strays' \subseteq 1 .. started /\ child' \in 0 .. started
    BY <1>1, ThreadsHaveRoom DEF IInv, TypeOK
<1>5. TypeOK'
    BY <1>1, <1>2, <1>3, <1>4 DEF IInv, TypeOK
<1>6. (Recorded' <=> Recorded) /\ Candidate' = Candidate
    BY <1>1 DEF Recorded, NoCandidate, Candidate
<1>7. TipFiles' = TipFiles
    BY <1>1 DEF TipFiles, Tip
<1>8. ThreadsAreCounted'
    <2>1. started <= Attempts * budget.crashes + Attempts
        BY DEF IInv, ThreadsAreCounted
    <2>2. Attempts * budget'.crashes = Attempts * budget.crashes + Attempts
        BY <1>3, ThreadsHaveRoom
    <2>3. /\ started <= Attempts * budget'.crashes + Attempts
          /\ started < Attempts * budget'.crashes + 1 /\ started <= Attempts * budget'.crashes + 1
        BY <2>1, <2>2, ThreadsHaveRoom, BoundsTyped
    <2> QED
        BY <1>1, <1>2, <2>3 DEF IInv, ThreadsAreCounted
<1>9. StagesFollow' /\ ThreadsAreNamed'
    BY <1>1, <1>2, <1>6 DEF IInv, StagesFollow, ThreadsAreNamed, NoImage
<1>10. CommitIsInTree' /\ CommitIsChecked' /\ ResetIsLookedAt'
    BY <1>1, <1>2, <1>7 DEF IInv, CommitIsInTree, InTree, CommitIsChecked, ResetIsLookedAt
<1>11. MainFollows'
    BY <1>1, <1>2, SameMain DEF IInv, MainFollows, Written
<1>12. OneCandidateCommit' /\ ScopeIsEnforced' /\ ImageIsTheCandidate'
    BY <1>1, <1>6 DEF IInv, OneCandidateCommit, ScopeIsEnforced, ImageIsTheCandidate, NoImage
<1> QED
    BY <1>5, <1>8, <1>9, <1>10, <1>11, <1>12 DEF IInv

----------------------------------------------------------------------------
LEMMA NextIInv == IInv /\ [Next]_vars => IInv'
<1> SUFFICES ASSUME IInv, [Next]_vars
             PROVE  IInv'
    OBVIOUS
<1>1. CASE Implement
    BY <1>1, FindIInv, AddIInv, RecoverIInv, StartTurnIInv, TurnCompletesIInv, TurnFailsIInv,
       CheckPathsIInv, StageIInv, CommitIInv, ConfirmIInv
    DEF Implement
<1>2. CASE Release
    BY <1>2, VerifyIInv, BuildImageIInv, CanaryIInv, PromotionIInv, MergeIInv DEF Release
<1>3. CASE Compensate
    BY <1>3, CheckRollbackIInv, ResetIInv, CleanupIInv DEF Compensate
<1>4. CASE Others
    BY <1>4, WriteIInv, PeopleIInv, CrashIInv DEF Others
<1>5. CASE UNCHANGED vars
    <2>1. UNCHANGED <<main, branch, tree, image, journal, started, child, strays, flow, step,
                      unchecked, late, raced, budget>>
        BY <1>5 DEF vars, git, codex, history
    <2>2. (Recorded' <=> Recorded) /\ Candidate' = Candidate /\ TipFiles' = TipFiles
          /\ Changed' = Changed
        BY <2>1 DEF Recorded, NoCandidate, Candidate, TipFiles, Changed, Tip
    <2>3. TypeOK' /\ StagesFollow' /\ ThreadsAreCounted' /\ ThreadsAreNamed' /\ ResetIsLookedAt'
        BY <2>1, <2>2
        DEF IInv, TypeOK, StagesFollow, NoImage, ThreadsAreCounted, ThreadsAreNamed,
            ResetIsLookedAt, Tip
    <2>4. CommitIsInTree' /\ CommitIsChecked' /\ MainFollows'
        BY <2>1, <2>2, SameMain DEF IInv, CommitIsInTree, CommitIsChecked, Excused, MainFollows, Written
    <2>5. OneCandidateCommit' /\ ScopeIsEnforced' /\ ImageIsTheCandidate'
        BY <2>1, <2>2
        DEF IInv, OneCandidateCommit, ScopeIsEnforced, ImageIsTheCandidate, NoImage
    <2> QED
        BY <2>3, <2>4, <2>5 DEF IInv
<1> QED
    BY <1>1, <1>2, <1>3, <1>4, <1>5 DEF Next

LEMMA Invariance == Spec => []IInv
    BY InitIInv, NextIInv, PTL DEF Spec

----------------------------------------------------------------------------
\* The state keeps its shape: no thread is begun beyond one per attempt and life of the process,
\* however turns fail, are given up, or outlive the client that waits for them.
THEOREM Typing == Spec => []TypeOK
<1>1. IInv => TypeOK
    BY DEF IInv
<1> QED
    BY <1>1, Invariance, PTL

\* implement and recover_candidate: while the branch is there, the recorded candidate is the one
\* commit on it, whichever attempt made it and however often the step was run again.
THEOREM OneCandidate == Spec => []OneCandidateCommit
<1>1. IInv => OneCandidateCommit
    BY DEF IInv
<1> QED
    BY <1>1, Invariance, PTL

\* validate_changed_paths: what the proposal does not allow is in a candidate only if it was
\* written after the paths were checked and before git add.
THEOREM ScopeHolds == Spec => []ScopeIsEnforced
<1>1. IInv => ScopeIsEnforced
    BY DEF IInv
<1> QED
    BY <1>1, Invariance, PTL

\* docker build: the image that bears the candidate's label holds the candidate, and beyond it
\* only what came after the commit was read back.
THEOREM ImageHolds == Spec => []ImageIsTheCandidate
<1>1. IInv => ImageIsTheCandidate
    BY DEF IInv
<1> QED
    BY <1>1, Invariance, PTL

\* promote_candidate and restore_baseline: a run that has ended has the candidate on the default
\* branch if the release was kept, and only then.
THEOREM OutcomeOnMain == Spec => []MainTellsTheOutcome
<1>1. IInv => MainTellsTheOutcome
    BY DEF IInv, MainFollows, OnMain, MainTellsTheOutcome
<1> QED
    BY <1>1, Invariance, PTL

----------------------------------------------------------------------------
\* The work of people, counted.

Checkouts == [log : Seq(Commits), dirty : BOOLEAN]

CommitsOf(m) == {i \in DOMAIN m.log : m.log[i] = Theirs}

LEMMA WorkIsCounted ==
    ASSUME NEW m \in Checkouts
    PROVE  /\ IsFiniteSet(CommitsOf(m)) /\ Cardinality(CommitsOf(m)) \in Nat
           /\ Work(m) = Cardinality(CommitsOf(m)) + (IF m.dirty THEN 1 ELSE 0)
<1>1. DOMAIN m.log = 1 .. Len(m.log) /\ Len(m.log) \in Nat
    BY DEF Checkouts
<1>2. IsFiniteSet(1 .. Len(m.log))
    BY <1>1, FS_Interval
<1>3. IsFiniteSet(CommitsOf(m))
    BY <1>1, <1>2, FS_Subset DEF CommitsOf
<1> QED
    BY <1>3, FS_CardinalityType DEF Work, CommitsOf

LEMMA PeopleStep == IInv /\ [Next]_vars => (Work(main') < Work(main) => raced)
<1> SUFFICES ASSUME IInv, [Next]_vars
             PROVE  Work(main') < Work(main) => raced
    OBVIOUS
<1> SUFFICES ASSUME ~raced
             PROVE  Work(main) <= Work(main')
    <2>1. main \in Checkouts /\ main' \in Checkouts
        BY NextIInv DEF IInv, TypeOK, Checkouts
    <2>2. Work(main) \in Nat /\ Work(main') \in Nat
        BY <2>1, WorkIsCounted
    <2> QED
        BY <2>2
<1>1. main \in Checkouts /\ main' \in Checkouts
    BY NextIInv DEF IInv, TypeOK, Checkouts
<1> DEFINE before == CommitsOf(main)
           after == CommitsOf(main')
<1>2. /\ IsFiniteSet(before) /\ Cardinality(before) \in Nat
      /\ IsFiniteSet(after) /\ Cardinality(after) \in Nat
      /\ Work(main) = Cardinality(before) + (IF main.dirty THEN 1 ELSE 0)
      /\ Work(main') = Cardinality(after) + (IF main'.dirty THEN 1 ELSE 0)
    BY <1>1, WorkIsCounted
<1>3. CASE UNCHANGED main
    BY <1>2, <1>3
<1>4. CASE Reset
    <2>1. ~main.dirty /\ Len(main.log) = 1 /\ Tip(main.log).thread # 0
        BY <1>4 DEF IInv, ResetIsLookedAt, Reset, At
    <2>2. DOMAIN main.log = 1 .. 1 /\ main.log[1] # Theirs
        BY <1>1, <2>1 DEF Tip, Theirs, Checkouts
    <2>3. before = {}
        BY <2>2 DEF CommitsOf
    <2> QED
        BY <1>2, <2>1, <2>3, FS_EmptySet
<1>5. CASE PersonEdits
    <2>1. main'.log = main.log /\ ~main.dirty /\ main'.dirty
        BY <1>1, <1>5 DEF PersonEdits, Checkouts
    <2>2. after = before
        BY <2>1 DEF CommitsOf
    <2> QED
        BY <1>2, <2>1, <2>2
<1>6. CASE PersonCommits
    <2>1. main'.log = Append(main.log, Theirs) /\ main.dirty /\ ~main'.dirty
        BY <1>6 DEF PersonCommits
    <2>2. /\ DOMAIN main.log = 1 .. Len(main.log) /\ Len(main.log) \in Nat
          /\ DOMAIN main'.log = 1 .. Len(main.log) + 1
          /\ main'.log[Len(main.log) + 1] = Theirs
          /\ \A i \in DOMAIN main.log : main'.log[i] = main.log[i]
        BY <1>1, <2>1 DEF Checkouts
    <2>3. after = before \cup {Len(main.log) + 1} /\ Len(main.log) + 1 \notin before
        BY <2>2 DEF CommitsOf
    <2>4. Cardinality(after) = Cardinality(before) + 1
        BY <1>2, <2>3, FS_AddElement
    <2> QED
        BY <1>2, <2>1, <2>4
<1>7. CASE Merge /\ main.log = <<>> /\ main' = [main EXCEPT !.log = <<Candidate>>]
    <2>1. before = {}
        BY <1>7 DEF CommitsOf
    <2>2. main'.dirty = main.dirty
        BY <1>1, <1>7 DEF Checkouts
    <2>3. Cardinality(before) = 0
        BY <2>1, FS_EmptySet
    <2> QED
        BY <1>2, <2>2, <2>3
<1> QED
    <2>1. CASE Implement
        BY <1>3, <2>1
        DEF Implement, VerifyBaseline, FindWorktree, AddBranch, AddRegistration, AddFiles, Recover,
            StartTurn, TurnCompletes, TurnFails, CheckPaths, Stage, Commit, Confirm, git
    <2>2. CASE Release
        BY <1>3, <1>7, <2>2
        DEF Release, Verify, BuildImage, ScanImage, Canary, CheckPromotion, Merge,
            ConfirmPromotion, Live, git
    <2>3. CASE Compensate
        BY <1>3, <1>4, <2>3
        DEF Compensate, CheckRollback, ConfirmRollback, RemoveWorktree, DeleteBranch, git
    <2>4. CASE Others
        BY <1>3, <1>5, <1>6, <2>4 DEF Others, Write, Crash, git
    <2>5. CASE UNCHANGED vars
        BY <1>3, <2>5 DEF vars, git
    <2> QED
        BY <2>1, <2>2, <2>3, <2>4, <2>5 DEF Next

\* git merge and git reset: nothing that people did in the checkout is taken away, unless they
\* did it while the rollback was between its check and its reset.
THEOREM PeopleKeep == Spec => PeopleKeepTheirWork
<1>1. IInv /\ [Next]_vars => [Work(main') < Work(main) => raced]_vars
    BY PeopleStep
<1> QED
    BY <1>1, Invariance, PTL DEF Spec, PeopleKeepTheirWork
=============================================================================
