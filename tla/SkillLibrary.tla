---------------------------- MODULE SkillLibrary ----------------------------
(***************************************************************************)
(* The skills on disk and those who write them (skill_review.rs,           *)
(* tools/skill_manage.rs, skills.rs): people with an editor, the tool      *)
(* skill_manage, the review of a finished turn, and the sweep that         *)
(* archives what nobody uses.  There are no locks: a review decides on the *)
(* skills it was shown before its model call, and the sweep moves a skill  *)
(* after looking at it.  The queue of reviews lives in memory.             *)
(***************************************************************************)
EXTENDS Naturals, FiniteSets, SequencesExt

CONSTANTS
    Author,         \* Chats whose turns are reviewed.
    Skill,          \* Names of skills.
    NoSkill,        \* Stands for no skill.
    NoReview,       \* Stands for no review under way.
    MaxAgentSkills, \* MAX_AGENT_CREATED_SKILLS
    MaxQueued       \* Bounds the queue in the model.

ASSUME SkillAssumption ==
    /\ MaxAgentSkills \in Nat /\ MaxQueued \in Nat
    /\ NoSkill \notin Skill

VARIABLES
    \* On disk.
    file,       \* file[s]: who wrote SKILL.md, "patched" if a review altered a person's.
    hidden,     \* Skills disabled or unavailable: discover_skills leaves them out.
    unused,      \* Skills not written or activated for archive_after_days.
    \* In memory.
    unqueued,   \* Chats whose turn is saved and not enqueued yet.
    reviews,    \* SkillReviewQueue
    pending,    \* The worker's set of chats.
    review,     \* The review that waits for its model call.
    sweep,      \* The skill that the sweep has found to be unused.
    \* History.
    unreviewed  \* Chats with a saved turn that no review has looked at.

skillVars == <<file, hidden, unused, unqueued, reviews, pending, review, sweep, unreviewed>>
diskVars == <<file, hidden, unused, sweep>>
queueVars == <<unqueued, reviews, pending, unreviewed>>

Review == [seen : [Skill -> {"none", "human", "agent"}], unseen : SUBSET Skill,
           byHand : SUBSET Skill]
Sweep == [skill : Skill, byHand : BOOLEAN]

SkillTypeOK ==
    /\ file \in [Skill -> {"none", "human", "agent", "patched"}]
    /\ hidden \subseteq Skill /\ unused \subseteq Skill
    /\ unqueued \subseteq Author /\ pending \subseteq Author /\ unreviewed \subseteq Author
    /\ reviews \in Seq(Author)
    /\ review = NoReview \/ review \in Review
    /\ sweep = NoSkill \/ sweep \in Sweep

SkillInit ==
    /\ file = [s \in Skill |-> "none"]
    /\ hidden = {} /\ unused = {}
    /\ unqueued = {} /\ reviews = <<>> /\ pending = {} /\ unreviewed = {}
    /\ review = NoReview /\ sweep = NoSkill

-----------------------------------------------------------------------------
(* Turns and the queue. *)

\* The end of a run: the session is saved, and the review enqueued after it.
SaveTurn(c) ==
    /\ c \notin unqueued
    /\ Len(reviews) + Cardinality(unqueued) < MaxQueued
    /\ unqueued' = unqueued \cup {c}
    /\ unreviewed' = unreviewed \cup {c}
    /\ UNCHANGED <<diskVars, reviews, pending, review>>

\* Mutant of enqueue: a chat that the worker already has is not enqueued again.
EnqueueOnce(c) ==
    /\ c \in unqueued
    /\ unqueued' = unqueued \ {c}
    /\ reviews' = IF review # NoReview THEN reviews ELSE Append(reviews, c)
    /\ UNCHANGED <<diskVars, pending, review, unreviewed>>

enqueue(c) ==
    /\ c \in unqueued
    /\ unqueued' = unqueued \ {c}
    /\ reviews' = Append(reviews, c)
    /\ UNCHANGED <<diskVars, pending, review, unreviewed>>

\* The worker takes all there is, every chat once.
TakeReviews ==
    /\ review = NoReview /\ pending = {} /\ reviews # <<>>
    /\ pending' = ToSet(reviews)
    /\ reviews' = <<>>
    /\ UNCHANGED <<diskVars, unqueued, review, unreviewed>>

-----------------------------------------------------------------------------
(* A review. *)

\* What discover_skills returns.
ShownSkills == [s \in Skill |-> CASE s \in hidden -> "none"
                            [] file[s] = "patched" -> "human"
                            [] OTHER -> file[s]]

CapReached == Cardinality({s \in Skill : ShownSkills[s] = "agent"}) >= MaxAgentSkills

\* The session is loaded.  Few tool calls, a turn that failed, the cap, or an
\* empty trajectory end the review; otherwise the model is asked.
run_skill_review(c) ==
    /\ review = NoReview /\ c \in pending
    /\ pending' = pending \ {c}
    /\ unreviewed' = unreviewed \ {c}
    /\ \/ review' = review
       \/ /\ ~CapReached
          /\ review' = [seen |-> ShownSkills, byHand |-> {},
                        unseen |-> {s \in hidden : file[s] # "none"}]
    /\ UNCHANGED <<diskVars, unqueued, reviews>>

\* SKILL.md is written: by whom, and not unused any more.
Written(s, who) ==
    /\ file' = [file EXCEPT ![s] = who]
    /\ unused' = unused \ {s}
    /\ UNCHANGED hidden

\* Mutant of Mutable: any skill that exists.
MutableIfShown(s) == review.seen[s] # "none"

\* The source check of require_mutable_target.
Mutable(s) == review.seen[s] = "agent"

CreateReviewed(s) == review.seen[s] = "none" /\ Written(s, "agent")

\* The whole file is written anew, whatever is there by now.
EditReviewed(s) == Mutable(s) /\ Written(s, "agent")

\* The search text must be in the file that is there by now.
PatchReviewed(s) ==
    /\ Mutable(s) /\ file[s] # "none"
    /\ Written(s, IF file[s] = "human" THEN "patched" ELSE file[s])

\* No answer, no action, or one that is refused.
NothingReviewed == UNCHANGED <<file, hidden, unused>>

apply_review_action ==
    /\ review # NoReview
    /\ review' = NoReview
    /\ \/ \E s \in Skill : CreateReviewed(s) \/ EditReviewed(s) \/ PatchReviewed(s)
       \/ NothingReviewed
    /\ UNCHANGED <<queueVars, sweep>>

-----------------------------------------------------------------------------
(* The sweep, one skill at a time. *)

should_archive_skill(s) == file[s] = "agent" /\ s \in unused

FindUnused(s) ==
    /\ sweep = NoSkill
    /\ should_archive_skill(s)
    /\ sweep' = [skill |-> s, byHand |-> FALSE]
    /\ UNCHANGED <<file, hidden, unused, queueVars, review>>

\* The directory is renamed, if it is still there.
archive_inactive_agent_skills ==
    /\ sweep # NoSkill
    /\ sweep' = NoSkill
    /\ file' = [file EXCEPT ![sweep.skill] = "none"]
    /\ UNCHANGED <<hidden, unused, queueVars, review>>

-----------------------------------------------------------------------------
(* The tool, the runtime and people. *)

ManageSkill(s) ==
    /\ \/ file[s] = "none" /\ Written(s, "agent")                  \* create
       \/ file[s] # "none" /\ Written(s, "agent")                  \* edit
       \/ file[s] # "none" /\ Written(s, file[s])                  \* patch
       \/ /\ file[s] # "none"                                      \* delete
          /\ file' = [file EXCEPT ![s] = "none"]
          /\ UNCHANGED <<hidden, unused>>
    /\ UNCHANGED <<queueVars, review, sweep>>

\* load_skill_checked refuses a skill that is hidden.
ActivateSkill(s) ==
    /\ file[s] # "none" /\ s \notin hidden
    /\ unused' = unused \ {s}
    /\ UNCHANGED <<file, hidden, queueVars, review, sweep>>

set_enabled(s) ==
    /\ file[s] # "none"
    /\ hidden' = IF s \in hidden THEN hidden \ {s} ELSE hidden \cup {s}
    /\ UNCHANGED <<file, unused, queueVars, review, sweep>>

\* A person writes or replaces the file.
WriteByHand(s) ==
    /\ Written(s, "human")
    /\ review' = IF review = NoReview THEN review
                 ELSE [review EXCEPT !.byHand = @ \cup {s}]
    /\ sweep' = IF sweep = NoSkill \/ sweep.skill # s THEN sweep
                ELSE [sweep EXCEPT !.byHand = TRUE]
    /\ UNCHANGED queueVars

DaysPass(s) ==
    /\ file[s] # "none" /\ s \notin unused
    /\ unused' = unused \cup {s}
    /\ UNCHANGED <<file, hidden, queueVars, review, sweep>>

\* The files stay.  The queue is lost, which its comment calls best effort.
RestartSkills ==
    /\ unqueued' = {} /\ reviews' = <<>> /\ pending' = {} /\ unreviewed' = {}
    /\ review' = NoReview /\ sweep' = NoSkill
    /\ UNCHANGED <<file, hidden, unused>>

-----------------------------------------------------------------------------

SkillNext ==
    \/ \E c \in Author : SaveTurn(c) \/ enqueue(c) \/ run_skill_review(c)
    \/ TakeReviews \/ apply_review_action \/ archive_inactive_agent_skills
    \/ \E s \in Skill :
          \/ FindUnused(s) \/ ManageSkill(s) \/ ActivateSkill(s) \/ set_enabled(s)
          \/ WriteByHand(s) \/ DaysPass(s)
    \/ RestartSkills

SkillSpec == SkillInit /\ [][SkillNext]_skillVars

-----------------------------------------------------------------------------

\* Every turn that was saved is looked at by a review that begins after it was
\* saved, although turns end at any moment of a review and the worker merges
\* the requests of a chat: a chat whose last turn no review has seen is with
\* its run, in the queue or in the worker's set.  (A restart loses them all.)
TurnsAreReviewed == unreviewed \subseteq unqueued \cup ToSet(reviews) \cup pending

\* Neither a review nor the sweep takes a skill from the person who wrote it,
\* unless it was not shown to the review, being disabled or unavailable, or the
\* person wrote it after the review or the sweep had looked.
HumanSkillsKept ==
    [][\A s \in Skill :
          file[s] = "human" /\ file'[s] # "human" =>
             /\ review # NoReview /\ review' = NoReview =>
                   s \in review.byHand \cup review.unseen
             /\ sweep # NoSkill /\ sweep' = NoSkill => sweep.byHand]_skillVars

=============================================================================
