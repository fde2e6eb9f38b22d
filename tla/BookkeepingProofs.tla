-------------------------- MODULE BookkeepingProofs --------------------------
(***************************************************************************)
(* Proofs about the small stores, each for any values of its constants.    *)
(* SessionHub: HubInv is inductive because lock_for counts references and  *)
(* not only holders before it removes a lock. LlmOverrides: what a command *)
(* alone on its channel has found, at each of its steps, is what the file  *)
(* and the maps say, unless a write has undone another's. MemoryStores:    *)
(* a pass of the reflector shows what lies between the cursor it has read, *)
(* or its first look, and the place it moves the cursor to, and no store   *)
(* has more rows than there is room for. SkillLibrary:                     *)
(* a turn that asked for a review is still ahead of a review, and a review *)
(* knows a person's skill for what it is. ChannelInbox: what stops a       *)
(* message, in the guard's table or among the stored rows, is that message *)
(* itself, taken up or still on its way. BookkeepingInv puts these parts   *)
(* and those of ToolLoopProofs and RequestLimitsProofs side by side, as    *)
(* the run does.                                                           *)
(***************************************************************************)
EXTENDS MCBookkeeping, ToolLoopProofs, RequestLimitsProofs

\* The session locks of web.rs start with no entry and no task.
LEMMA HubInit == Init => HubInv
  <1>1. SUFFICES ASSUME Init PROVE HubInv
    OBVIOUS
  <1>2. TypeOK
    BY <1>1 DEF Init, TypeOK
  <1>3. RefsCurrent
    BY <1>1, HubAssumption DEF Init, RefsCurrent, Present
  <1> QED
    BY <1>2, <1>3 DEF HubInv

\* lock_for keeps every lock that a task refers to, and the caller's own.
LEMMA KeptInUse ==
  ASSUME HubInv, NEW s \in Session, NEW t \in Task, ref[t] # NoLock
  PROVE  Kept(s)[session[t]] = ref[t]
  <1>1. session[t] \in Session /\ ref[t] = locks[session[t]]
    BY DEF HubInv, TypeOK, RefsCurrent
  <1>2. ~Removable(session[t])
    BY <1>1 DEF Removable
  <1> QED
    BY <1>1, <1>2 DEF Kept

\* lock_for hands the caller the lock of its session and keeps the others' locks.
LEMMA LockForPreserves ==
  ASSUME HubInv, NEW t \in Task, NEW s \in Session, LockFor(t, s)
  PROVE  HubInv'
  <1> USE HubAssumption
  <1> DEFINE M == Kept(s)
  <1>1. /\ M \in [Session -> Lock \cup {NoLock}]
        /\ \A z \in Session : M[z] # NoLock => M[z] = locks[z]
        /\ M[s] = locks[s]
    BY DEF Kept, HubInv, TypeOK
  <1>2. /\ locks' \in [Session -> Lock \cup {NoLock}]
        /\ locks'[s] \in Lock
        /\ \A z \in Session : z # s => locks'[z] = M[z]
    BY <1>1 DEF LockFor, Present
  <1>3. ref[t] = NoLock /\ ref' = [ref EXCEPT ![t] = locks'[s]]
    BY DEF LockFor, HubInv, RefsCurrent
  <1>4. \/ locks'[s] = M[s] /\ Present(s)
        \/ /\ \A z \in Session : M[z] # locks'[s]
           /\ \A u \in Task : ref[u] # locks'[s]
    BY <1>1 DEF LockFor, HubInv, TypeOK
  <1>5. TypeOK'
    BY <1>2 DEF LockFor, HubInv, TypeOK
  <1>6. \A u \in Task : ref'[u] = NoLock <=> pc'[u] = "out"
    BY <1>2, <1>3 DEF LockFor, HubInv, TypeOK, RefsCurrent
  <1>7. \A u \in Task : ref'[u] # NoLock => ref'[u] = locks'[session'[u]]
    <2> SUFFICES ASSUME NEW u \in Task, ref'[u] # NoLock
                 PROVE  ref'[u] = locks'[session'[u]]
      OBVIOUS
    <2>1. CASE u = t
      BY <2>1, <1>3 DEF LockFor, HubInv, TypeOK
    <2>2. CASE u # t
      <3>1. ref'[u] = ref[u] /\ session'[u] = session[u] /\ ref[u] # NoLock
        BY <2>2, <1>3 DEF LockFor, HubInv, TypeOK
      <3>2. M[session[u]] = ref[u] /\ session[u] \in Session
        BY <3>1, KeptInUse DEF HubInv, TypeOK
      <3>3. CASE session[u] = s
        BY <3>1, <3>2, <3>3, <1>1, <1>4
           DEF LockFor, Present, HubInv, RefsCurrent
      <3> QED
        BY <3>1, <3>2, <3>3, <1>2
    <2> QED
      BY <2>1, <2>2
  <1>8. \A y, z \in Session : locks'[y] # NoLock /\ locks'[y] = locks'[z] => y = z
    <2>1. \A y, z \in Session : M[y] # NoLock /\ M[y] = M[z] => y = z
      BY <1>1 DEF HubInv, RefsCurrent, Present
    <2> QED
      BY <2>1, <1>2, <1>4
  <1>9. \A u \in Task, l \in Lock : holder'[l] = u <=> pc'[u] = "running" /\ ref'[u] = l
    BY <1>3 DEF LockFor, HubInv, TypeOK, RefsCurrent
  <1> QED
    BY <1>5, <1>6, <1>7, <1>8, <1>9 DEF HubInv, RefsCurrent, Present

\* Locking a session lock keeps the references current.
LEMMA EnterPreserves ==
  ASSUME HubInv, NEW t \in Task, Enter(t)
  PROVE  HubInv'
  <1> USE HubAssumption
  <1>1. TypeOK'
    BY DEF Enter, HubInv, TypeOK
  <1>2. ref[t] \in Lock
    BY DEF Enter, HubInv, TypeOK, RefsCurrent
  <1>3. \A u \in Task : ref'[u] = NoLock <=> pc'[u] = "out"
    BY DEF Enter, HubInv, TypeOK, RefsCurrent
  <1>4. \A u \in Task, l \in Lock : holder'[l] = u <=> pc'[u] = "running" /\ ref'[u] = l
    BY <1>2 DEF Enter, HubInv, TypeOK, RefsCurrent
  <1> QED
    BY <1>1, <1>3, <1>4 DEF Enter, HubInv, RefsCurrent, Present

\* So does releasing it, ...
LEMMA LeavePreserves ==
  ASSUME HubInv, NEW t \in Task, Leave(t)
  PROVE  HubInv'
  <1> USE HubAssumption
  <1>1. TypeOK'
    BY DEF Leave, HubInv, TypeOK
  <1>2. ref[t] \in Lock
    BY DEF Leave, HubInv, TypeOK, RefsCurrent
  <1>3. \A u \in Task : ref'[u] = NoLock <=> pc'[u] = "out"
    BY DEF Leave, HubInv, TypeOK, RefsCurrent
  <1>4. \A u \in Task : ref'[u] # NoLock => ref'[u] = locks'[session'[u]]
    BY DEF Leave, HubInv, TypeOK, RefsCurrent
  <1>5. \A u \in Task, l \in Lock : holder'[l] = u <=> pc'[u] = "running" /\ ref'[u] = l
    BY <1>2 DEF Leave, HubInv, TypeOK, RefsCurrent
  <1> QED
    BY <1>1, <1>3, <1>4, <1>5 DEF Leave, HubInv, RefsCurrent, Present

\* ... and the passing of time, after which locks count as idle.
LEMMA AgePreserves ==
  ASSUME HubInv, NEW s \in Session, Age(s)
  PROVE  HubInv'
  BY DEF Age, HubInv, TypeOK, RefsCurrent, Present

\* Every step of the hub keeps its invariant.
LEMMA HubStep ==
  ASSUME HubInv, [Next]_vars
  PROVE  HubInv'
  <1>1. CASE UNCHANGED vars
    BY <1>1 DEF vars, HubInv, TypeOK, RefsCurrent, Present
  <1>2. CASE Next
    BY <1>2, LockForPreserves, EnterPreserves, LeavePreserves, AgePreserves DEF Next
  <1> QED
    BY <1>1, <1>2

\* Every reference to a session lock is to the lock the hub has for that
\* session, and a lock's holder is the running task that refers to it.
THEOREM HubInvariant == Spec => []HubInv
  <1>1. HubInv /\ [Next]_vars => HubInv'
    BY HubStep
  <1> QED
    BY HubInit, <1>1, PTL DEF Spec

\* A web session has one run at a time, whatever lock_for has cleaned up.
THEOREM OneRun == Spec => []OneRunPerSession
  <1>1. HubInv => OneRunPerSession
    <2> SUFFICES ASSUME HubInv,
                        NEW t \in Task, NEW u \in Task,
                        pc[t] = "running", pc[u] = "running", session[t] = session[u]
                 PROVE  t = u
      BY DEF OneRunPerSession
    <2>1. ref[t] = ref[u] /\ ref[t] \in Lock
      BY DEF HubInv, TypeOK, RefsCurrent
    <2>2. holder[ref[t]] = t /\ holder[ref[t]] = u
      BY <2>1 DEF HubInv, RefsCurrent
    <2> QED
      BY <2>2
  <1> QED
    BY HubInvariant, <1>1, PTL

-----------------------------------------------------------------------------
(* Providers and models of channels: any number of channels and of commands. *)

USE OverridesAssumption

Works(c, r) == step[c] # "idle" /\ asked[c].section = r

\* What a command has found and done so far, when it is alone on its channel.
InStep(c, r) ==
    /\ step[c] \in {"load", "open", "write"} => live[r] = onFile[r]
    /\ step[c] \in {"open", "write"} => loaded[c] = onFile[r]
    /\ asked[c].kind = "/model" /\ asked[c].value # Unset =>
          asked[c].value \in ModelsOf[ProviderOf(live[r])]
    /\ step[c] \in {"setProvider", "setModel"} =>
          IF asked[c].kind = "/provider"
          THEN /\ onFile[r] = [provider |-> asked[c].value, model |-> Unset]
               /\ step[c] = "setModel" => live[r].provider = asked[c].value
          ELSE onFile[r] = [live[r] EXCEPT !.model = asked[c].value]

\* A command has something to do, and knows the file as it is, unless another
\* has written it since.
AskedInv ==
    \A c \in Command :
        /\ step[c] # "idle" => asked[c] \in Change
        /\ step[c] = "setProvider" => asked[c].kind = "/provider"
        /\ step[c] = "setModel" => asked[c].kind # "web"
        /\ step[c] = "write" /\ c \notin outdated => opened[c] = onFile

\* A channel whose changes come one at a time: its file is sound at any moment,
\* and it is what the maps say but for what its one command has yet to do.
SectionOK(r) ==
    /\ Fits(onFile[r])
    /\ \A c, d \in Command : Works(c, r) /\ Works(d, r) => c = d
    /\ ~UnderWay(r) => live[r] = onFile[r]
    /\ \A c \in Command : Works(c, r) => InStep(c, r)

OverridesInv ==
    /\ OverridesTypeOK /\ AskedInv
    /\ ~torn => \A r \in Section \ (contested \cup edited) : SectionOK(r)

\* A command that does not work on a channel leaves it as it is.
LEMMA OtherSection ==
  ASSUME NEW c \in Command, NEW r \in Section, SectionOK(r), ~Works(c, r), ~Works(c, r)',
         onFile'[r] = onFile[r], live'[r] = live[r],
         \A d \in Command \ {c} : step'[d] = step[d] /\ asked'[d] = asked[d] /\ loaded'[d] = loaded[d]
  PROVE  SectionOK(r)'
  <1>1. \A d \in Command : Works(d, r)' <=> Works(d, r)
    BY DEF Works
  <1>2. UnderWay(r)' <=> UnderWay(r)
    BY <1>1 DEF UnderWay, Works
  <1>3. \A d \in Command : Works(d, r)' => InStep(d, r)'
    <2> SUFFICES ASSUME NEW d \in Command, Works(d, r)' PROVE InStep(d, r)'
      OBVIOUS
    <2>1. d # c /\ InStep(d, r)
      BY <1>1 DEF SectionOK
    <2> QED
      BY <2>1 DEF InStep, ProviderOf
  <1>4. Fits(onFile[r])'
    BY DEF SectionOK, Fits, ProviderOf
  <1> QED
    BY <1>1, <1>2, <1>3, <1>4 DEF SectionOK

\* On a channel where no other command is at work, what one does decides.
LEMMA OwnSection ==
  ASSUME NEW c \in Command, NEW r \in Section, \A d \in Command \ {c} : ~Works(d, r),
         \A d \in Command \ {c} : step'[d] = step[d] /\ asked'[d] = asked[d],
         Fits(onFile[r])',
         Works(c, r)' => InStep(c, r)',
         ~Works(c, r)' => live'[r] = onFile'[r]
  PROVE  SectionOK(r)'
  <1>1. \A d \in Command \ {c} : ~Works(d, r)'
    BY DEF Works
  <1>2. UnderWay(r)' <=> Works(c, r)'
    BY <1>1 DEF UnderWay, Works
  <1> QED
    BY <1>1, <1>2 DEF SectionOK

\* The maps are filled from the file.
LEMMA OverridesInitially == OverridesInit => OverridesInv
  <1> SUFFICES ASSUME OverridesInit PROVE OverridesInv
    OBVIOUS
  <1>1. OverridesTypeOK
    BY DEF OverridesInit, OverridesTypeOK, Choice, None
  <1>2. AskedInv
    BY DEF OverridesInit, AskedInv
  <1>3. \A r \in Section : SectionOK(r)
    BY DEF OverridesInit, SectionOK, Works, UnderWay
  <1> QED
    BY <1>1, <1>2, <1>3 DEF OverridesInv

\* What a change asks for.
LEMMA Changes ==
  ASSUME NEW x \in Change
  PROVE  /\ x.section \in Section /\ x.kind \in {"/provider", "/model", "web"}
         /\ x.kind = "/provider" => x.value \in Provider \cup {Unset}
         /\ x.kind # "/provider" => x.value \in Model \cup {Unset}
  BY DEF Change

\* A command that begins on a free channel finds the two in agreement; on another
\* it makes the channel contested.
LEMMA ChangeBegins ==
  ASSUME OverridesInv, NEW c \in Command, NEW change \in Change, BeginCommand(c, change)
  PROVE  OverridesInv'
  <1> USE DEF OverridesInv, BeginCommand
  <1> DEFINE s == change.section
  <1>0. s \in Section /\ UNCHANGED <<onFile, live, loaded, opened, outdated, edited, torn>>
    BY Changes
  <1>1. /\ step[c] = "idle" /\ step'[c] = "load" /\ asked'[c] = change
        /\ \A d \in Command \ {c} : step'[d] = step[d] /\ asked'[d] = asked[d] /\ loaded'[d] = loaded[d]
    BY DEF OverridesTypeOK
  <1>2. OverridesTypeOK'
    BY <1>0 DEF OverridesTypeOK
  <1>3. AskedInv'
    BY <1>0, <1>1 DEF AskedInv
  <1>4. ASSUME NEW r \in Section \ (contested' \cup edited'), ~torn' PROVE SectionOK(r)'
    <2>1. SectionOK(r)
      BY <1>4
    <2>2. CASE r # s
      BY <1>0, <1>1, <2>1, <2>2, OtherSection DEF Works
    <2>3. CASE r = s
      <3>1. ~UnderWay(r)
        BY <1>4, <2>3
      <3>2. \A d \in Command : ~Works(d, r)
        BY <3>1 DEF UnderWay, Works
      <3>3. live'[r] = onFile'[r] /\ Fits(onFile[r])'
        BY <1>0, <2>1, <3>1 DEF SectionOK, Fits, ProviderOf
      <3>4. Works(c, r)' => InStep(c, r)'
        BY <1>0, <1>1, <2>3, <3>3 DEF InStep, Allowed, ProviderOf
      <3> QED
        BY <1>1, <3>2, <3>3, <3>4, OwnSection
    <2> QED
      BY <2>2, <2>3
  <1> QED
    BY <1>2, <1>3, <1>4

\* What a command that is under way does is its channel's business only.
LEMMA StepFacts ==
  ASSUME OverridesInv, NEW c \in Command, step[c] # "idle"
  PROVE  /\ asked[c] \in Change /\ asked[c].section \in Section
         /\ asked[c].kind \in {"/provider", "/model", "web"}
         /\ asked[c].kind = "/provider" => asked[c].value \in Provider \cup {Unset}
         /\ asked[c].kind # "/provider" => asked[c].value \in Model \cup {Unset}
         /\ loaded[c] \in Choice
         /\ \A r \in Section : onFile[r] \in Choice /\ live[r] \in Choice
         /\ \A r \in Section : SectionOK(r) /\ asked[c].section = r =>
               InStep(c, r) /\ \A d \in Command \ {c} : ~Works(d, r)
  <1>1. asked[c] \in Change
    BY DEF OverridesInv, AskedInv
  <1>2. \A r \in Section : SectionOK(r) /\ asked[c].section = r =>
           InStep(c, r) /\ \A d \in Command \ {c} : ~Works(d, r)
    BY DEF SectionOK, Works
  <1> QED
    BY <1>1, <1>2, Changes DEF OverridesInv, OverridesTypeOK

\* Config::load: the copy is what the file says.
LEMMA LoadPreserves ==
  ASSUME OverridesInv, NEW c \in Command, Load(c)
  PROVE  OverridesInv'
  <1> DEFINE s == asked[c].section
  <1>0. s \in Section /\ UNCHANGED <<onFile, live, asked, opened, outdated, contested, edited, torn>>
        /\ step[c] = "load" /\ onFile[s] \in Choice
    BY StepFacts DEF Load, historyVars
  <1>1. /\ step'[c] = "open" /\ loaded'[c] = onFile[s]
        /\ \A d \in Command \ {c} : step'[d] = step[d] /\ asked'[d] = asked[d] /\ loaded'[d] = loaded[d]
    BY DEF Load, OverridesInv, OverridesTypeOK
  <1>2. OverridesTypeOK'
    BY <1>0 DEF OverridesInv, OverridesTypeOK, Load
  <1>3. AskedInv'
    BY <1>0, <1>1 DEF OverridesInv, AskedInv
  <1>4. ASSUME NEW r \in Section \ (contested \cup edited), ~torn PROVE SectionOK(r)'
    <2>1. SectionOK(r)
      BY <1>4 DEF OverridesInv
    <2>2. CASE r # s
      BY <1>0, <1>1, <2>1, <2>2, OtherSection DEF Works
    <2>3. CASE r = s
      <3>1. InStep(c, r) /\ \A d \in Command \ {c} : ~Works(d, r)
        BY <1>0, <2>1, <2>3, StepFacts
      <3>2. Fits(onFile[r])'
        BY <1>0, <2>1 DEF SectionOK, Fits, ProviderOf
      <3>3. InStep(c, r)' /\ Works(c, r)'
        BY <1>0, <1>1, <2>3, <3>1 DEF InStep, ProviderOf, Works
      <3> QED
        BY <1>1, <3>1, <3>2, <3>3, OwnSection
    <2> QED
      BY <2>2, <2>3
  <1> QED
    BY <1>0, <1>2, <1>3, <1>4 DEF OverridesInv

\* What is in a channel's section, once the command's change is there.
LEMMA AfterChange ==
  ASSUME OverridesInv, NEW c \in Command, step[c] # "idle"
  PROVE  /\ After(c) \in Choice
         /\ asked[c].kind = "/provider" => After(c) = [provider |-> asked[c].value, model |-> Unset]
         /\ asked[c].kind # "/provider" => After(c) = [loaded[c] EXCEPT !.model = asked[c].value]
         /\ Changed(c) = {} => After(c) = loaded[c]
         /\ [f \in {"provider", "model"} |-> IF f \in Changed(c) THEN After(c)[f] ELSE loaded[c][f]]
               = After(c)
  <1>1. /\ asked[c].kind = "/provider" => asked[c].value \in Provider \cup {Unset}
        /\ asked[c].kind # "/provider" => asked[c].value \in Model \cup {Unset}
        /\ loaded[c] \in Choice
    BY StepFacts
  <1>2. After(c) \in Choice
    BY <1>1 DEF After, Choice
  <1>3. Changed(c) = {} => After(c) = loaded[c]
    BY <1>1, <1>2 DEF Changed, Choice
  <1>4. [f \in {"provider", "model"} |-> IF f \in Changed(c) THEN After(c)[f] ELSE loaded[c][f]]
               = After(c)
    BY <1>1, <1>2 DEF Changed, Choice
  <1> QED
    BY <1>2, <1>3, <1>4 DEF After

\* Where a command goes after the file.
LEMMA FileDone ==
  ASSUME OverridesInv, NEW c \in Command, step[c] # "idle"
  PROVE  AfterFile(c) = IF asked[c].kind = "/provider" THEN "setProvider"
                        ELSE IF asked[c].kind = "/model" THEN "setModel" ELSE "idle"
  BY StepFacts DEF AfterFile

\* The file is read again, or found to need no change.
LEMMA OpenPreserves ==
  ASSUME OverridesInv, NEW c \in Command, Open(c)
  PROVE  OverridesInv'
  <1> DEFINE s == asked[c].section
             next == IF Changed(c) = {} THEN AfterFile(c) ELSE "write"
  <1>0. /\ step[c] = "open" /\ s \in Section
        /\ UNCHANGED <<onFile, live, asked, loaded, contested, edited, torn>>
    BY StepFacts DEF Open
  <1>1. /\ next \in {"idle", "write", "setProvider", "setModel"}
        /\ next = "setProvider" => asked[c].kind = "/provider"
        /\ next = "setModel" => asked[c].kind = "/model"
        /\ next = "idle" => asked[c].kind = "web"
    BY <1>0, FileDone, StepFacts
  <1>2. /\ step' = [step EXCEPT ![c] = next]
        /\ next # "write" => UNCHANGED <<opened, outdated>>
        /\ next = "write" => opened' = [opened EXCEPT ![c] = onFile] /\ outdated' = outdated \ {c}
    BY <1>0, FileDone DEF Open
  <1>3. next # "write" => After(c) = loaded[c]
    BY <1>0, AfterChange
  <1> HIDE DEF next
  <1>4. /\ step'[c] = next
        /\ \A d \in Command \ {c} : step'[d] = step[d] /\ asked'[d] = asked[d] /\ loaded'[d] = loaded[d]
    BY <1>0, <1>2 DEF OverridesInv, OverridesTypeOK
  <1>5. OverridesTypeOK'
    <2>1. step' \in [Command -> {"idle", "load", "open", "write", "setProvider", "setModel"}]
      BY <1>1, <1>2 DEF OverridesInv, OverridesTypeOK
    <2>2. opened' \in [Command -> [Section -> Choice]]
      BY <1>1, <1>2 DEF OverridesInv, OverridesTypeOK
    <2>3. outdated' \subseteq Command
      BY <1>2 DEF OverridesInv, OverridesTypeOK
    <2> QED
      BY <1>0, <2>1, <2>2, <2>3 DEF OverridesInv, OverridesTypeOK
  <1>6. AskedInv'
    <2> SUFFICES ASSUME NEW d \in Command
                 PROVE  /\ step'[d] # "idle" => asked[d] \in Change
                        /\ step'[d] = "setProvider" => asked[d].kind = "/provider"
                        /\ step'[d] = "setModel" => asked[d].kind # "web"
                        /\ step'[d] = "write" /\ d \notin outdated' => opened'[d] = onFile
      BY <1>0 DEF AskedInv
    <2>1. CASE d = c
      BY <1>0, <1>1, <1>2, <1>4, <2>1 DEF OverridesInv, OverridesTypeOK, AskedInv
    <2>2. CASE d # c
      BY <1>2, <1>4, <2>2 DEF OverridesInv, OverridesTypeOK, AskedInv
    <2> QED
      BY <2>1, <2>2
  <1>7. ASSUME NEW r \in Section \ (contested \cup edited), ~torn PROVE SectionOK(r)'
    <2>1. SectionOK(r)
      BY <1>7 DEF OverridesInv
    <2>2. CASE r # s
      BY <1>0, <1>4, <2>1, <2>2, OtherSection DEF Works
    <2>3. CASE r = s
      <3>1. InStep(c, r) /\ \A d \in Command \ {c} : ~Works(d, r)
        BY <1>0, <2>1, <2>3, StepFacts
      <3>2. Fits(onFile[r])' /\ live[r] = onFile[r] /\ loaded[c] = onFile[r]
        BY <1>0, <2>1, <3>1 DEF SectionOK, Fits, ProviderOf, InStep
      <3>3. next \in {"setProvider", "setModel"} =>
               IF asked[c].kind = "/provider"
               THEN next = "setProvider" /\ onFile[r] = [provider |-> asked[c].value, model |-> Unset]
               ELSE onFile[r] = [live[r] EXCEPT !.model = asked[c].value]
        BY <1>0, <1>1, <1>3, <3>2, AfterChange
      <3>4. InStep(c, r)'
        BY <1>0, <1>1, <1>4, <3>1, <3>2, <3>3 DEF InStep, ProviderOf
      <3> QED
        BY <1>0, <1>4, <3>1, <3>2, <3>4, OwnSection
    <2> QED
      BY <2>2, <2>3
  <1> QED
    BY <1>0, <1>5, <1>6, <1>7 DEF OverridesInv

\* A write whose file was read before another's write is remembered; any other
\* changes the command's own section and nothing else.
LEMMA WritePreserves ==
  ASSUME OverridesInv, NEW c \in Command, Write(c)
  PROVE  OverridesInv'
  <1> DEFINE s == asked[c].section
             next == AfterFile(c)
             new == [f \in {"provider", "model"} |->
                       IF f \in Changed(c) THEN After(c)[f] ELSE opened[c][s][f]]
  <1>0. /\ step[c] = "write" /\ s \in Section
        /\ UNCHANGED <<live, asked, loaded, opened, contested>>
    BY StepFacts DEF Write
  <1>1. /\ next \in {"idle", "setProvider", "setModel"}
        /\ next = "setProvider" <=> asked[c].kind = "/provider"
        /\ next = "setModel" <=> asked[c].kind = "/model"
        /\ next = "idle" <=> asked[c].kind = "web"
    BY <1>0, FileDone, StepFacts
  <1>2. /\ step'[c] = next /\ step' = [step EXCEPT ![c] = next]
        /\ \A d \in Command \ {c} : step'[d] = step[d] /\ asked'[d] = asked[d] /\ loaded'[d] = loaded[d]
    BY <1>0 DEF OverridesInv, OverridesTypeOK, Write
  <1>3. /\ torn' = (torn \/ c \in outdated)
        /\ outdated' = {d \in Command \ {c} : step[d] = "write"}
        /\ edited' = IF asked[c].kind = "web" THEN edited \cup {s} ELSE edited
        /\ onFile' = [opened[c] EXCEPT ![s] = new]
    BY DEF Write, Rendered
  <1>4. opened[c] \in [Section -> Choice] /\ opened[c][s] \in Choice /\ new \in Choice
    <2>1. opened[c] \in [Section -> Choice] /\ opened[c][s] \in Choice
      BY <1>0 DEF OverridesInv, OverridesTypeOK
    <2>2. After(c) \in Choice
      BY <1>0, AfterChange
    <2> QED
      BY <2>1, <2>2 DEF Choice
  <1> HIDE DEF next, new
  <1>5. OverridesTypeOK'
    <2>1. step' \in [Command -> {"idle", "load", "open", "write", "setProvider", "setModel"}]
      BY <1>1, <1>2 DEF OverridesInv, OverridesTypeOK
    <2>2. onFile' \in [Section -> Choice]
      BY <1>0, <1>3, <1>4
    <2>3. outdated' \subseteq Command /\ edited' \subseteq Section /\ torn' \in BOOLEAN
      BY <1>0, <1>3 DEF OverridesInv, OverridesTypeOK
    <2> QED
      BY <1>0, <2>1, <2>2, <2>3 DEF OverridesInv, OverridesTypeOK
  <1>6. AskedInv'
    <2> SUFFICES ASSUME NEW d \in Command
                 PROVE  /\ step'[d] # "idle" => asked[d] \in Change
                        /\ step'[d] = "setProvider" => asked[d].kind = "/provider"
                        /\ step'[d] = "setModel" => asked[d].kind # "web"
                        /\ step'[d] = "write" /\ d \notin outdated' => opened[d] = onFile'
      BY <1>0 DEF AskedInv
    <2>1. CASE d = c
      BY <1>0, <1>1, <1>2, <2>1 DEF OverridesInv, AskedInv
    <2>2. CASE d # c
      BY <1>2, <1>3, <2>2 DEF OverridesInv, AskedInv
    <2> QED
      BY <2>1, <2>2
  <1>7. ASSUME NEW r \in Section \ (contested \cup edited'), ~torn' PROVE SectionOK(r)'
    <2>0. ~torn /\ c \notin outdated /\ r \in Section \ (contested \cup edited)
      BY <1>3, <1>7
    <2>1. SectionOK(r) /\ opened[c] = onFile
      BY <1>0, <2>0 DEF OverridesInv, AskedInv
    <2>2. CASE r # s
      <3>1. onFile'[r] = onFile[r]
        BY <1>3, <1>4, <2>1, <2>2
      <3> QED
        BY <1>0, <1>2, <2>1, <2>2, <3>1, OtherSection DEF Works
    <2>3. CASE r = s
      <3>1. InStep(c, r) /\ \A d \in Command \ {c} : ~Works(d, r)
        BY <1>0, <2>1, <2>3, StepFacts
      <3>2. asked[c].kind # "web"
        BY <1>3, <1>7, <2>3
      <3>3. live[r] = onFile[r] /\ loaded[c] = onFile[r] /\ onFile[r] \in Choice
        BY <1>0, <2>3, <3>1, StepFacts DEF InStep
      <3>4. new = After(c)
        BY <1>0, <2>1, <2>3, <3>3, AfterChange DEF new
      <3>5. onFile'[r] = After(c)
        BY <1>3, <1>4, <2>3, <3>4
      <3>6. IF asked[c].kind = "/provider"
            THEN onFile'[r] = [provider |-> asked[c].value, model |-> Unset]
            ELSE onFile'[r] = [live[r] EXCEPT !.model = asked[c].value]
        BY <1>0, <3>3, <3>5, AfterChange
      <3>7. Fits(onFile[r])'
        <4>1. CASE asked[c].kind = "/provider"
          BY <3>6, <4>1 DEF Fits
        <4>2. CASE asked[c].kind = "/model"
          <5>1. onFile'[r].model = asked[c].value /\ onFile'[r].provider = live[r].provider
            BY <3>3, <3>6, <4>2 DEF Choice
          <5> QED
            BY <3>1, <4>2, <5>1 DEF Fits, InStep, ProviderOf
        <4> QED
          BY <1>0, <3>2, <4>1, <4>2, StepFacts
      <3>8. InStep(c, r)' /\ Works(c, r)'
        BY <1>0, <1>1, <1>2, <2>3, <3>1, <3>2, <3>6 DEF InStep, ProviderOf, Works
      <3> QED
        BY <1>0, <1>2, <3>1, <3>7, <3>8, OwnSection
    <2> QED
      BY <2>2, <2>3
  <1> QED
    BY <1>0, <1>5, <1>6, <1>7 DEF OverridesInv

\* A command that fails before its write has changed nothing.
LEMMA PersistFailsPreserves ==
  ASSUME OverridesInv, NEW c \in Command, PersistFails(c)
  PROVE  OverridesInv'
  <1> DEFINE s == asked[c].section
  <1>0. /\ step[c] \in {"load", "open", "write"} /\ s \in Section /\ step[c] # "idle"
        /\ UNCHANGED <<onFile, live, asked, loaded, opened, outdated, contested, edited, torn>>
    BY StepFacts DEF PersistFails, historyVars
  <1>1. /\ step'[c] = "idle"
        /\ \A d \in Command \ {c} : step'[d] = step[d] /\ asked'[d] = asked[d] /\ loaded'[d] = loaded[d]
    BY <1>0 DEF OverridesInv, OverridesTypeOK, PersistFails
  <1>2. OverridesTypeOK'
    BY <1>0 DEF OverridesInv, OverridesTypeOK, PersistFails
  <1>3. AskedInv'
    BY <1>0, <1>1 DEF OverridesInv, AskedInv
  <1>4. ASSUME NEW r \in Section \ (contested \cup edited), ~torn PROVE SectionOK(r)'
    <2>1. SectionOK(r)
      BY <1>4 DEF OverridesInv
    <2>2. CASE r # s
      BY <1>0, <1>1, <2>1, <2>2, OtherSection DEF Works
    <2>3. CASE r = s
      <3>1. InStep(c, r) /\ \A d \in Command \ {c} : ~Works(d, r)
        BY <1>0, <2>1, <2>3, StepFacts
      <3>2. Fits(onFile[r])' /\ live[r] = onFile[r]
        BY <1>0, <2>1, <3>1 DEF SectionOK, Fits, ProviderOf, InStep
      <3> QED
        BY <1>0, <1>1, <3>1, <3>2, OwnSection DEF Works
    <2> QED
      BY <2>2, <2>3
  <1> QED
    BY <1>0, <1>2, <1>3, <1>4 DEF OverridesInv

\* The provider of the runs follows the file, ...
LEMMA SetProviderPreserves ==
  ASSUME OverridesInv, NEW c \in Command, SetProvider(c)
  PROVE  OverridesInv'
  <1> DEFINE s == asked[c].section
             new == [live[s] EXCEPT !.provider = asked[c].value]
  <1>0. /\ step[c] = "setProvider" /\ s \in Section /\ live[s] \in Choice
        /\ asked[c].kind = "/provider" /\ asked[c].value \in Provider \cup {Unset}
        /\ UNCHANGED <<onFile, asked, loaded, opened, outdated, contested, edited, torn>>
    BY StepFacts DEF SetProvider, historyVars, OverridesInv, AskedInv
  <1>1. /\ step'[c] = "setModel"
        /\ \A d \in Command \ {c} : step'[d] = step[d] /\ asked'[d] = asked[d] /\ loaded'[d] = loaded[d]
    BY <1>0 DEF OverridesInv, OverridesTypeOK, SetProvider
  <1>2. live' = [live EXCEPT ![s] = new] /\ new \in Choice /\ new.provider = asked[c].value
    BY <1>0 DEF SetProvider, Choice
  <1> HIDE DEF new
  <1>3. /\ live' \in [Section -> Choice] /\ live'[s] = new
        /\ \A r \in Section : r # s => live'[r] = live[r]
    BY <1>0, <1>2 DEF OverridesInv, OverridesTypeOK
  <1>4. OverridesTypeOK'
    BY <1>0, <1>3 DEF OverridesInv, OverridesTypeOK, SetProvider
  <1>5. AskedInv'
    BY <1>0, <1>1 DEF OverridesInv, AskedInv
  <1>6. ASSUME NEW r \in Section \ (contested \cup edited), ~torn PROVE SectionOK(r)'
    <2>1. SectionOK(r)
      BY <1>6 DEF OverridesInv
    <2>2. CASE r # s
      BY <1>0, <1>1, <1>3, <2>1, <2>2, OtherSection DEF Works
    <2>3. CASE r = s
      <3>1. InStep(c, r) /\ \A d \in Command \ {c} : ~Works(d, r)
        BY <1>0, <2>1, <2>3, StepFacts
      <3>2. Fits(onFile[r])'
        BY <1>0, <2>1 DEF SectionOK, Fits, ProviderOf
      <3>3. InStep(c, r)' /\ Works(c, r)'
        BY <1>0, <1>1, <1>2, <1>3, <2>3, <3>1 DEF InStep, Works
      <3> QED
        BY <1>0, <1>1, <3>1, <3>2, <3>3, OwnSection
    <2> QED
      BY <2>2, <2>3
  <1> QED
    BY <1>0, <1>4, <1>5, <1>6 DEF OverridesInv

\* ... then the model, and the two agree again.
LEMMA SetModelPreserves ==
  ASSUME OverridesInv, NEW c \in Command, SetModel(c)
  PROVE  OverridesInv'
  <1> DEFINE s == asked[c].section
             value == IF asked[c].kind = "/provider" THEN Unset ELSE asked[c].value
             new == [live[s] EXCEPT !.model = value]
  <1>0. /\ step[c] = "setModel" /\ s \in Section /\ live[s] \in Choice /\ onFile[s] \in Choice
        /\ asked[c].kind \in {"/provider", "/model"}
        /\ value \in Model \cup {Unset}
        /\ UNCHANGED <<onFile, asked, loaded, opened, outdated, contested, edited, torn>>
    BY StepFacts DEF SetModel, historyVars, OverridesInv, AskedInv
  <1>1. /\ step'[c] = "idle"
        /\ \A d \in Command \ {c} : step'[d] = step[d] /\ asked'[d] = asked[d] /\ loaded'[d] = loaded[d]
    BY <1>0 DEF OverridesInv, OverridesTypeOK, SetModel
  <1>2. live' = [live EXCEPT ![s] = new] /\ new \in Choice
    BY <1>0 DEF SetModel, Choice
  <1> HIDE DEF new
  <1>3. /\ live' \in [Section -> Choice] /\ live'[s] = new
        /\ \A r \in Section : r # s => live'[r] = live[r]
    BY <1>0, <1>2 DEF OverridesInv, OverridesTypeOK
  <1>4. OverridesTypeOK'
    BY <1>0, <1>3 DEF OverridesInv, OverridesTypeOK, SetModel
  <1>5. AskedInv'
    BY <1>0, <1>1 DEF OverridesInv, AskedInv
  <1>6. ASSUME NEW r \in Section \ (contested \cup edited), ~torn PROVE SectionOK(r)'
    <2>1. SectionOK(r)
      BY <1>6 DEF OverridesInv
    <2>2. CASE r # s
      BY <1>0, <1>1, <1>3, <2>1, <2>2, OtherSection DEF Works
    <2>3. CASE r = s
      <3>1. InStep(c, r) /\ \A d \in Command \ {c} : ~Works(d, r)
        BY <1>0, <2>1, <2>3, StepFacts
      <3>2. Fits(onFile[r])'
        BY <1>0, <2>1 DEF SectionOK, Fits, ProviderOf
      <3>3. new = onFile[r]
        BY <1>0, <2>3, <3>1 DEF InStep, Choice, new
      <3>4. live'[r] = onFile'[r] /\ ~Works(c, r)'
        BY <1>0, <1>1, <1>3, <2>3, <3>3 DEF Works
      <3> QED
        BY <1>0, <1>1, <3>1, <3>2, <3>4, OwnSection
    <2> QED
      BY <2>2, <2>3
  <1> QED
    BY <1>0, <1>4, <1>5, <1>6 DEF OverridesInv

\* A start fills the maps, and no command is under way.
LEMMA RestartPreservesOverrides == OverridesInv /\ RestartOverrides => OverridesInv'
  <1> SUFFICES ASSUME OverridesInv, RestartOverrides PROVE OverridesInv'
    OBVIOUS
  <1> USE DEF OverridesInv, RestartOverrides
  <1>1. OverridesTypeOK'
    BY DEF OverridesTypeOK
  <1>2. AskedInv'
    BY DEF AskedInv
  <1>3. \A r \in Section : SectionOK(r) => SectionOK(r)'
    BY DEF SectionOK, Works, UnderWay, Fits, ProviderOf
  <1> QED
    BY <1>1, <1>2, <1>3

\* Every step of every command keeps the invariant.
LEMMA OverridesStep == OverridesInv /\ [OverridesNext]_overridesVars => OverridesInv'
  <1> SUFFICES ASSUME OverridesInv, [OverridesNext]_overridesVars PROVE OverridesInv'
    OBVIOUS
  <1>1. CASE UNCHANGED overridesVars
    BY <1>1 DEF overridesVars, OverridesInv, OverridesTypeOK, AskedInv, SectionOK, Works, UnderWay,
                Fits, ProviderOf, InStep
  <1>2. CASE OverridesNext
    BY <1>2, ChangeBegins, LoadPreserves, OpenPreserves, WritePreserves, PersistFailsPreserves,
       SetProviderPreserves, SetModelPreserves, RestartPreservesOverrides DEF OverridesNext
  <1> QED
    BY <1>1, <1>2

\* The invariant of the settings of channels, for any number of them and of
\* commands.
THEOREM OverridesInvariant == OverridesSpec => []OverridesInv
  <1> QED
    BY OverridesInitially, OverridesStep, PTL DEF OverridesSpec

\* /provider, /model and restarts leave the file and the maps in agreement on
\* every channel whose changes came one at a time.
THEOREM OverridesSettle == OverridesSpec => []OverridesAgree
  <1>1. OverridesInv => OverridesAgree
    BY DEF OverridesInv, SectionOK, OverridesAgree
  <1> QED
    BY <1>1, OverridesInvariant, PTL

-----------------------------------------------------------------------------
(* The reflector: any number of chats, messages and passes.                 *)

\* A pass is over messages of one chat, from its cursor on or the newest ones
\* when it has none; once the model has answered, it has been shown all of them.
PassInv ==
    /\ reflector.at \in {"idle", "asking", "applying"}
    /\ reflector.at # "idle" =>
          /\ {"at", "chat", "from", "upTo"} \subseteq DOMAIN reflector
          /\ reflector.chat \in Chat /\ reflector.from \in Nat /\ reflector.upTo \in Nat
          /\ reflector.from < reflector.upTo
          /\ IF cursor[reflector.chat] > 0 THEN reflector.from = cursor[reflector.chat]
             ELSE reflector.from = 0 \/ reflector.from + FirstLook = reflector.upTo
    /\ reflector.at = "applying" => Shown \subseteq extracted[reflector.chat]

CursorInv ==
    /\ stored \in [Chat -> Nat] /\ cursor \in [Chat -> Nat]
    /\ extracted \in [Chat -> SUBSET Nat]
    /\ PassInv

\* One step of NoMessageSkipped.
MovesOverShown ==
    \A c \in Chat : cursor'[c] # cursor[c] =>
       /\ cursor'[c] > cursor[c]
       /\ \A n \in (cursor[c] + 1) .. cursor'[c] :
             n \in extracted'[c] \/ (cursor[c] = 0 /\ n + FirstLook <= cursor'[c])

\* The pages of a pass have at least one message.
LEMMA Pages == FirstLook \in Nat /\ FirstLook > 0 /\ Batch \in Nat /\ Batch > 0
  BY MemoryAssumption

\* Nothing was stored and nothing reflected.
LEMMA CursorInitially == MemoryInit => CursorInv
  BY DEF MemoryInit, CursorInv, PassInv, Idle

\* Tools and commands have nothing to do with the cursor.
LEMMA SameCursor ==
  ASSUME CursorInv, UNCHANGED <<stored, cursor, reflector, extracted>>
  PROVE  CursorInv' /\ MovesOverShown
  BY DEF CursorInv, PassInv, Shown, MovesOverShown

\* A pass that ends without an answer, or is cut by a restart, leaves the cursor.
LEMMA GivenUp ==
  ASSUME CursorInv, UNCHANGED <<stored, cursor, extracted>>, reflector' = Idle
  PROVE  CursorInv' /\ MovesOverShown
  BY DEF CursorInv, PassInv, Idle, MovesOverShown

\* A message that arrives is behind every cursor, and no part of the pass.
LEMMA StorePreserves ==
  ASSUME CursorInv, NEW c \in Chat, StoreMessage(c)
  PROVE  CursorInv' /\ MovesOverShown
  <1>1. stored' \in [Chat -> Nat] /\ UNCHANGED <<cursor, reflector, extracted>>
    BY DEF StoreMessage, CursorInv
  <1> QED
    BY <1>1 DEF CursorInv, PassInv, Shown, MovesOverShown

\* The messages of a pass: all after the cursor, at most Batch of them, or the
\* FirstLook newest without a cursor, and at least one.
LEMMA PassHas ==
  ASSUME CursorInv, NEW c \in Chat, cursor[c] < stored[c]
  PROVE  /\ Before(c) \in Nat /\ LastOf(c) \in Nat /\ Before(c) < LastOf(c) /\ LastOf(c) <= stored[c]
         /\ IF cursor[c] > 0 THEN Before(c) = cursor[c]
            ELSE Before(c) = 0 \/ Before(c) + FirstLook = LastOf(c)
  <1>1. cursor[c] \in Nat /\ stored[c] \in Nat
    BY DEF CursorInv
  <1> QED
    BY <1>1, Pages DEF Before, LastOf

\* A pass begins with the messages there are.
LEMMA StartPreserves ==
  ASSUME CursorInv, NEW c \in Chat, StartReflecting(c)
  PROVE  CursorInv' /\ MovesOverShown
  <1>1. UNCHANGED <<stored, cursor, extracted>> /\ cursor[c] < stored[c]
    BY DEF StartReflecting, ReflectorVars
  <1>2. /\ reflector'.at = "asking" /\ reflector'.chat = c
        /\ reflector'.from = Before(c) /\ reflector'.upTo = LastOf(c)
        /\ {"at", "chat", "from", "upTo"} \subseteq DOMAIN reflector'
    BY DEF StartReflecting
  <1>3. PassInv'
    BY <1>1, <1>2, PassHas DEF PassInv
  <1> QED
    BY <1>1, <1>3 DEF CursorInv, MovesOverShown

\* What the pass is about stays while it is made.
LEMMA SamePass ==
  ASSUME CursorInv, UNCHANGED <<stored, cursor, extracted>>,
         reflector'.at = reflector.at, reflector'.chat = reflector.chat,
         reflector'.from = reflector.from, reflector'.upTo = reflector.upTo,
         DOMAIN reflector' = DOMAIN reflector
  PROVE  CursorInv' /\ MovesOverShown
  BY DEF CursorInv, PassInv, Shown, MovesOverShown

\* The model is shown the messages of the pass.
LEMMA AskedShows ==
  ASSUME CursorInv, reflector.at = "asking",
         extracted' = [extracted EXCEPT ![reflector.chat] = @ \cup Shown]
  PROVE  extracted' \in [Chat -> SUBSET Nat] /\ Shown \subseteq extracted'[reflector.chat]
  <1>1. reflector.chat \in Chat /\ reflector.from \in Nat /\ reflector.upTo \in Nat
    BY DEF CursorInv, PassInv
  <1>2. Shown \subseteq Nat
    BY <1>1 DEF Shown
  <1>3. extracted'[reflector.chat] = extracted[reflector.chat] \cup Shown
    BY <1>1 DEF CursorInv
  <1> QED
    BY <1>1, <1>2, <1>3 DEF CursorInv

\* The cursor is set to the end of a pass that the model has been shown.
LEMMA CursorMoves ==
  ASSUME CursorInv, reflector.at # "idle", stored' = stored, reflector' = Idle,
         cursor' = [cursor EXCEPT ![reflector.chat] = reflector.upTo],
         extracted' \in [Chat -> SUBSET Nat], Shown \subseteq extracted'[reflector.chat]
  PROVE  CursorInv' /\ MovesOverShown
  <1> DEFINE c == reflector.chat
  <1>1. /\ c \in Chat /\ reflector.from \in Nat /\ reflector.upTo \in Nat
        /\ reflector.from < reflector.upTo /\ cursor[c] \in Nat
        /\ IF cursor[c] > 0 THEN reflector.from = cursor[c]
           ELSE reflector.from = 0 \/ reflector.from + FirstLook = reflector.upTo
    BY DEF CursorInv, PassInv
  <1>2. cursor'[c] = reflector.upTo /\ \A d \in Chat \ {c} : cursor'[d] = cursor[d]
    BY <1>1 DEF CursorInv
  <1>3. cursor'[c] > cursor[c]
    BY <1>1, <1>2
  <1>4. ASSUME NEW n \in (cursor[c] + 1) .. cursor'[c]
        PROVE  n \in extracted'[c] \/ (cursor[c] = 0 /\ n + FirstLook <= cursor'[c])
    <2>1. CASE n > reflector.from
      <3>1. n \in Shown
        BY <1>1, <1>2, <1>4, <2>1 DEF Shown
      <3> QED
        BY <3>1
    <2>2. CASE ~(n > reflector.from)
      <3>1. n \in Nat /\ n >= 1 /\ n <= reflector.from
        BY <1>1, <1>2, <1>4, <2>2
      <3>2. cursor[c] = 0 /\ reflector.from + FirstLook = reflector.upTo
        BY <1>1, <1>2, <1>4, <3>1
      <3> QED
        BY <1>1, <1>2, <3>1, <3>2, Pages
    <2> QED
      BY <2>1, <2>2
  <1>5. MovesOverShown
    BY <1>1, <1>2, <1>3, <1>4 DEF MovesOverShown
  <1>6. PassInv'
    BY DEF PassInv, Idle
  <1>7. cursor' \in [Chat -> Nat]
    BY <1>1 DEF CursorInv
  <1> QED
    BY <1>5, <1>6, <1>7 DEF CursorInv

\* The model finds nothing: the cursor moves over what it has been shown.
LEMMA NothingPreserves == CursorInv /\ ExtractNothing => CursorInv' /\ MovesOverShown
  <1> SUFFICES ASSUME CursorInv, ExtractNothing PROVE CursorInv' /\ MovesOverShown
    OBVIOUS
  <1>1. /\ reflector.at = "asking" /\ stored' = stored /\ reflector' = Idle
        /\ extracted' = [extracted EXCEPT ![reflector.chat] = @ \cup Shown]
        /\ cursor' = [cursor EXCEPT ![reflector.chat] = reflector.upTo]
    BY DEF ExtractNothing, MoveCursor, ReflectorVars
  <1> QED
    BY <1>1, AskedShows, CursorMoves

\* The model finds something: it has been shown the messages, and the cursor waits.
LEMMA ItemsPreserve == CursorInv /\ ExtractItems => CursorInv' /\ MovesOverShown
  <1> SUFFICES ASSUME CursorInv, ExtractItems PROVE CursorInv' /\ MovesOverShown
    OBVIOUS
  <1>1. /\ reflector.at = "asking" /\ UNCHANGED <<stored, cursor>>
        /\ extracted' = [extracted EXCEPT ![reflector.chat] = @ \cup Shown]
    BY DEF ExtractItems, ReflectorVars
  <1>2. {"at", "chat", "from", "upTo"} \subseteq DOMAIN reflector
    BY <1>1 DEF CursorInv, PassInv
  <1>3. PICK items : reflector' = [reflector EXCEPT !.at = "applying", !.items = items]
    BY DEF ExtractItems
  <1>4. /\ reflector'.at = "applying" /\ reflector'.chat = reflector.chat
        /\ reflector'.from = reflector.from /\ reflector'.upTo = reflector.upTo
        /\ {"at", "chat", "from", "upTo"} \subseteq DOMAIN reflector'
    BY <1>2, <1>3
  <1>5. Shown' = Shown
    BY <1>4 DEF Shown
  <1>6. PassInv'
    BY <1>1, <1>4, <1>5, AskedShows DEF CursorInv, PassInv
  <1> QED
    BY <1>1, <1>6, AskedShows DEF CursorInv, MovesOverShown

\* An item of its answer is applied, and the cursor still waits.
LEMMA ApplyPreserves == CursorInv /\ ApplyItem => CursorInv' /\ MovesOverShown
  <1> SUFFICES ASSUME CursorInv, ApplyItem PROVE CursorInv' /\ MovesOverShown
    OBVIOUS
  <1>1. reflector.at = "applying" /\ UNCHANGED <<stored, cursor, extracted>>
    BY DEF ApplyItem, ReflectorVars
  <1>2. {"at", "chat", "from", "upTo"} \subseteq DOMAIN reflector
    BY <1>1 DEF CursorInv, PassInv
  <1>3. /\ reflector'.at = reflector.at /\ reflector'.chat = reflector.chat
        /\ reflector'.from = reflector.from /\ reflector'.upTo = reflector.upTo
        /\ DOMAIN reflector' = DOMAIN reflector
    BY <1>2 DEF ApplyItem
  <1> QED
    BY <1>1, <1>3, SamePass

\* The cursor moves to the end of the pass, all of which was shown.
LEMMA FinishPreserves == CursorInv /\ FinishReflecting => CursorInv' /\ MovesOverShown
  <1> SUFFICES ASSUME CursorInv, FinishReflecting PROVE CursorInv' /\ MovesOverShown
    OBVIOUS
  <1>1. /\ reflector.at = "applying" /\ UNCHANGED <<stored, extracted>> /\ reflector' = Idle
        /\ cursor' = [cursor EXCEPT ![reflector.chat] = reflector.upTo]
    BY DEF FinishReflecting, MoveCursor, ReflectorVars
  <1>2. extracted' \in [Chat -> SUBSET Nat] /\ Shown \subseteq extracted'[reflector.chat]
    BY <1>1 DEF CursorInv, PassInv
  <1> QED
    BY <1>1, <1>2, CursorMoves

\* Every step of the memories keeps the invariant, and moves the cursor over
\* messages that were shown.
LEMMA CursorStep == CursorInv /\ [MemoryNext]_memVars => CursorInv' /\ MovesOverShown
  <1> SUFFICES ASSUME CursorInv, [MemoryNext]_memVars PROVE CursorInv' /\ MovesOverShown
    OBVIOUS
  <1>1. CASE UNCHANGED memVars
    BY <1>1, SameCursor DEF memVars
  <1>2. ASSUME NEW c \in Chat, CheckMemory(c) \/ DeleteMemory(c) \/ UpdateMemory(c) \/ HearCommand(c)
                                 \/ ObeyCommand(c)
        PROVE  CursorInv' /\ MovesOverShown
    BY <1>2, SameCursor DEF CheckMemory, DeleteMemory, UpdateMemory, HearCommand, ObeyCommand
  <1>3. CASE GiveUpReflecting \/ RestartMemories
    <2>1. reflector' = Idle /\ UNCHANGED <<stored, cursor, extracted>>
      BY <1>3 DEF GiveUpReflecting, RestartMemories, ReflectorVars
    <2> QED
      BY <2>1, GivenUp
  <1> QED
    BY <1>1, <1>2, <1>3, StorePreserves, StartPreserves, NothingPreserves, ItemsPreserve,
       ApplyPreserves, FinishPreserves DEF MemoryNext

\* The invariant of the reflector, for any number of chats and messages and any
\* sizes of the pages: a pass begins where the cursor of its chat is, or with the
\* newest messages when there is none, and what its answer is about was shown.
THEOREM CursorInvariant == MemorySpec => []CursorInv
  <1> QED
    BY CursorInitially, CursorStep, PTL DEF MemorySpec

\* The reflector moves its cursor forward and over messages only that the model
\* has been shown, whatever arrives, fails or restarts while it is thinking; the
\* first time it passes over those too that are older than its first look.
THEOREM CursorIsHonest == MemorySpec => NoMessageSkipped
  <1>1. CursorInv /\ [MemoryNext]_memVars => [MovesOverShown]_memVars
    BY CursorStep
  <1> QED
    BY <1>1, CursorInvariant, PTL DEF MemorySpec, NoMessageSkipped, MovesOverShown

-----------------------------------------------------------------------------
(* The types of the memories: stores of at most MaxRows rows.               *)

\* A pass of the reflector that is at work.
Pass == [at : {"asking", "applying"}, chat : Chat, from : Nat, upTo : Nat, known : SUBSET Known,
         seen : SUBSET (Id \X Fact), claimed : SUBSET Range(TopicOf), items : Seq(Item),
         refused : BOOLEAN]

RowsTyped(r) == DOMAIN r = Store /\ \A s \in Store : r[s] \in Seq(Row) /\ Len(r[s]) <= MaxRows

PassTyped ==
    \/ reflector = Idle
    \/ /\ reflector \in Pass /\ Len(reflector.items) <= MaxItems
       /\ reflector.upTo \in 1 .. stored[reflector.chat] /\ reflector.from < reflector.upTo

CountsTyped ==
    /\ stored \in [Chat -> 0 .. MaxMessages]
    /\ cursor \in [Chat -> Nat] /\ \A c \in Chat : cursor[c] <= stored[c]
    /\ extracted \in [Chat -> SUBSET (1 .. MaxMessages)]

\* The inductive invariant of the types.
MemoryTypeInv ==
    /\ RowsTyped(rows) /\ PassTyped /\ CountsTyped
    /\ tool \in [Chat -> 0 .. MaxRows] /\ command \in [Chat -> Decision]
    /\ probeOk \in BOOLEAN /\ recentFailures \in 0 .. PauseAfter

\* The facts on the constants that the types need.
LEMMA MemoryBounds ==
  /\ MaxRows \in Nat /\ MaxMessages \in Nat /\ MaxItems \in Nat /\ PauseAfter \in Nat /\ PauseAfter > 0
  /\ FirstLook \in Nat /\ FirstLook > 0 /\ Batch \in Nat /\ Batch > 0
  /\ \A f \in Fact : TopicOf[f] \in Range(TopicOf)
  /\ External \in BOOLEAN /\ IsFiniteSet(Chat) /\ Fact # {}
  BY MemoryAssumption

\* The sequences of the community modules that are bounded are those of a length.
LEMMA BoundedSeqIs ==
  ASSUME NEW S, NEW n \in Nat, NEW s \in Seq(S), Len(s) <= n
  PROVE  s \in BoundedSeq(S, n)
  <1>1. Len(s) \in 0 .. n /\ s \in [1 .. Len(s) -> S]
    OBVIOUS
  <1> QED
    BY <1>1 DEF BoundedSeq, SeqOf

\* And the other way round.
LEMMA BoundedSeqHas ==
  ASSUME NEW S, NEW n \in Nat, NEW s \in BoundedSeq(S, n)
  PROVE  s \in Seq(S) /\ Len(s) <= n
  <1>1. PICK m \in 0 .. n : s \in [1 .. m -> S]
    BY DEF BoundedSeq, SeqOf
  <1> QED
    BY <1>1

\* Failures are counted up to the number at which the reflector pauses.
LEMMA CountedTyped ==
  ASSUME recentFailures \in 0 .. PauseAfter, NEW s
  PROVE  Counted(s) \in 0 .. PauseAfter
  BY MemoryBounds DEF Counted

\* The store that answers is one of those that an operation changes.
LEMMA AnsweringIs ==
  ASSUME NEW stores \in Writes
  PROVE  Answering(stores) \in stores /\ stores \subseteq Store /\ Answering(stores) \in Store
  BY DEF Answering, Writes, Store

\* A row of a sequence that is changed is a row, and nothing else changes.
LEMMA ChangedRow ==
  ASSUME NEW q \in Seq(Row), NEW i \in 1 .. Len(q), NEW f \in Fact
  PROVE  /\ [q EXCEPT ![i].fact = f, ![i].archived = FALSE] \in Seq(Row)
         /\ Len([q EXCEPT ![i].fact = f, ![i].archived = FALSE]) = Len(q)
         /\ [q EXCEPT ![i].archived = TRUE] \in Seq(Row)
         /\ Len([q EXCEPT ![i].archived = TRUE]) = Len(q)
  <1>1. q[i] \in Row
    OBVIOUS
  <1> DEFINE r == q[i]
             told == [r EXCEPT !.fact = f]
             anew == [told EXCEPT !.archived = FALSE]
             shut == [r EXCEPT !.archived = TRUE]
  <1>2. told \in Row
    BY <1>1 DEF Row
  <1>3. shut \in Row
    BY <1>1 DEF Row
  <1>4. anew \in Row
    <2> HIDE DEF told
    <2> QED
      BY <1>2 DEF Row
  <1>5. [q EXCEPT ![i].archived = TRUE] = [q EXCEPT ![i] = shut]
    OBVIOUS
  <1>6. [q EXCEPT ![i].fact = f, ![i].archived = FALSE] = [q EXCEPT ![i] = anew]
    OBVIOUS
  <1> HIDE DEF anew, shut
  <1>7. ASSUME NEW x \in Row
        PROVE  [q EXCEPT ![i] = x] \in Seq(Row) /\ Len([q EXCEPT ![i] = x]) = Len(q)
    BY ExceptSeq
  <1>8. /\ [q EXCEPT ![i] = shut] \in Seq(Row) /\ Len([q EXCEPT ![i] = shut]) = Len(q)
        /\ [q EXCEPT ![i] = anew] \in Seq(Row) /\ Len([q EXCEPT ![i] = anew]) = Len(q)
    BY <1>3, <1>4, <1>7
  <1> DEFINE qShut == [q EXCEPT ![i] = shut]
             qAnew == [q EXCEPT ![i] = anew]
             closed == [q EXCEPT ![i].archived = TRUE]
             revived == [q EXCEPT ![i].fact = f, ![i].archived = FALSE]
  <1>9. /\ qShut \in Seq(Row) /\ Len(qShut) = Len(q) /\ qAnew \in Seq(Row) /\ Len(qAnew) = Len(q)
        /\ closed = qShut /\ revived = qAnew
    BY <1>5, <1>6, <1>8
  <1> HIDE DEF qShut, qAnew, closed, revived
  <1>10. closed \in Seq(Row) /\ Len(closed) = Len(q) /\ revived \in Seq(Row) /\ Len(revived) = Len(q)
    BY <1>9
  <1> QED
    BY <1>10 DEF closed, revived

\* An update and an archiving leave as many rows.
LEMMA UpdateTyped ==
  ASSUME RowsTyped(rows), NEW stores, NEW i, NEW f \in Fact,
         UpdateRow(stores, i, f) \/ ArchiveRow(stores, i)
  PROVE  RowsTyped(rows')
  <1>1. ASSUME NEW s \in Store
        PROVE  rows'[s] \in Seq(Row) /\ Len(rows'[s]) <= MaxRows
    <2>1. rows[s] \in Seq(Row) /\ Len(rows[s]) <= MaxRows
      BY DEF RowsTyped
    <2> DEFINE q == rows[s]
               anew == [q EXCEPT ![i].fact = f, ![i].archived = FALSE]
               shut == [q EXCEPT ![i].archived = TRUE]
    <2>2. rows'[s] = q \/ (Has(s, i) /\ rows'[s] \in {anew, shut})
      BY DEF UpdateRow, ArchiveRow
    <2> HIDE DEF q
    <2>3. ASSUME Has(s, i)
          PROVE  /\ anew \in Seq(Row) /\ Len(anew) = Len(q)
                 /\ shut \in Seq(Row) /\ Len(shut) = Len(q)
      <3>1. q \in Seq(Row) /\ i \in 1 .. Len(q)
        BY <2>1, <2>3 DEF Has, q
      <3> QED
        BY <3>1, ChangedRow
    <2> HIDE DEF anew, shut
    <2> QED
      BY <2>1, <2>2, <2>3 DEF q
  <1> QED
    BY <1>1 DEF RowsTyped, UpdateRow, ArchiveRow

\* A row is added where there is room.
LEMMA InsertTyped ==
  ASSUME RowsTyped(rows), NEW stores \in Writes, NEW c \in Chat, NEW f \in Fact,
         Room(stores), InsertMemory(stores, c, f)
  PROVE  RowsTyped(rows')
  <1> DEFINE new == [chat |-> c, fact |-> f, archived |-> FALSE]
  <1>1. new \in Row
    BY DEF Row
  <1> HIDE DEF new
  <1>2. ASSUME NEW s \in Store
        PROVE  rows'[s] \in Seq(Row) /\ Len(rows'[s]) <= MaxRows
    <2>1. rows[s] \in Seq(Row) /\ Len(rows[s]) <= MaxRows /\ Len(rows[s]) \in Nat
      BY DEF RowsTyped
    <2>2. Append(rows[s], new) \in Seq(Row) /\ Len(Append(rows[s], new)) = Len(rows[s]) + 1
      BY <1>1, <2>1, AppendProperties
    <2>3. s \in stores => Len(rows[s]) + 1 <= MaxRows
      BY <2>1, MemoryBounds DEF Room
    <2>4. rows'[s] = IF s \in stores THEN Append(rows[s], new) ELSE rows[s]
      BY DEF InsertMemory, new
    <2> QED
      BY <2>1, <2>2, <2>3, <2>4
  <1> QED
    BY <1>2 DEF RowsTyped, InsertMemory

\* A memory that is superseded is archived, and its successor has its chat.
LEMMA SupersedeTyped ==
  ASSUME RowsTyped(rows), NEW stores \in Writes, NEW i, NEW f \in Fact,
         Room(stores), SupersedeRow(stores, i, f)
  PROVE  RowsTyped(rows')
  <1>1. ASSUME NEW s \in Store
        PROVE  rows'[s] \in Seq(Row) /\ Len(rows'[s]) <= MaxRows
    <2>1. rows[s] \in Seq(Row) /\ Len(rows[s]) <= MaxRows /\ Len(rows[s]) \in Nat
      BY DEF RowsTyped
    <2>2. CASE s \in stores /\ Has(s, i)
      <3> DEFINE q == rows[s]
                 shut == [q EXCEPT ![i].archived = TRUE]
                 new == [chat |-> q[i].chat, fact |-> f, archived |-> FALSE]
      <3>1. rows'[s] = Append(shut, new)
        BY <2>2 DEF SupersedeRow
      <3>2. q \in Seq(Row) /\ Len(q) \in Nat /\ i \in 1 .. Len(q) /\ Len(q) < MaxRows
        BY <2>1, <2>2 DEF Has, Room
      <3> HIDE DEF q
      <3>3. shut \in Seq(Row) /\ Len(shut) = Len(q)
        BY <3>2, ChangedRow
      <3>4. new \in Row
        <4> HIDE DEF shut
        <4>1. q[i] \in Row
          BY <3>2
        <4>2. q[i].chat \in Chat
          BY <4>1 DEF Row
        <4> QED
          BY <4>2 DEF Row
      <3> HIDE DEF shut, new
      <3>5. Append(shut, new) \in Seq(Row) /\ Len(Append(shut, new)) = Len(shut) + 1
        BY <3>3, <3>4, AppendProperties
      <3> QED
        BY <3>1, <3>2, <3>3, <3>5, MemoryBounds
    <2>3. CASE ~ (s \in stores /\ Has(s, i))
      BY <2>1, <2>3 DEF SupersedeRow
    <2> QED
      BY <2>2, <2>3
  <1> QED
    BY <1>1 DEF RowsTyped, SupersedeRow

\* A copy of a chat's memories, and what may be decided on it.
LEMMA CopyTyped ==
  ASSUME RowsTyped(rows), NEW s \in Store, NEW c
  PROVE  /\ OfChat(s, c) \subseteq Known
         /\ \A i : Has(s, i) => i \in Id
         /\ \A f \in Fact : DecisionFor(OfChat(s, c), f) \subseteq Decision
  <1>1. rows[s] \in Seq(Row) /\ Len(rows[s]) <= MaxRows /\ Len(rows[s]) \in Nat
    BY DEF RowsTyped
  <1>2. \A i \in DOMAIN rows[s] : i \in Id /\ rows[s][i] \in Row
    BY <1>1, MemoryBounds DEF Id
  <1>3. ASSUME NEW i \in DOMAIN rows[s]
        PROVE  [id |-> i, fact |-> rows[s][i].fact, archived |-> rows[s][i].archived] \in Known
    BY <1>2 DEF Known, Row
  <1>4. OfChat(s, c) \subseteq Known
    BY <1>3 DEF OfChat
  <1>5. ASSUME NEW f \in Fact PROVE DecisionFor(OfChat(s, c), f) \subseteq Decision
    <2>1. \A k \in OfChat(s, c) : k.id \in 0 .. MaxRows
      BY <1>4, MemoryBounds DEF Known, Id
    <2>2. 0 \in 0 .. MaxRows
      BY MemoryBounds
    <2> QED
      BY <2>1, <2>2 DEF DecisionFor, Decision
  <1> QED
    BY <1>2, <1>4, <1>5 DEF Has

\* While the types hold, a chat may have a message more if there are not too many.
LEMMA OneMoreMessage ==
  ASSUME stored \in [Chat -> 0 .. MaxMessages], NEW c \in Chat, Cardinality(Messages) < MaxMessages
  PROVE  stored[c] < MaxMessages
  <1> DEFINE own == {c} \X (1 .. MaxMessages)
             numbers == 1 .. MaxMessages
  <1>1. IsFiniteSet(numbers) /\ Cardinality(numbers) = MaxMessages
    BY MemoryBounds, FS_Interval
  <1>2. IsFiniteSet(Chat \X numbers)
    BY <1>1, MemoryBounds, FS_Product
  <1>3. IsFiniteSet(Messages)
    BY <1>2, FS_Subset DEF Messages
  <1>4. SUFFICES ASSUME stored[c] = MaxMessages PROVE FALSE
    BY MemoryBounds
  <1>5. own \subseteq Messages
    BY <1>4 DEF Messages
  <1>6. Cardinality(own) <= Cardinality(Messages)
    BY <1>3, <1>5, FS_Subset
  <1>7. IsFiniteSet({c}) /\ Cardinality({c}) = 1
    BY FS_Singleton
  <1> HIDE DEF numbers
  <1>8. Cardinality(own) = Cardinality({c}) * Cardinality(numbers)
    BY <1>1, <1>7, FS_Product DEF numbers
  <1>9. Cardinality(own) = MaxMessages
    BY <1>1, <1>7, <1>8, MemoryBounds
  <1>10. Cardinality(Messages) \in Nat
    BY <1>3, FS_CardinalityType
  <1> QED
    BY <1>6, <1>9, <1>10, MemoryBounds

\* The tools and the command.
LEMMA ToolsTyped ==
  ASSUME MemoryTypeInv, NEW c \in Chat,
         CheckMemory(c) \/ DeleteMemory(c) \/ UpdateMemory(c) \/ HearCommand(c) \/ ObeyCommand(c)
  PROVE  MemoryTypeInv'
  <1>0. /\ RowsTyped(rows) /\ PassTyped /\ CountsTyped
        /\ tool \in [Chat -> 0 .. MaxRows] /\ command \in [Chat -> Decision]
        /\ probeOk \in BOOLEAN /\ recentFailures \in 0 .. PauseAfter
    BY DEF MemoryTypeInv
  <1>1. \A s : Counted(s) \in 0 .. PauseAfter
    BY <1>0, CountedTyped
  <1>2. recentFailures' \in 0 .. PauseAfter
    BY <1>1 DEF CheckMemory, DeleteMemory, UpdateMemory, HearCommand, ObeyCommand
  <1>3. UNCHANGED <<stored, cursor, reflector, probeOk, extracted>>
    BY DEF CheckMemory, DeleteMemory, UpdateMemory, HearCommand, ObeyCommand
  <1>4. \A s \in Reads : s \in Store
    BY DEF Reads, Store
  <1>5. RowsTyped(rows') /\ tool' \in [Chat -> 0 .. MaxRows] /\ command' \in [Chat -> Decision]
    <2>1. CASE CheckMemory(c)
      <3>1. PICK s \in Reads, i \in Id : Has(s, i) /\ tool' = [tool EXCEPT ![c] = i]
        BY <2>1 DEF CheckMemory
      <3>2. i \in 0 .. MaxRows
        BY MemoryBounds DEF Id
      <3>3. rows' = rows /\ command' = command
        BY <2>1 DEF CheckMemory
      <3> QED
        BY <1>0, <3>1, <3>2, <3>3
    <2>2. CASE DeleteMemory(c) \/ UpdateMemory(c)
      <3>1. tool' = [tool EXCEPT ![c] = 0] /\ command' = command
        BY <2>2 DEF DeleteMemory, UpdateMemory
      <3>2. \E stores \in Writes, f \in Fact :
               ArchiveRow(stores, tool[c]) \/ UpdateRow(stores, tool[c], f)
        BY <2>2, MemoryBounds DEF DeleteMemory, UpdateMemory
      <3>3. RowsTyped(rows')
        BY <1>0, <3>2, UpdateTyped
      <3>4. 0 \in 0 .. MaxRows
        BY MemoryBounds
      <3> QED
        BY <1>0, <3>1, <3>3, <3>4
    <2>3. CASE HearCommand(c)
      <3>1. PICK s \in Reads, f \in Fact :
               \E d \in DecisionFor(OfChat(s, c), f) : command' = [command EXCEPT ![c] = d]
        BY <2>3 DEF HearCommand
      <3>2. PICK d \in DecisionFor(OfChat(s, c), f) : command' = [command EXCEPT ![c] = d]
        BY <3>1
      <3>3. d \in Decision
        BY <1>0, <1>4, CopyTyped
      <3>4. rows' = rows /\ tool' = tool
        BY <2>3 DEF HearCommand
      <3> QED
        BY <1>0, <3>2, <3>3, <3>4
    <2>4. CASE ObeyCommand(c)
      <3> DEFINE d == command[c]
      <3>1. PICK stores \in Writes :
               \/ d.op = "update" /\ UpdateRow(stores, d.id, d.fact)
               \/ d.op = "supersede" /\ Room(stores) /\ SupersedeRow(stores, d.id, d.fact)
               \/ d.op = "insert" /\ Room(stores) /\ InsertMemory(stores, c, d.fact)
        BY <2>4 DEF ObeyCommand
      <3>2. d.fact \in Fact
        BY <1>0 DEF Decision
      <3> HIDE DEF d
      <3>3. RowsTyped(rows')
        BY <1>0, <3>1, <3>2, UpdateTyped, SupersedeTyped, InsertTyped
      <3>4. tool' = tool /\ command' = [command EXCEPT ![c] = NoDecision]
        BY <2>4 DEF ObeyCommand
      <3>5. NoDecision \in Decision
        BY MemoryBounds DEF NoDecision, Decision
      <3> QED
        BY <1>0, <3>3, <3>4, <3>5
    <2> QED
      BY <2>1, <2>2, <2>3, <2>4
  <1>6. PassTyped' /\ CountsTyped'
    BY <1>0, <1>3 DEF PassTyped, CountsTyped
  <1> QED
    BY <1>0, <1>2, <1>3, <1>5, <1>6 DEF MemoryTypeInv

\* A message more.
LEMMA StoreTyped ==
  ASSUME MemoryTypeInv, NEW c \in Chat, StoreMessage(c)
  PROVE  MemoryTypeInv'
  <1>0. RowsTyped(rows) /\ PassTyped /\ CountsTyped
    BY DEF MemoryTypeInv
  <1>1. /\ stored' = [stored EXCEPT ![c] = @ + 1]
        /\ UNCHANGED <<rows, tool, command, cursor, reflector, probeOk, recentFailures, extracted>>
        /\ Cardinality(Messages) < MaxMessages
    BY DEF StoreMessage
  <1>2. stored[c] < MaxMessages
    BY <1>0, <1>1, OneMoreMessage DEF CountsTyped
  <1>3. /\ stored' \in [Chat -> 0 .. MaxMessages]
        /\ \A d \in Chat : stored[d] <= stored'[d]
    BY <1>0, <1>1, <1>2, MemoryBounds DEF CountsTyped
  <1>4. CountsTyped'
    BY <1>0, <1>1, <1>3, MemoryBounds DEF CountsTyped
  <1>5. PassTyped'
    BY <1>0, <1>1, <1>3, MemoryBounds DEF PassTyped, Pass, CountsTyped
  <1> QED
    BY <1>0, <1>1, <1>4, <1>5 DEF MemoryTypeInv, RowsTyped

\* A pass begins with a copy of the chat's memories.
LEMMA StartTyped ==
  ASSUME MemoryTypeInv, NEW c \in Chat, StartReflecting(c)
  PROVE  MemoryTypeInv'
  <1>0. RowsTyped(rows) /\ CountsTyped /\ recentFailures \in 0 .. PauseAfter
    BY DEF MemoryTypeInv
  <1>1. PICK s \in Reads :
          /\ reflector' = [at |-> "asking", chat |-> c, from |-> Before(c), upTo |-> LastOf(c),
                           known |-> OfChat(s, c), seen |-> {<<k.id, k.fact>> : k \in OfChat(s, c)}, claimed |-> {},
                           items |-> <<>>, refused |-> FALSE]
          /\ recentFailures' = Counted(s)
    BY DEF StartReflecting
  <1>2. cursor[c] < stored[c] /\ UNCHANGED <<rows, cursor, extracted, tool, command, stored, probeOk>>
    BY DEF StartReflecting, ReflectorVars
  <1>3. OfChat(s, c) \subseteq Known
    BY <1>0, CopyTyped DEF Reads, Store
  <1>4. {<<k.id, k.fact>> : k \in OfChat(s, c)} \subseteq Id \X Fact
    BY <1>3 DEF Known
  <1>5. Before(c) \in Nat /\ LastOf(c) \in 1 .. stored[c] /\ Before(c) < LastOf(c)
    <2>1. cursor[c] \in Nat /\ stored[c] \in Nat
      BY <1>0, MemoryBounds DEF CountsTyped
    <2> QED
      BY <1>2, <2>1, MemoryBounds DEF Before, LastOf
  <1> DEFINE copy == OfChat(s, c)
             pairs == {<<k.id, k.fact>> : k \in OfChat(s, c)}
  <1>6. /\ reflector' = [at |-> "asking", chat |-> c, from |-> Before(c), upTo |-> LastOf(c),
                         known |-> copy, seen |-> pairs, claimed |-> {}, items |-> <<>>, refused |-> FALSE]
        /\ copy \subseteq Known /\ pairs \subseteq Id \X Fact
    BY <1>1, <1>3, <1>4
  <1> HIDE DEF copy, pairs
  <1>7. reflector' \in Pass /\ reflector'.items = <<>> /\ reflector'.chat = c
        /\ reflector'.from = Before(c) /\ reflector'.upTo = LastOf(c)
    BY <1>5, <1>6 DEF Pass
  <1>8. PassTyped'
    BY <1>2, <1>5, <1>7, MemoryBounds DEF PassTyped
  <1>9. recentFailures' \in 0 .. PauseAfter
    BY <1>0, <1>1, CountedTyped
  <1> QED
    BY <1>0, <1>2, <1>8, <1>9 DEF MemoryTypeInv, CountsTyped, RowsTyped

\* A pass that is at work has its fields.
LEMMA AtWork ==
  ASSUME MemoryTypeInv, reflector.at # "idle"
  PROVE  /\ reflector \in Pass /\ Len(reflector.items) <= MaxItems
         /\ reflector.chat \in Chat /\ reflector.upTo \in 1 .. stored[reflector.chat]
         /\ stored[reflector.chat] \in 0 .. MaxMessages
         /\ reflector.from \in Nat /\ reflector.from < reflector.upTo
  <1>1. reflector \in Pass /\ Len(reflector.items) <= MaxItems
        /\ reflector.upTo \in 1 .. stored[reflector.chat] /\ reflector.from < reflector.upTo
    BY DEF MemoryTypeInv, PassTyped, Idle
  <1>2. reflector.chat \in Chat /\ reflector.from \in Nat
    BY <1>1 DEF Pass
  <1> QED
    BY <1>1, <1>2 DEF MemoryTypeInv, CountsTyped

\* The model's answer is for messages there are.
LEMMA ShownTyped ==
  ASSUME MemoryTypeInv, reflector.at # "idle",
         extracted' = [extracted EXCEPT ![reflector.chat] = @ \cup Shown]
  PROVE  extracted' \in [Chat -> SUBSET (1 .. MaxMessages)]
  <1> DEFINE c == reflector.chat
  <1>1. c \in Chat /\ reflector.upTo \in 1 .. stored[c] /\ stored[c] \in 0 .. MaxMessages
        /\ reflector.from \in Nat
    BY AtWork
  <1>2. extracted \in [Chat -> SUBSET (1 .. MaxMessages)]
    BY <1>1 DEF MemoryTypeInv, CountsTyped
  <1>3. Shown \subseteq 1 .. MaxMessages
    BY <1>1, <1>2, MemoryBounds DEF Shown
  <1> QED
    BY <1>1, <1>2, <1>3

\* The cursor is set to a message there is.
LEMMA MovedTyped ==
  ASSUME MemoryTypeInv, reflector.at # "idle", MoveCursor(reflector.chat)
  PROVE  cursor' \in [Chat -> Nat] /\ \A c \in Chat : cursor'[c] <= stored[c]
  <1> DEFINE c == reflector.chat
  <1>1. c \in Chat /\ reflector.upTo \in 1 .. stored[c] /\ stored[c] \in 0 .. MaxMessages
    BY AtWork
  <1>2. cursor \in [Chat -> Nat] /\ \A d \in Chat : cursor[d] <= stored[d]
    BY DEF MemoryTypeInv, CountsTyped
  <1>3. cursor' = [cursor EXCEPT ![c] = reflector.upTo]
    BY DEF MoveCursor
  <1>4. reflector.upTo \in Nat /\ reflector.upTo <= stored[c]
    BY <1>1, MemoryBounds
  <1> QED
    BY <1>1, <1>2, <1>3, <1>4

\* The pass is given up, finds nothing, or has memories to apply.
LEMMA AskedTyped ==
  ASSUME MemoryTypeInv, GiveUpReflecting \/ ExtractNothing \/ ExtractItems
  PROVE  MemoryTypeInv'
  <1>0. RowsTyped(rows) /\ CountsTyped
    BY DEF MemoryTypeInv
  <1>1. /\ reflector.at = "asking"
        /\ UNCHANGED <<rows, recentFailures, tool, command, stored, probeOk>>
    BY DEF GiveUpReflecting, ExtractNothing, ExtractItems, ReflectorVars
  <1>2. CASE GiveUpReflecting
    <2>1. reflector' = Idle /\ UNCHANGED <<cursor, extracted>>
      BY <1>2 DEF GiveUpReflecting
    <2> QED
      BY <1>0, <1>1, <2>1 DEF MemoryTypeInv, PassTyped, CountsTyped, RowsTyped
  <1>3. CASE ExtractNothing
    <2>1. /\ reflector' = Idle /\ MoveCursor(reflector.chat)
          /\ extracted' = [extracted EXCEPT ![reflector.chat] = @ \cup Shown]
      BY <1>3 DEF ExtractNothing
    <2>2. CountsTyped'
      BY <1>0, <1>1, <2>1, MovedTyped, ShownTyped DEF CountsTyped
    <2> QED
      BY <1>0, <1>1, <2>1, <2>2 DEF MemoryTypeInv, PassTyped, RowsTyped
  <1>4. CASE ExtractItems
    <2>1. PICK items \in BoundedSeq(Item, MaxItems) :
             reflector' = [reflector EXCEPT !.at = "applying", !.items = items]
      BY <1>4 DEF ExtractItems
    <2>2. items \in Seq(Item) /\ Len(items) <= MaxItems
      BY MemoryBounds, BoundedSeqHas
    <2>3. reflector \in Pass /\ reflector.upTo \in 1 .. stored[reflector.chat]
          /\ reflector.from < reflector.upTo
      BY <1>1, AtWork
    <2>4. /\ reflector' \in Pass /\ reflector'.items = items /\ reflector'.chat = reflector.chat
          /\ reflector'.from = reflector.from /\ reflector'.upTo = reflector.upTo
      BY <2>1, <2>2, <2>3 DEF Pass
    <2>5. PassTyped'
      BY <1>1, <2>2, <2>3, <2>4 DEF PassTyped
    <2>6. /\ cursor' = cursor
          /\ extracted' = [extracted EXCEPT ![reflector.chat] = @ \cup Shown]
      BY <1>4 DEF ExtractItems
    <2>7. CountsTyped'
      BY <1>0, <1>1, <2>6, ShownTyped DEF CountsTyped
    <2> QED
      BY <1>0, <1>1, <2>5, <2>7 DEF MemoryTypeInv, RowsTyped
  <1> QED
    BY <1>2, <1>3, <1>4

\* The parts of ApplyItem, by name: the pass is done with an item, or has learnt
\* that memory i has its fact.
DoneWith(r) == [r EXCEPT !.items = Tail(@), !.refused = FALSE]
Learnt(r, i, topics) ==
    [DoneWith(r) EXCEPT !.seen = @ \cup {<<i, Head(r.items).fact>>}, !.claimed = @ \cup topics]

\* What an item does to the pass and the rows.
LEMMA ApplyDoes ==
  ASSUME MemoryTypeInv, ApplyItem
  PROVE  /\ reflector.at = "applying" /\ reflector.items # <<>>
         /\ UNCHANGED <<cursor, extracted, tool, command, stored, probeOk>>
         /\ \E stores \in Writes : recentFailures' = Counted(Answering(stores))
         /\ \E fact \in Fact, stores \in Writes :
               /\ fact = Head(reflector.items).fact
               /\ \/ \E i : UpdateRow(stores, i, fact)
                  \/ \E i : Room(stores) /\ SupersedeRow(stores, i, fact)
                  \/ Room(stores) /\ InsertMemory(stores, reflector.chat, fact)
                  \/ UNCHANGED rows
               /\ \/ \E i \in Id, topics \in SUBSET {TopicOf[fact]} :
                        reflector' = Learnt(reflector, i, topics)
                  \/ reflector' = [reflector EXCEPT !.refused = TRUE]
                  \/ reflector' = DoneWith(reflector)
  <1> DEFINE item == Head(reflector.items)
             named == \E k \in reflector.known : k.id = item.replaces
             rivals == Rivals(item.fact)
             duplicate == {k \in reflector.seen : k[2] = item.fact}
             Done(r) == [r EXCEPT !.items = Tail(@), !.refused = FALSE]
             Learn(i, topics) == reflector' = [Done(reflector) EXCEPT !.seen = @ \cup {<<i, item.fact>>},
                                                                      !.claimed = @ \cup topics]
             Supersede(stores) ==
                \E k \in rivals :
                   /\ Room(stores) /\ SupersedeRow(stores, k.id, item.fact)
                   /\ IF Has(Answering(stores), k.id)
                      THEN Learn(Len(rows[Answering(stores)]) + 1, {TopicOf[item.fact]})
                      ELSE reflector' = [reflector EXCEPT !.refused = TRUE]
             Merge(stores) ==
                /\ \E d \in duplicate :
                      IF \E k \in reflector.known : k.id = d[1] /\ k.archived
                      THEN UpdateRow(stores, d[1], item.fact) ELSE UNCHANGED rows
                /\ reflector' = Done(reflector)
             Insert(stores) ==
                /\ Room(stores) /\ InsertMemory(stores, reflector.chat, item.fact)
                /\ Learn(Len(rows[Answering(stores)]) + 1, {TopicOf[item.fact]})
             Alters(stores) ==
                \/ \E i : UpdateRow(stores, i, item.fact)
                \/ \E i : Room(stores) /\ SupersedeRow(stores, i, item.fact)
                \/ Room(stores) /\ InsertMemory(stores, reflector.chat, item.fact)
                \/ UNCHANGED rows
             Goes == \/ \E i \in Id, topics \in SUBSET {TopicOf[item.fact]} :
                           reflector' = Learnt(reflector, i, topics)
                     \/ reflector' = [reflector EXCEPT !.refused = TRUE]
                     \/ reflector' = DoneWith(reflector)
  <1>1. /\ reflector.at = "applying" /\ reflector.items # <<>>
        /\ UNCHANGED <<cursor, extracted, tool, command, stored, probeOk>>
    BY DEF ApplyItem, ReflectorVars
  <1>2. PICK stores \in Writes :
           /\ \/ named /\ UpdateRow(stores, item.replaces, item.fact) /\ Learn(item.replaces, {})
              \/ Supersede(stores) \/ Merge(stores) \/ Insert(stores)
           /\ recentFailures' = Counted(Answering(stores))
    BY DEF ApplyItem
  <1>3. reflector \in Pass
    BY <1>1, AtWork
  <1>4. item \in Item /\ item.fact \in Fact
    <2>1. reflector.items \in Seq(Item)
      BY <1>3 DEF Pass
    <2>2. item \in Item
      BY <1>1, <2>1, HeadTailProperties
    <2> QED
      BY <2>2 DEF Item
  <1>5. ASSUME NEW i, NEW topics, Learn(i, topics)
        PROVE  reflector' = Learnt(reflector, i, topics)
    BY <1>5 DEF Learnt, DoneWith
  <1>6. ASSUME Room(stores) PROVE Len(rows[Answering(stores)]) + 1 \in Id
    <2> DEFINE a == Answering(stores)
    <2>1. a \in stores /\ a \in Store
      BY AnsweringIs
    <2>2. Len(rows[a]) < MaxRows /\ Len(rows[a]) \in Nat
      BY <1>6, <2>1 DEF Room, MemoryTypeInv, RowsTyped
    <2> QED
      BY <2>2, MemoryBounds DEF Id
  <1>7. CASE named /\ UpdateRow(stores, item.replaces, item.fact) /\ Learn(item.replaces, {})
    <2>1. PICK k \in reflector.known : k.id = item.replaces
      BY <1>7
    <2>2. item.replaces \in Id
      BY <1>3, <2>1 DEF Pass, Known
    <2>3. reflector' = Learnt(reflector, item.replaces, {})
      BY <1>5, <1>7
    <2>4. Alters(stores) /\ Goes
      <3> HIDE DEF item
      <3> QED
        BY <1>7, <2>2, <2>3
    <2> HIDE DEF Learn, Supersede, Merge, Insert, named, rivals, duplicate
    <2> QED
      BY <1>1, <1>2, <1>4, <2>4
  <1>8. CASE Supersede(stores)
    <2>1. PICK k \in rivals :
                   /\ Room(stores) /\ SupersedeRow(stores, k.id, item.fact)
                   /\ \/ Learn(Len(rows[Answering(stores)]) + 1, {TopicOf[item.fact]})
                      \/ reflector' = [reflector EXCEPT !.refused = TRUE]
      BY <1>8
    <2>2. Goes
      <3>1. CASE Learn(Len(rows[Answering(stores)]) + 1, {TopicOf[item.fact]})
        BY <1>5, <1>6, <2>1, <3>1
      <3> HIDE DEF Learn
      <3> QED
        BY <2>1, <3>1
    <2>3. Alters(stores)
      BY <2>1
    <2> HIDE DEF Learn, Supersede, Merge, Insert, named, rivals, duplicate
    <2> QED
      BY <1>1, <1>2, <1>4, <2>2, <2>3
  <1>9. CASE Merge(stores)
    <2>1. reflector' = DoneWith(reflector)
      BY <1>9 DEF DoneWith
    <2>2. Alters(stores)
      BY <1>9
    <2> HIDE DEF Learn, Supersede, Merge, Insert, named, rivals, duplicate
    <2> QED
      BY <1>1, <1>2, <1>4, <2>1, <2>2
  <1>10. CASE Insert(stores)
    <2>1. Room(stores) /\ InsertMemory(stores, reflector.chat, item.fact)
      BY <1>10
    <2>2. reflector' = Learnt(reflector, Len(rows[Answering(stores)]) + 1, {TopicOf[item.fact]})
      BY <1>5, <1>10
    <2>3. Alters(stores) /\ Goes
      <3> HIDE DEF item
      <3> QED
        BY <1>6, <2>1, <2>2
    <2> HIDE DEF Learn, Supersede, Merge, Insert, named, rivals, duplicate
    <2> QED
      BY <1>1, <1>2, <1>4, <2>3
  <1> HIDE DEF Learn, Supersede, Merge, Insert, named, rivals, duplicate, Alters, Goes
  <1> QED
    BY <1>2, <1>7, <1>8, <1>9, <1>10

\* What a pass has learnt it has in its types.
LEMMA LearntTyped ==
  ASSUME NEW r \in Pass, r.items # <<>>, NEW i \in Id,
         NEW topics \in SUBSET {TopicOf[Head(r.items).fact]}
  PROVE  /\ DoneWith(r) \in Pass /\ Len(DoneWith(r).items) <= Len(r.items)
         /\ Learnt(r, i, topics) \in Pass /\ Len(Learnt(r, i, topics).items) <= Len(r.items)
         /\ [r EXCEPT !.refused = TRUE] \in Pass
         /\ DoneWith(r).chat = r.chat /\ DoneWith(r).from = r.from /\ DoneWith(r).upTo = r.upTo
         /\ Learnt(r, i, topics).chat = r.chat /\ Learnt(r, i, topics).from = r.from
         /\ Learnt(r, i, topics).upTo = r.upTo
  <1> DEFINE rest == Tail(r.items)
             fact == Head(r.items).fact
             done == DoneWith(r)
  <1>1. r.items \in Seq(Item) /\ Len(r.items) \in Nat
    BY DEF Pass
  <1>2. rest \in Seq(Item) /\ Len(rest) = Len(r.items) - 1 /\ Head(r.items) \in Item
    BY <1>1, HeadTailProperties
  <1>3. fact \in Fact /\ topics \subseteq Range(TopicOf)
    <2>1. fact \in Fact
      BY <1>2 DEF Item
    <2> QED
      BY <2>1, MemoryBounds
  <1>4. done = [r EXCEPT !.items = rest, !.refused = FALSE]
    BY DEF DoneWith
  <1> HIDE DEF rest
  <1>5. /\ done \in Pass /\ done.items = rest /\ done.chat = r.chat
        /\ done.from = r.from /\ done.upTo = r.upTo
    <2> HIDE DEF done
    <2> QED
      BY <1>2, <1>4 DEF Pass
  <1> DEFINE learnt == Learnt(r, i, topics)
  <1>6. learnt = [done EXCEPT !.seen = @ \cup {<<i, fact>>}, !.claimed = @ \cup topics]
    BY DEF Learnt
  <1> HIDE DEF done, fact
  <1>7. /\ done.seen \cup {<<i, fact>>} \in SUBSET (Id \X Fact)
        /\ done.claimed \cup topics \in SUBSET Range(TopicOf)
    BY <1>3, <1>5 DEF Pass
  <1> DEFINE seenNow == done.seen \cup {<<i, fact>>}
             claimedNow == done.claimed \cup topics
  <1>8. learnt = [done EXCEPT !.seen = seenNow, !.claimed = claimedNow]
    BY <1>5, <1>6 DEF Pass
  <1>9. seenNow \in SUBSET (Id \X Fact) /\ claimedNow \in SUBSET Range(TopicOf)
    BY <1>7
  <1> HIDE DEF learnt, seenNow, claimedNow
  <1>10. learnt \in Pass /\ learnt.items = done.items /\ learnt.chat = done.chat
         /\ learnt.from = done.from /\ learnt.upTo = done.upTo
    BY <1>5, <1>8, <1>9 DEF Pass
  <1>11. [r EXCEPT !.refused = TRUE] \in Pass
    BY DEF Pass
  <1> QED
    BY <1>1, <1>2, <1>5, <1>10, <1>11 DEF done, learnt

\* An item of the model's answer is applied.
LEMMA ApplyTyped ==
  ASSUME MemoryTypeInv, ApplyItem
  PROVE  MemoryTypeInv'
  <1>1. /\ reflector.at = "applying" /\ reflector.items # <<>>
        /\ UNCHANGED <<cursor, extracted, tool, command, stored, probeOk>>
        /\ \E stores \in Writes : recentFailures' = Counted(Answering(stores))
    BY ApplyDoes
  <1>2. PICK fact \in Fact, stores \in Writes :
               /\ fact = Head(reflector.items).fact
               /\ \/ \E i : UpdateRow(stores, i, fact)
                  \/ \E i : Room(stores) /\ SupersedeRow(stores, i, fact)
                  \/ Room(stores) /\ InsertMemory(stores, reflector.chat, fact)
                  \/ UNCHANGED rows
               /\ \/ \E i \in Id, topics \in SUBSET {TopicOf[fact]} :
                        reflector' = Learnt(reflector, i, topics)
                  \/ reflector' = [reflector EXCEPT !.refused = TRUE]
                  \/ reflector' = DoneWith(reflector)
    BY ApplyDoes
  <1>3. /\ reflector \in Pass /\ Len(reflector.items) <= MaxItems /\ Len(reflector.items) \in Nat
        /\ reflector.chat \in Chat /\ reflector.upTo \in 1 .. stored[reflector.chat]
        /\ reflector.from < reflector.upTo
    BY <1>1, AtWork DEF Pass
  <1>4. RowsTyped(rows) /\ CountsTyped /\ recentFailures \in 0 .. PauseAfter
    BY DEF MemoryTypeInv
  <1>5. RowsTyped(rows')
    BY <1>2, <1>3, <1>4, UpdateTyped, SupersedeTyped, InsertTyped
  <1>6. recentFailures' \in 0 .. PauseAfter
    BY <1>1, <1>4, CountedTyped
  <1>7. CountsTyped'
    BY <1>1, <1>4 DEF CountsTyped
  <1>8. /\ reflector' \in Pass /\ Len(reflector'.items) <= Len(reflector.items)
        /\ reflector'.chat = reflector.chat
        /\ reflector'.from = reflector.from /\ reflector'.upTo = reflector.upTo
    <2>1. CASE \E i \in Id, topics \in SUBSET {TopicOf[fact]} : reflector' = Learnt(reflector, i, topics)
      <3>1. fact = Head(reflector.items).fact
        BY <1>2
      <3>2. PICK i \in Id, topics \in SUBSET {TopicOf[fact]} : reflector' = Learnt(reflector, i, topics)
        BY <2>1
      <3>3. topics \in SUBSET {TopicOf[Head(reflector.items).fact]}
        BY <3>1, <3>2
      <3>4. /\ Learnt(reflector, i, topics) \in Pass
            /\ Len(Learnt(reflector, i, topics).items) <= Len(reflector.items)
            /\ Learnt(reflector, i, topics).chat = reflector.chat
            /\ Learnt(reflector, i, topics).from = reflector.from
            /\ Learnt(reflector, i, topics).upTo = reflector.upTo
        BY <1>1, <1>3, <3>3, LearntTyped
      <3> QED
        BY <3>2, <3>4
    <2>2. CASE reflector' = DoneWith(reflector)
      <3>1. Tail(reflector.items) \in Seq(Item) /\ Len(Tail(reflector.items)) = Len(reflector.items) - 1
        BY <1>1, <1>3, HeadTailProperties DEF Pass
      <3> DEFINE rest == Tail(reflector.items)
      <3>2. reflector' = [reflector EXCEPT !.items = rest, !.refused = FALSE]
        BY <2>2 DEF DoneWith
      <3>3. rest \in Seq(Item) /\ Len(rest) <= Len(reflector.items)
        BY <1>3, <3>1
      <3> HIDE DEF rest
      <3> QED
        BY <1>3, <3>2, <3>3 DEF Pass
    <2>3. CASE reflector' = [reflector EXCEPT !.refused = TRUE]
      <3>1. /\ [reflector EXCEPT !.refused = TRUE] \in Pass
            /\ [reflector EXCEPT !.refused = TRUE].items = reflector.items
            /\ [reflector EXCEPT !.refused = TRUE].chat = reflector.chat
            /\ [reflector EXCEPT !.refused = TRUE].from = reflector.from
            /\ [reflector EXCEPT !.refused = TRUE].upTo = reflector.upTo
        BY <1>3 DEF Pass
      <3> QED
        BY <1>3, <2>3, <3>1
    <2> QED
      BY <1>2, <2>1, <2>2, <2>3
  <1>9. Len(reflector'.items) <= MaxItems
    <2>1. reflector'.items \in Seq(Item)
      BY <1>8 DEF Pass
    <2>2. Len(reflector'.items) \in Nat
      BY <2>1
    <2> QED
      BY <1>3, <1>8, <2>2, MemoryBounds
  <1>10. PassTyped'
    BY <1>1, <1>3, <1>8, <1>9 DEF PassTyped
  <1> QED
    BY <1>1, <1>5, <1>6, <1>7, <1>10 DEF MemoryTypeInv

\* The pass ends: excess rows are archived and the cursor is set.
LEMMA FinishTyped ==
  ASSUME MemoryTypeInv, FinishReflecting
  PROVE  MemoryTypeInv'
  <1>0. RowsTyped(rows) /\ CountsTyped
    BY DEF MemoryTypeInv
  <1>1. /\ reflector.at = "applying" /\ MoveCursor(reflector.chat) /\ reflector' = Idle
        /\ UNCHANGED <<recentFailures, extracted, tool, command, stored, probeOk>>
    BY DEF FinishReflecting, ReflectorVars
  <1>2. PICK aged : rows' = [rows EXCEPT !["sqlite"] =
                      [i \in DOMAIN @ |-> IF i \in aged THEN [@[i] EXCEPT !.archived = TRUE] ELSE @[i]]]
    BY DEF FinishReflecting
  <1> DEFINE q == rows["sqlite"]
             new == [i \in DOMAIN q |-> IF i \in aged THEN [q[i] EXCEPT !.archived = TRUE] ELSE q[i]]
  <1>3. q \in Seq(Row) /\ Len(q) <= MaxRows /\ Len(q) \in Nat /\ "sqlite" \in DOMAIN rows
    BY <1>0 DEF RowsTyped, Store
  <1>4. rows' = [rows EXCEPT !["sqlite"] = new]
    BY <1>2, <1>3
  <1> HIDE DEF q
  <1>5. \A i \in 1 .. Len(q) : q[i] \in Row /\ [q[i] EXCEPT !.archived = TRUE] \in Row
    <2>1. ASSUME NEW r \in Row PROVE [r EXCEPT !.archived = TRUE] \in Row
      BY DEF Row
    <2>2. \A i \in 1 .. Len(q) : q[i] \in Row
      BY <1>3
    <2> QED
      BY <2>1, <2>2
  <1>6. new \in [1 .. Len(q) -> Row]
    BY <1>3, <1>5
  <1> HIDE DEF new
  <1>7. new \in Seq(Row) /\ Len(new) = Len(q)
    BY <1>3, <1>6
  <1>8. RowsTyped(rows')
    BY <1>0, <1>3, <1>4, <1>7 DEF RowsTyped
  <1>9. cursor' \in [Chat -> Nat] /\ \A c \in Chat : cursor'[c] <= stored[c]
    BY <1>1, MovedTyped
  <1>10. CountsTyped'
    BY <1>0, <1>1, <1>9 DEF CountsTyped
  <1>11. PassTyped'
    BY <1>1 DEF PassTyped
  <1> QED
    BY <1>1, <1>8, <1>10, <1>11 DEF MemoryTypeInv

\* A restart forgets the tools, the commands and the pass, and no row.
LEMMA RestartTyped ==
  ASSUME MemoryTypeInv, RestartMemories
  PROVE  MemoryTypeInv'
  <1>1. /\ reflector' = Idle /\ UNCHANGED <<rows, stored, cursor, extracted>>
        /\ tool' = [c \in Chat |-> 0] /\ command' = [c \in Chat |-> NoDecision]
        /\ probeOk' \in BOOLEAN /\ recentFailures' = IF probeOk' THEN 0 ELSE 1
    BY DEF RestartMemories
  <1>2. NoDecision \in Decision
    BY MemoryBounds DEF NoDecision, Decision
  <1>3. tool' \in [Chat -> 0 .. MaxRows] /\ command' \in [Chat -> Decision]
    BY <1>1, <1>2, MemoryBounds
  <1>4. recentFailures' \in 0 .. PauseAfter
    BY <1>1, MemoryBounds
  <1>5. RowsTyped(rows') /\ CountsTyped' /\ PassTyped'
    BY <1>1 DEF MemoryTypeInv, CountsTyped, PassTyped
  <1> QED
    BY <1>1, <1>3, <1>4, <1>5 DEF MemoryTypeInv

\* Every step of the memories keeps the types.
LEMMA MemoryTypesStep ==
  ASSUME MemoryTypeInv, [MemoryNext]_memVars
  PROVE  MemoryTypeInv'
  <1>1. CASE UNCHANGED memVars
    BY <1>1 DEF memVars, MemoryTypeInv, RowsTyped, PassTyped, CountsTyped
  <1>2. CASE MemoryNext
    <2>1. \/ GiveUpReflecting \/ ExtractNothing \/ ExtractItems \/ ApplyItem \/ FinishReflecting
          \/ RestartMemories
          \/ \E c \in Chat : \/ CheckMemory(c) \/ DeleteMemory(c) \/ UpdateMemory(c) \/ HearCommand(c)
                             \/ ObeyCommand(c) \/ StoreMessage(c) \/ StartReflecting(c)
      BY <1>2 DEF MemoryNext
    <2> QED
      BY <2>1, ToolsTyped, StoreTyped, StartTyped, AskedTyped, ApplyTyped, FinishTyped, RestartTyped
  <1> QED
    BY <1>1, <1>2

\* The stores are empty at first.
LEMMA MemoryTypesInit == MemoryInit => MemoryTypeInv
  <1> SUFFICES ASSUME MemoryInit PROVE MemoryTypeInv
    OBVIOUS
  <1>1. RowsTyped(rows)
    BY MemoryBounds DEF MemoryInit, RowsTyped
  <1>2. PassTyped
    BY DEF MemoryInit, PassTyped
  <1>3. CountsTyped
    BY MemoryBounds DEF MemoryInit, CountsTyped
  <1>4. NoDecision \in Decision
    BY MemoryBounds DEF NoDecision, Decision
  <1>5. tool \in [Chat -> 0 .. MaxRows] /\ command \in [Chat -> Decision]
    BY <1>4, MemoryBounds DEF MemoryInit
  <1>6. probeOk \in BOOLEAN /\ recentFailures \in 0 .. PauseAfter
    <2>1. probeOk \in BOOLEAN
      BY DEF MemoryInit
    <2>2. recentFailures = 0 \/ recentFailures = 1
      BY DEF MemoryInit
    <2> QED
      BY <2>1, <2>2, MemoryBounds
  <1> QED
    BY <1>1, <1>2, <1>3, <1>5, <1>6 DEF MemoryTypeInv

\* The invariant says what the types say.
LEMMA MemoryTyped == ASSUME MemoryTypeInv PROVE MemoryTypeOK
  <1>1. /\ RowsTyped(rows) /\ PassTyped /\ CountsTyped
        /\ tool \in [Chat -> 0 .. MaxRows] /\ command \in [Chat -> Decision]
        /\ probeOk \in BOOLEAN /\ recentFailures \in 0 .. PauseAfter
    BY DEF MemoryTypeInv
  <1>2. \A s \in Store : rows[s] \in BoundedSeq(Row, MaxRows)
    BY <1>1, MemoryBounds, BoundedSeqIs DEF RowsTyped
  <1>3. \A c \in Chat : cursor[c] \in 0 .. stored[c]
    BY <1>1, MemoryBounds DEF CountsTyped
  <1>4. CASE reflector = Idle
    <2>1. reflector.at = "idle"
      BY <1>4 DEF Idle
    <2> QED
      BY <1>1, <1>2, <1>3, <2>1 DEF MemoryTypeOK, CountsTyped
  <1>5. CASE reflector # Idle
    <2>1. /\ reflector \in Pass /\ Len(reflector.items) <= MaxItems
          /\ reflector.upTo \in 1 .. stored[reflector.chat] /\ reflector.from < reflector.upTo
      BY <1>1, <1>5 DEF PassTyped
    <2>2. /\ reflector.at \in {"idle", "asking", "applying"}
          /\ reflector.chat \in Chat /\ reflector.from \in Nat /\ reflector.upTo \in Nat /\ reflector.known \subseteq Known
          /\ reflector.claimed \subseteq Range(TopicOf)
          /\ reflector.items \in Seq(Item)
          /\ \A k \in reflector.seen : k[1] \in Id /\ k[2] \in Fact
          /\ reflector.refused \in BOOLEAN
      BY <2>1 DEF Pass
    <2>3. reflector.items \in BoundedSeq(Item, MaxItems)
      BY <2>1, <2>2, MemoryBounds, BoundedSeqIs
    <2>4. reflector.from \in 0 .. (reflector.upTo - 1)
      BY <2>1, <2>2
    <2> QED
      BY <1>1, <1>2, <1>3, <2>1, <2>2, <2>3, <2>4 DEF MemoryTypeOK, CountsTyped
  <1> QED
    BY <1>4, <1>5

\* The memories stay in their types: no store has more rows than there is room
\* for, and no cursor is beyond the messages, for any chats and facts.
THEOREM MemoryTypes == MemorySpec => []MemoryTypeOK
  <1>1. MemoryTypeInv /\ [MemoryNext]_memVars => MemoryTypeInv'
    BY MemoryTypesStep
  <1>2. MemoryTypeInv => MemoryTypeOK
    BY MemoryTyped
  <1> QED
    BY <1>1, <1>2, MemoryTypesInit, PTL DEF MemorySpec

-----------------------------------------------------------------------------
(* Skills and their reviews: any number of chats, skills and turns.         *)

\* A review knows a person's skill for what it is, and the sweep has none in
\* hand, unless the person came after they had looked.
LooksInv ==
    /\ review # NoReview => \A s \in Skill :
          file[s] = "human" /\ s \notin review.byHand \cup review.unseen => review.seen[s] = "human"
    /\ sweep # NoSkill /\ file[sweep.skill] = "human" => sweep.byHand

SkillInv == SkillTypeOK /\ TurnsAreReviewed /\ LooksInv

\* There are no skills and no turns.
LEMMA SkillInitially == SkillInit => SkillInv
  BY DEF SkillInit, SkillInv, SkillTypeOK, TurnsAreReviewed, LooksInv

\* A chat that is enqueued is with the chats of the queue.
LEMMA EnqueuedIsIn ==
  ASSUME NEW q \in Seq(Author), NEW c \in Author
  PROVE  Append(q, c) \in Seq(Author) /\ ToSet(Append(q, c)) = ToSet(q) \cup {c}
  <1>1. /\ Append(q, c) \in Seq(Author) /\ Len(Append(q, c)) = Len(q) + 1 /\ Len(q) \in Nat
        /\ \A i \in 1 .. Len(q) : Append(q, c)[i] = q[i]
        /\ Append(q, c)[Len(q) + 1] = c
    BY AppendProperties
  <1>2. DOMAIN q = 1 .. Len(q) /\ DOMAIN Append(q, c) = 1 .. Len(q) + 1
    BY <1>1
  <1>3. \A i \in 1 .. Len(q) + 1 : i \in 1 .. Len(q) \/ i = Len(q) + 1
    BY <1>1
  <1>4. Len(q) + 1 \in 1 .. Len(q) + 1 /\ \A i \in 1 .. Len(q) : i \in 1 .. Len(q) + 1
    BY <1>1
  <1>5. ToSet(q) = {q[i] : i \in 1 .. Len(q)} /\ ToSet(Append(q, c)) = {Append(q, c)[i] : i \in 1 .. Len(q) + 1}
    BY <1>2 DEF ToSet
  <1>6. ASSUME NEW x PROVE x \in ToSet(Append(q, c)) <=> x \in ToSet(q) \/ x = c
    <2>1. x \in ToSet(Append(q, c)) <=> \E i \in 1 .. Len(q) + 1 : x = Append(q, c)[i]
      BY <1>5
    <2>2. x \in ToSet(q) <=> \E i \in 1 .. Len(q) : x = q[i]
      BY <1>5
    <2> QED
      BY <1>1, <1>3, <1>4, <2>1, <2>2
  <1> QED
    BY <1>1, <1>6

\* The ends of turns, the queue and its worker touch no skill.
LEMMA QueueKeeps ==
  ASSUME SkillInv, NEW c \in Author, SaveTurn(c) \/ enqueue(c) \/ TakeReviews
  PROVE  SkillInv'
  <1> USE DEF SkillInv, diskVars
  <1>0. UNCHANGED <<file, hidden, unused, sweep, review>>
    BY DEF SaveTurn, enqueue, TakeReviews
  <1>1. LooksInv'
    BY <1>0 DEF LooksInv
  <1>2. CASE SaveTurn(c)
    <2>1. SkillTypeOK'
      BY <1>0, <1>2 DEF SaveTurn, SkillTypeOK
    <2> QED
      BY <1>1, <1>2, <2>1 DEF SaveTurn, TurnsAreReviewed
  <1>3. CASE enqueue(c)
    <2>1. reviews \in Seq(Author)
      BY DEF SkillTypeOK
    <2>2. reviews' \in Seq(Author) /\ ToSet(reviews') = ToSet(reviews) \cup {c}
      BY <1>3, <2>1, EnqueuedIsIn DEF enqueue
    <2>3. SkillTypeOK'
      BY <1>0, <1>3, <2>2 DEF enqueue, SkillTypeOK
    <2>4. TurnsAreReviewed'
      BY <1>3, <2>2 DEF enqueue, TurnsAreReviewed
    <2> QED
      BY <1>1, <2>3, <2>4
  <1>4. CASE TakeReviews
    <2>1. ToSet(reviews) \subseteq Author
      <3>1. reviews \in Seq(Author)
        BY DEF SkillTypeOK
      <3> QED
        BY <3>1 DEF ToSet
    <2>2. SkillTypeOK'
      BY <1>0, <1>4, <2>1 DEF TakeReviews, SkillTypeOK
    <2>3. TurnsAreReviewed'
      BY <1>4 DEF TakeReviews, TurnsAreReviewed
    <2> QED
      BY <1>1, <2>2, <2>3
  <1> QED
    BY <1>2, <1>3, <1>4

\* A review is shown what people wrote as theirs, or not shown it at all.
LEMMA ReviewKeeps ==
  ASSUME SkillInv, NEW c \in Author, run_skill_review(c)
  PROVE  SkillInv'
  <1> USE DEF SkillInv
  <1>0. /\ UNCHANGED <<file, hidden, unused, sweep, unqueued, reviews>>
        /\ review = NoReview
        /\ pending' = pending \ {c} /\ unreviewed' = unreviewed \ {c}
        /\ \/ review' = NoReview
           \/ review' = [seen |-> ShownSkills, byHand |-> {}, unseen |-> {s \in hidden : file[s] # "none"}]
    BY DEF run_skill_review, diskVars
  <1>1. ShownSkills \in [Skill -> {"none", "human", "agent"}]
        /\ \A s \in Skill : file[s] = "human" /\ s \notin hidden => ShownSkills[s] = "human"
    <2>1. file \in [Skill -> {"none", "human", "agent", "patched"}]
      BY DEF SkillTypeOK
    <2> QED
      BY <2>1 DEF ShownSkills
  <1>2. SkillTypeOK'
    <2>1. {s \in hidden : file[s] # "none"} \in SUBSET Skill
      BY DEF SkillTypeOK
    <2>2. review' = NoReview \/ review' \in Review
      BY <1>0, <1>1, <2>1 DEF Review
    <2> QED
      BY <1>0, <2>2 DEF SkillTypeOK
  <1>3. TurnsAreReviewed'
    BY <1>0 DEF TurnsAreReviewed
  <1>4. LooksInv'
    BY <1>0, <1>1 DEF LooksInv, SkillTypeOK
  <1> QED
    BY <1>2, <1>3, <1>4

\* Steps that leave a person's skills to the person, or hand them over.
LEMMA DiskKeeps ==
  ASSUME SkillInv, UNCHANGED queueVars,
         file' \in [Skill -> {"none", "human", "agent", "patched"}],
         hidden' \subseteq Skill, unused' \subseteq Skill,
         review' \in {review, NoReview},
         sweep' \in {sweep, NoSkill},
         \A s \in Skill : file'[s] = "human" => file[s] = "human"
  PROVE  SkillInv'
  <1> USE DEF SkillInv, queueVars
  <1>1. SkillTypeOK'
    BY DEF SkillTypeOK
  <1>2. TurnsAreReviewed'
    BY DEF TurnsAreReviewed
  <1>3. LooksInv'
    <2>1. sweep # NoSkill => sweep.skill \in Skill
      BY DEF SkillTypeOK, Sweep
    <2> QED
      BY <2>1 DEF LooksInv
  <1> QED
    BY <1>1, <1>2, <1>3

\* The sweep takes a skill in hand that an agent wrote.
LEMMA FindKeeps ==
  ASSUME SkillInv, NEW s \in Skill, FindUnused(s)
  PROVE  SkillInv'
  <1> USE DEF SkillInv, FindUnused, queueVars
  <1>1. SkillTypeOK'
    BY DEF SkillTypeOK, Sweep
  <1>2. TurnsAreReviewed'
    BY DEF TurnsAreReviewed
  <1>3. LooksInv'
    BY DEF LooksInv, should_archive_skill
  <1> QED
    BY <1>1, <1>2, <1>3

\* What a person writes meanwhile is remembered as such.
LEMMA HandKeeps ==
  ASSUME SkillInv, NEW s \in Skill, WriteByHand(s)
  PROVE  SkillInv'
  <1> USE DEF SkillInv, queueVars
  <1>0. /\ UNCHANGED <<hidden, unqueued, reviews, pending, unreviewed>>
        /\ file' \in [Skill -> {"none", "human", "agent", "patched"}]
        /\ \A z \in Skill : file'[z] = IF z = s THEN "human" ELSE file[z]
        /\ unused' = unused \ {s}
    BY DEF WriteByHand, Written, SkillTypeOK
  <1>1. /\ review = NoReview => review' = NoReview
        /\ review # NoReview => review' \in Review /\ review'.byHand = review.byHand \cup {s}
                                /\ review'.seen = review.seen /\ review'.unseen = review.unseen
    BY DEF WriteByHand, SkillTypeOK, Review
  <1>2. /\ sweep = NoSkill \/ sweep \in Sweep
        /\ sweep' = IF sweep = NoSkill \/ sweep.skill # s THEN sweep ELSE [sweep EXCEPT !.byHand = TRUE]
    BY DEF WriteByHand, SkillTypeOK
  <1>3. /\ sweep = NoSkill => sweep' = NoSkill
        /\ sweep # NoSkill => sweep' \in Sweep /\ sweep'.skill = sweep.skill
                              /\ sweep'.byHand = IF sweep.skill = s THEN TRUE ELSE sweep.byHand
    BY <1>2 DEF Sweep
  <1>4. SkillTypeOK'
    BY <1>0, <1>1, <1>3 DEF SkillTypeOK
  <1>5. TurnsAreReviewed'
    BY <1>0 DEF TurnsAreReviewed
  <1>6. LooksInv'
    <2>1. review' # NoReview => \A z \in Skill :
             file'[z] = "human" /\ z \notin review'.byHand \cup review'.unseen => review'.seen[z] = "human"
      BY <1>0, <1>1 DEF LooksInv
    <2>2. sweep' # NoSkill /\ file'[sweep'.skill] = "human" => sweep'.byHand
      <3>1. sweep # NoSkill => sweep.skill \in Skill
        BY <1>2 DEF Sweep
      <3> QED
        BY <1>0, <1>3, <3>1 DEF LooksInv
    <2> QED
      BY <2>1, <2>2 DEF LooksInv
  <1> QED
    BY <1>4, <1>5, <1>6

\* What is written, and what is not, in a step that is not a person's.
LEMMA WrittenKeeps ==
  ASSUME SkillTypeOK, NEW s \in Skill, NEW who \in {"agent", "patched", file[s]}, Written(s, who)
  PROVE  /\ file' \in [Skill -> {"none", "human", "agent", "patched"}]
         /\ hidden' \subseteq Skill /\ unused' \subseteq Skill
         /\ \A z \in Skill : file'[z] = "human" => file[z] = "human"
  BY DEF Written, SkillTypeOK

\* An action of a review.
LEMMA ApplyKeeps ==
  ASSUME SkillInv, apply_review_action
  PROVE  SkillInv'
  <1>1. /\ UNCHANGED <<queueVars, sweep>> /\ review' = NoReview
        /\ \/ NothingReviewed
           \/ \E s \in Skill : CreateReviewed(s) \/ EditReviewed(s) \/ PatchReviewed(s)
    BY DEF apply_review_action
  <1>2. CASE NothingReviewed
    BY <1>1, <1>2, DiskKeeps DEF NothingReviewed, SkillInv, SkillTypeOK
  <1>3. ASSUME NEW s \in Skill, CreateReviewed(s) \/ EditReviewed(s) \/ PatchReviewed(s)
        PROVE  SkillInv'
    <2>1. \E who \in {"agent", "patched", file[s]} : Written(s, who)
      BY <1>3 DEF CreateReviewed, EditReviewed, PatchReviewed
    <2> QED
      BY <1>1, <2>1, WrittenKeeps, DiskKeeps DEF SkillInv
  <1> QED
    BY <1>1, <1>2, <1>3

\* The tool writes as the agent.
LEMMA ManageKeeps ==
  ASSUME SkillInv, NEW s \in Skill, ManageSkill(s)
  PROVE  SkillInv'
  <1>1. CASE \E who \in {"agent", "patched", file[s]} : Written(s, who)
    BY <1>1, WrittenKeeps, DiskKeeps DEF SkillInv, ManageSkill
  <1>2. CASE file' = [file EXCEPT ![s] = "none"] /\ UNCHANGED <<hidden, unused>>
    BY <1>2, DiskKeeps DEF SkillInv, SkillTypeOK, ManageSkill
  <1> QED
    BY <1>1, <1>2 DEF ManageSkill

\* Every step of the chats, the worker, the sweep and the people.
LEMMA SkillStep == SkillInv /\ [SkillNext]_skillVars => SkillInv'
  <1> SUFFICES ASSUME SkillInv, [SkillNext]_skillVars PROVE SkillInv'
    OBVIOUS
  <1>0. SkillTypeOK
    BY DEF SkillInv
  <1>1. CASE UNCHANGED skillVars
    BY <1>0, <1>1, DiskKeeps DEF skillVars, queueVars, SkillTypeOK
  <1>2. ASSUME NEW c \in Author, SaveTurn(c) \/ enqueue(c) PROVE SkillInv'
    BY <1>2, QueueKeeps
  <1>3. ASSUME NEW c \in Author, run_skill_review(c) PROVE SkillInv'
    BY <1>3, ReviewKeeps
  <1>4. CASE TakeReviews
    <2>1. reviews # <<>> /\ reviews \in Seq(Author)
      BY <1>4 DEF TakeReviews, SkillInv, SkillTypeOK
    <2>2. Head(reviews) \in Author
      BY <2>1
    <2> QED
      BY <1>4, <2>2, QueueKeeps
  <1>5. CASE apply_review_action
    BY <1>5, ApplyKeeps
  <1>6. CASE archive_inactive_agent_skills
    BY <1>0, <1>6, DiskKeeps DEF archive_inactive_agent_skills, SkillTypeOK
  <1>7. ASSUME NEW s \in Skill, FindUnused(s) PROVE SkillInv'
    BY <1>7, FindKeeps
  <1>8. ASSUME NEW s \in Skill, ManageSkill(s) PROVE SkillInv'
    BY <1>8, ManageKeeps
  <1>9. ASSUME NEW s \in Skill, ActivateSkill(s) \/ set_enabled(s) \/ DaysPass(s) PROVE SkillInv'
    BY <1>0, <1>9, DiskKeeps DEF ActivateSkill, set_enabled, DaysPass, SkillTypeOK
  <1>10. ASSUME NEW s \in Skill, WriteByHand(s) PROVE SkillInv'
    BY <1>10, HandKeeps
  <1>11. CASE RestartSkills
    BY <1>11 DEF RestartSkills, SkillInv, SkillTypeOK, TurnsAreReviewed, LooksInv
  <1> QED
    BY <1>1, <1>2, <1>3, <1>4, <1>5, <1>6, <1>7, <1>8, <1>9, <1>10, <1>11 DEF SkillNext

\* The invariant of the skills, for any number of them and of chats.
THEOREM SkillInvariant == SkillSpec => []SkillInv
  <1> QED
    BY SkillInitially, SkillStep, PTL DEF SkillSpec

\* No turn that was saved is forgotten by the queue and its worker.
THEOREM ReviewsFollowTurns == SkillSpec => []TurnsAreReviewed
  <1>1. SkillInv => TurnsAreReviewed
    BY DEF SkillInv
  <1> QED
    BY <1>1, SkillInvariant, PTL

\* One step of HumanSkillsKept.
KeepsHuman ==
    \A s \in Skill :
        file[s] = "human" /\ file'[s] # "human" =>
           /\ review # NoReview /\ review' = NoReview =>
                 s \in review.byHand \cup review.unseen
           /\ sweep # NoSkill /\ sweep' = NoSkill => sweep.byHand

\* A review and the sweep keep what a person wrote before they looked: the only
\* steps that end a review or a sweep are their own last ones and a restart.
LEMMA HumanKept ==
  ASSUME SkillInv, SkillNext
  PROVE  KeepsHuman
  <1>1. CASE apply_review_action
    <2> SUFFICES ASSUME NEW s \in Skill, file[s] = "human", file'[s] # "human"
                 PROVE  s \in review.byHand \cup review.unseen
      BY <1>1 DEF apply_review_action, KeepsHuman
    <2>1. review # NoReview
      BY <1>1 DEF apply_review_action
    <2>2. PICK z \in Skill : CreateReviewed(z) \/ EditReviewed(z) \/ PatchReviewed(z)
      BY <1>1 DEF apply_review_action, NothingReviewed
    <2>3. z = s
      BY <2>2 DEF CreateReviewed, EditReviewed, PatchReviewed, Written, SkillInv, SkillTypeOK
    <2>4. review.seen[s] # "human"
      BY <2>2, <2>3 DEF CreateReviewed, EditReviewed, PatchReviewed, Mutable
    <2> QED
      BY <2>1, <2>4 DEF SkillInv, LooksInv
  <1>2. CASE archive_inactive_agent_skills
    <2> SUFFICES ASSUME NEW s \in Skill, file[s] = "human", file'[s] # "human"
                 PROVE  sweep.byHand
      BY <1>2 DEF archive_inactive_agent_skills, KeepsHuman
    <2>1. sweep # NoSkill /\ sweep.skill = s
      BY <1>2 DEF archive_inactive_agent_skills, SkillInv, SkillTypeOK
    <2> QED
      BY <2>1 DEF SkillInv, LooksInv
  <1>3. CASE RestartSkills
    BY <1>3 DEF RestartSkills, KeepsHuman
  <1>4. ASSUME NEW s \in Skill, WriteByHand(s) PROVE KeepsHuman
    BY <1>4 DEF WriteByHand, Written, KeepsHuman, SkillInv, SkillTypeOK
  <1>5. CASE UNCHANGED file
    BY <1>5 DEF KeepsHuman
  <1>6. ASSUME NEW s \in Skill, ManageSkill(s) PROVE KeepsHuman
    BY <1>6 DEF ManageSkill, KeepsHuman
  <1> QED
    BY <1>1, <1>2, <1>3, <1>4, <1>5, <1>6
       DEF SkillNext, SaveTurn, enqueue, run_skill_review, TakeReviews, FindUnused, ActivateSkill,
           set_enabled, DaysPass, diskVars

\* Neither a review nor the sweep takes a skill from the person who wrote it
\* before they looked.
THEOREM PeopleKeepSkills == SkillSpec => HumanSkillsKept
  <1>1. SkillInv /\ [SkillNext]_skillVars => [KeepsHuman]_skillVars
    BY HumanKept
  <1> QED
    BY <1>1, SkillInvariant, PTL DEF SkillSpec, HumanSkillsKept, KeepsHuman

-----------------------------------------------------------------------------
(* Messages of the platforms: any number of messages, chats and handlers.   *)

\* A handler is beyond the step s of its message.
Past(h, s) == ~Free(h) /\ \E i \in DOMAIN Steps : Steps[i] = s /\ i < handling[h].at
Marks == {"guard", "store", "command", "groupCommand"}

HasRow(m) == \E r \in storedRows : r.chat = m.chat /\ r.id = m.id
RawRow(m) == \E r \in storedRows : r.chat = m.chat /\ r.id = m.id /\ ~r.found

Stands == [msg : Post \cup {NoPost}, at : Nat, row : BOOLEAN]
StoredRow == [chat : {m.chat : m \in Post}, id : {m.id : m \in Post}, found : BOOLEAN]

InboxTyping ==
    /\ channel \in Channel
    /\ handling \in [Handler -> Stands]
    /\ \A h \in Handler : ~Free(h) => handling[h].at \in DOMAIN Steps
    /\ inboxBatch \in Seq(Post)
    /\ fetched \in 0 .. Len(Feed) /\ savedCursor \in 0 .. fetched
    /\ old \subseteq Post /\ delivered \subseteq Post /\ excused \subseteq Post
    /\ passed \subseteq Post /\ lapsed \subseteq passed
    /\ taken \in [Post -> {"no", "once", "twice"}]
    /\ seen \subseteq {m.id : m \in Post}
    /\ storedRows \subseteq StoredRow

\* Who is beyond the guard has passed it, and of two with the same message the
\* guard had forgotten the first.
GuardInv ==
    /\ \A i \in seen : \E n \in passed : n.id = i
    /\ \A m \in passed : m \in lapsed \/ m.id \in seen
    /\ \A h \in Handler : Past(h, "guard") => handling[h].msg \in passed
    /\ \A h, k \in Handler :
          h # k /\ Past(h, "guard") /\ Past(k, "guard") /\ handling[h].msg = handling[k].msg
             => handling[h].msg \in lapsed
    /\ \A h \in Handler : Past(h, "guard") /\ taken[handling[h].msg] # "no" => handling[h].msg \in lapsed
    /\ \A m \in Post : channel # "irc" /\ taken[m] # "no" => m \in passed
    /\ \A m \in Post : channel # "irc" /\ taken[m] = "twice" => m \in lapsed

CommandsEnd ==
    \A h \in Handler : Past(h, "command") \/ Past(h, "groupCommand") => ~handling[h].msg.command

RowsCount(m) == channel # "irc" /\ (m.command => channel = "feishu")

\* Who is beyond the table has its row there, and of two with the same message
\* one has the row of a look-up that failed.
RowInv ==
    /\ \A h \in Handler : Past(h, "store") => HasRow(handling[h].msg)
    /\ \A h, k \in Handler :
          h # k /\ Past(h, "store") /\ Past(k, "store") /\ handling[h].msg = handling[k].msg
             => RawRow(handling[h].msg)
    /\ \A h \in Handler : Past(h, "store") /\ taken[handling[h].msg] # "no" => RawRow(handling[h].msg)
    /\ \A m \in Post : RowsCount(m) /\ taken[m] # "no" => HasRow(m)
    /\ \A m \in Post : RowsCount(m) /\ taken[m] = "twice" => RawRow(m)

\* IRC delivers a line once and needs neither.
IrcInv ==
    /\ channel # "weixin" => inboxBatch = <<>>
    /\ channel = "irc" =>
          /\ \A h \in Handler : ~Free(h) => /\ handling[h].msg \in delivered
                                            /\ taken[handling[h].msg] = "no"
          /\ \A h, k \in Handler : h # k /\ ~Free(h) => handling[h].msg # handling[k].msg
          /\ \A m \in Post : taken[m] # "no" => m \in delivered
          /\ \A m \in Post : taken[m] # "twice"

Ended(m) == taken[m] # "no" \/ m \in excused
Continued(m, s) == \E h \in Handler : handling[h].msg = m /\ Past(h, s)

\* What stands in the way of a message, in the guard's table or in the
\* database, is that message, and it has ended or goes on.
CauseInv ==
    /\ \A m \in passed : Ended(m) \/ Continued(m, "guard")
    /\ \A m \in Post : HasRow(m) => Ended(m) \/ Continued(m, "store")
    /\ LossesHaveCause

InboxInv == InboxTyping /\ GuardInv /\ CommandsEnd /\ RowInv /\ IrcInv /\ CauseInv

\* What the order of an adapter's steps must be: the guard comes before whatever
\* takes a message up, and so does the table, except for commands.
Ordered(q, name) ==
    /\ \A i \in DOMAIN q : i \in Nat \ {0} /\ (q[i] # "turn" => i + 1 \in DOMAIN q)
    /\ \A i, j \in DOMAIN q : q[i] = q[j] /\ q[i] \in {"guard", "store"} => i = j
    /\ \A i \in DOMAIN q :
          /\ name # "irc" /\ q[i] \in {"turn", "focus", "command", "groupCommand", "store"}
                => \E j \in DOMAIN q : q[j] = "guard" /\ j < i
          /\ name # "irc" /\ q[i] \in {"turn", "focus"}
                => \E j \in DOMAIN q : q[j] = "store" /\ j < i
          /\ q[i] \in {"turn", "focus"}
                => \E j \in DOMAIN q : q[j] \in {"command", "groupCommand"} /\ j < i
          /\ name = "feishu" /\ q[i] \in {"command", "groupCommand"}
                => \E j \in DOMAIN q : q[j] = "store" /\ j < i
          /\ name # "feishu" /\ q[i] = "store"
                => \E j \in DOMAIN q : q[j] \in {"command", "groupCommand"} /\ j < i
          /\ name = "irc" => q[i] \notin {"guard", "store"}
    /\ 1 \in DOMAIN q

\* Each adapter's sequence of steps has that order.
LEMMA StepsOrdered ==
  ASSUME channel \in Channel
  PROVE  Ordered(Steps, channel)
  <1>1. \A n \in {"weixin", "qq", "signal", "whatsapp", "dingtalk", "email", "nostr"} :
           Ordered(WeixinSteps, n)
    BY DEF Ordered, WeixinSteps
  <1>2. Ordered(IrcSteps, "irc")
    BY DEF Ordered, IrcSteps
  <1>3. Ordered(SlackSteps, "slack")
    BY DEF Ordered, SlackSteps
  <1>4. Ordered(DiscordSteps, "discord")
    BY DEF Ordered, DiscordSteps
  <1>5. Ordered(TelegramSteps, "telegram")
    BY DEF Ordered, TelegramSteps
  <1>6. Ordered(FeishuSteps, "feishu")
    BY DEF Ordered, FeishuSteps
  <1> QED
    BY ONLY <1>1, <1>2, <1>3, <1>4, <1>5, <1>6, ChannelInboxAssumption, channel \in Channel
       DEF Steps, QqSteps, SignalSteps, WhatsAppSteps, DingTalkSteps, EmailSteps, NostrSteps

\* What a handler has behind it at each of the steps that matter.
LEMMA Behind ==
  ASSUME InboxTyping, NEW h \in Handler, ~Free(h)
  PROVE  /\ handling[h].at \in DOMAIN Steps /\ handling[h].at \in Nat \ {0}
         /\ handling[h].msg \in Post
         /\ Steps[handling[h].at] # "turn" => handling[h].at + 1 \in DOMAIN Steps
         /\ At(h, "guard") => ~Past(h, "guard") /\ ~Past(h, "store")
         /\ At(h, "store") => ~Past(h, "store") /\ Past(h, "guard") /\ channel # "irc"
         /\ channel # "irc" /\ (At(h, "turn") \/ At(h, "focus"))
               => Past(h, "guard") /\ Past(h, "store")
         /\ channel # "irc" /\ (At(h, "command") \/ At(h, "groupCommand")) => Past(h, "guard")
         /\ At(h, "turn") \/ At(h, "focus") => Past(h, "command") \/ Past(h, "groupCommand")
         /\ channel = "feishu" /\ (At(h, "command") \/ At(h, "groupCommand")) => Past(h, "store")
         /\ channel # "feishu" /\ Past(h, "store") => Past(h, "command") \/ Past(h, "groupCommand")
         /\ channel # "feishu" /\ At(h, "store") => Past(h, "command") \/ Past(h, "groupCommand")
         /\ Past(h, "store") => Past(h, "guard")
         /\ channel = "irc" => ~Past(h, "guard") /\ ~Past(h, "store")
  <1> DEFINE p == handling[h].at
  <1>1. p \in DOMAIN Steps /\ handling[h].msg \in Post
    BY DEF InboxTyping, Free, Stands
  <1>2. Ordered(Steps, channel)
    BY StepsOrdered DEF InboxTyping
  <1>3. \A s : Past(h, s) <=> \E i \in DOMAIN Steps : Steps[i] = s /\ i < p
    BY DEF Past
  <1>4. \A s : At(h, s) <=> Steps[p] = s
    BY DEF At
  <1> HIDE DEF p
  <1>5. DOMAIN Steps \subseteq Nat
    BY <1>2 DEF Ordered
  <1>6. Past(h, "store") => Past(h, "guard")
    <2> SUFFICES ASSUME Past(h, "store") PROVE Past(h, "guard")
      OBVIOUS
    <2>1. PICK i \in DOMAIN Steps : Steps[i] = "store" /\ i < p
      BY <1>3
    <2>2. channel # "irc"
      BY <1>2, <2>1 DEF Ordered
    <2>3. PICK j \in DOMAIN Steps : Steps[j] = "guard" /\ j < i
      BY <1>2, <2>1, <2>2 DEF Ordered
    <2>4. j < p
      BY ONLY <2>1, <2>3, <1>5, <1>1
    <2> QED
      BY <2>3, <2>4, <1>3
  <1>7. channel # "feishu" /\ Past(h, "store") => Past(h, "command") \/ Past(h, "groupCommand")
    <2> SUFFICES ASSUME channel # "feishu", Past(h, "store")
                 PROVE  Past(h, "command") \/ Past(h, "groupCommand")
      OBVIOUS
    <2>1. PICK i \in DOMAIN Steps : Steps[i] = "store" /\ i < p
      BY <1>3
    <2>3. PICK j \in DOMAIN Steps : Steps[j] \in {"command", "groupCommand"} /\ j < i
      BY <1>2, <2>1 DEF Ordered
    <2>4. j < p
      BY ONLY <2>1, <2>3, <1>5, <1>1
    <2> QED
      BY <2>3, <2>4, <1>3
  <1>8. Steps[p] = "guard" => ~Past(h, "guard")
    <2> SUFFICES ASSUME Steps[p] = "guard", NEW i \in DOMAIN Steps, Steps[i] = "guard", i < p
                 PROVE  FALSE
      BY <1>3
    <2>1. i = p
      BY <1>1, <1>2 DEF Ordered
    <2> QED
      BY <2>1, <1>1, <1>5
  <1>9. Steps[p] = "store" => ~Past(h, "store")
    <2> SUFFICES ASSUME Steps[p] = "store", NEW i \in DOMAIN Steps, Steps[i] = "store", i < p
                 PROVE  FALSE
      BY <1>3
    <2>1. i = p
      BY <1>1, <1>2 DEF Ordered
    <2> QED
      BY <2>1, <1>1, <1>5
  <1>10. /\ p \in Nat \ {0}
         /\ Steps[p] # "turn" => p + 1 \in DOMAIN Steps
         /\ Steps[p] = "store" => channel # "irc"
    BY <1>1, <1>2 DEF Ordered
  <1>11. /\ channel # "irc" /\ Steps[p] \in {"turn", "focus", "command", "groupCommand", "store"}
               => \E j \in DOMAIN Steps : Steps[j] = "guard" /\ j < p
         /\ channel # "irc" /\ Steps[p] \in {"turn", "focus"}
               => \E j \in DOMAIN Steps : Steps[j] = "store" /\ j < p
         /\ Steps[p] \in {"turn", "focus"}
               => \E j \in DOMAIN Steps : Steps[j] \in {"command", "groupCommand"} /\ j < p
         /\ channel = "feishu" /\ Steps[p] \in {"command", "groupCommand"}
               => \E j \in DOMAIN Steps : Steps[j] = "store" /\ j < p
         /\ channel # "feishu" /\ Steps[p] = "store"
               => \E j \in DOMAIN Steps : Steps[j] \in {"command", "groupCommand"} /\ j < p
         /\ channel = "irc" => \A i \in DOMAIN Steps : Steps[i] \notin {"guard", "store"}
    BY <1>1, <1>2 DEF Ordered
  <1>12. Past(h, "guard") \/ Past(h, "store") => channel # "irc"
    BY <1>3, <1>11
  <1> QED
    BY <1>1, <1>3, <1>4, <1>6, <1>7, <1>8, <1>9, <1>10, <1>11, <1>12 DEF p

-----------------------------------------------------------------------------
(* The ways in which a step moves a handler.                                *)

Forwards(h) ==
    /\ Steps[handling[h].at] # "turn"
    /\ \E found \in BOOLEAN :
          handling' = [handling EXCEPT ![h] =
                          [msg |-> handling[h].msg, at |-> handling[h].at + 1, row |-> found]]

Leaves(h) == handling' = [handling EXCEPT ![h] = Resting]

\* The messages that are beyond s are no more than before.
NoneNew(s) == \A k \in Handler : Past(k, s)' => Past(k, s) /\ handling'[k].msg = handling[k].msg

\* A handler that goes on has one more step behind it.
LEMMA ForwardsFacts ==
  ASSUME InboxTyping, NEW h \in Handler, ~Free(h), Forwards(h), channel' = channel
  PROVE  /\ handling' \in [Handler -> Stands]
         /\ \A k \in Handler : Free(k)' <=> Free(k)
         /\ \A k \in Handler : Free(k)' \/ handling'[k].at \in DOMAIN Steps'
         /\ \A k \in Handler : handling'[k].msg = handling[k].msg
         /\ \A k \in Handler, s \in Marks : Past(k, s) => Past(k, s)'
         /\ \A k \in Handler, s \in Marks : Past(k, s)' => Past(k, s) \/ (k = h /\ At(h, s))
         /\ \A s \in Marks : ~At(h, s) => NoneNew(s)
  <1>1. PICK found \in BOOLEAN :
           handling' = [handling EXCEPT ![h] =
                          [msg |-> handling[h].msg, at |-> handling[h].at + 1, row |-> found]]
    BY DEF Forwards
  <1>2. /\ handling[h].at \in DOMAIN Steps /\ handling[h].at \in Nat /\ handling[h].msg \in Post
        /\ handling[h].at + 1 \in DOMAIN Steps
    BY Behind DEF Forwards
  <1>3. handling \in [Handler -> Stands]
    BY DEF InboxTyping
  <1>4. handling' \in [Handler -> Stands]
    BY <1>1, <1>2, <1>3 DEF Stands
  <1>5. /\ handling'[h].msg = handling[h].msg /\ handling'[h].at = handling[h].at + 1
        /\ \A k \in Handler : k # h => handling'[k] = handling[k]
    BY <1>1, <1>3
  <1>6. Steps' = Steps
    BY DEF Steps
  <1>7. \A k \in Handler : handling'[k].msg = handling[k].msg /\ (Free(k)' <=> Free(k))
    BY <1>5 DEF Free
  <1>8. \A k \in Handler : Free(k)' \/ handling'[k].at \in DOMAIN Steps'
    BY <1>2, <1>5, <1>6, <1>7 DEF InboxTyping
  <1>9. DOMAIN Steps \subseteq Nat
    BY StepsOrdered DEF InboxTyping, Ordered
  <1>10. ASSUME NEW k \in Handler, NEW s
         PROVE  /\ Past(k, s) => Past(k, s)'
                /\ Past(k, s)' => Past(k, s) \/ (k = h /\ At(h, s))
    <2>1. CASE k # h
      BY <2>1, <1>5, <1>6, <1>7 DEF Past
    <2>2. CASE k = h
      <3>1. Past(h, s) <=> \E i \in DOMAIN Steps : Steps[i] = s /\ i < handling[h].at
        BY DEF Past
      <3>2. Past(h, s)' <=> \E i \in DOMAIN Steps : Steps[i] = s /\ i < handling[h].at + 1
        BY <1>5, <1>6, <1>7 DEF Past
      <3>3. \A i \in DOMAIN Steps : /\ i < handling[h].at => i < handling[h].at + 1
                                    /\ i < handling[h].at + 1 => i < handling[h].at \/ i = handling[h].at
        BY ONLY <1>2, <1>9
      <3> QED
        BY <3>1, <3>2, <3>3, <2>2 DEF At
    <2> QED
      BY <2>1, <2>2
  <1>11. \A s \in Marks : ~At(h, s) => NoneNew(s)
    BY <1>7, <1>10 DEF NoneNew
  <1> QED
    BY <1>4, <1>7, <1>8, <1>10, <1>11

\* A handler that is put to another message, or to none, has no step behind it.
LEMMA PutFacts ==
  ASSUME InboxTyping, NEW h \in Handler, NEW r \in Stands, r.msg = NoPost \/ r.at = 1,
         handling' = [handling EXCEPT ![h] = r], channel' = channel
  PROVE  /\ handling' \in [Handler -> Stands]
         /\ \A k \in Handler : Free(k)' \/ handling'[k].at \in DOMAIN Steps'
         /\ \A k \in Handler : k # h => handling'[k] = handling[k] /\ (Free(k)' <=> Free(k))
         /\ handling'[h] = r
         /\ \A k \in Handler, s \in Marks : Past(k, s)' <=> k # h /\ Past(k, s)
         /\ \A s \in Marks : NoneNew(s)
  <1>1. handling' \in [Handler -> Stands] /\ handling'[h] = r
        /\ \A k \in Handler : k # h => handling'[k] = handling[k]
    BY DEF InboxTyping
  <1>2. Steps' = Steps
    BY DEF Steps
  <1>3. \A k \in Handler : k # h => (Free(k)' <=> Free(k))
    BY <1>1 DEF Free
  <1>4. DOMAIN Steps \subseteq Nat \ {0} /\ 1 \in DOMAIN Steps
    BY StepsOrdered DEF InboxTyping, Ordered
  <1>5. \A k \in Handler : Free(k)' \/ handling'[k].at \in DOMAIN Steps'
    BY <1>1, <1>2, <1>3, <1>4 DEF InboxTyping, Free
  <1>6. \A k \in Handler, s \in Marks : Past(k, s)' <=> k # h /\ Past(k, s)
    <2> SUFFICES ASSUME NEW k \in Handler, NEW s \in Marks
                 PROVE  Past(k, s)' <=> k # h /\ Past(k, s)
      OBVIOUS
    <2>1. CASE k # h
      BY <2>1, <1>1, <1>2, <1>3 DEF Past
    <2>2. CASE k = h
      <3>1. \A i \in DOMAIN Steps : ~(i < 1)
        BY ONLY <1>4
      <3>2. ~Past(h, s)'
        BY <1>1, <1>2, <3>1 DEF Past, Free
      <3> QED
        BY <2>2, <3>2
    <2> QED
      BY <2>1, <2>2
  <1>7. \A s \in Marks : NoneNew(s)
    BY <1>1, <1>6 DEF NoneNew
  <1> QED
    BY <1>1, <1>3, <1>5, <1>6, <1>7

\* The same of a handler that is done with its message.
LEMMA LeavesFacts ==
  ASSUME InboxTyping, NEW h \in Handler, Leaves(h), channel' = channel
  PROVE  /\ handling' \in [Handler -> Stands]
         /\ \A k \in Handler : Free(k)' \/ handling'[k].at \in DOMAIN Steps'
         /\ \A k \in Handler : k # h => handling'[k] = handling[k] /\ (Free(k)' <=> Free(k))
         /\ Free(h)' /\ handling'[h].msg = NoPost
         /\ \A k \in Handler, s \in Marks : Past(k, s)' <=> k # h /\ Past(k, s)
         /\ \A s \in Marks : NoneNew(s)
  <1>1. Resting \in Stands /\ Resting.msg = NoPost
    BY DEF Resting, Stands
  <1>2. handling' = [handling EXCEPT ![h] = Resting]
    BY DEF Leaves
  <1> QED
    BY <1>1, <1>2, PutFacts DEF Free

-----------------------------------------------------------------------------
(* What leaves each part of the invariant as it was.                        *)

\* Nobody passes the guard.
LEMMA GuardSame ==
  ASSUME InboxTyping, GuardInv, NoneNew("guard"), channel' = channel,
         taken' = taken, seen' = seen, passed' = passed, lapsed' = lapsed
  PROVE  GuardInv'
  BY DEF GuardInv, NoneNew

\* A handler beyond the guard takes its message up and is done with it.
LEMMA GuardTaken ==
  ASSUME InboxTyping, GuardInv, NoneNew("guard"), channel' = channel,
         seen' = seen, passed' = passed, lapsed' = lapsed,
         NEW h \in Handler, ~Free(h), channel # "irc" => Past(h, "guard"), ~Past(h, "guard")',
         channel = "irc" => \A k \in Handler : ~Past(k, "guard"),
         TakeUp(handling[h].msg)
  PROVE  GuardInv'
  <1> DEFINE m == handling[h].msg
  <1>1. m \in Post
    BY DEF InboxTyping, Stands, Free
  <1>2. /\ \A n \in Post : n # m => taken'[n] = taken[n]
        /\ taken'[m] = IF taken[m] = "no" THEN "once" ELSE "twice"
    BY <1>1 DEF TakeUp, InboxTyping
  <1>3. \A k \in Handler : Past(k, "guard") => handling[k].msg \in Post
    BY DEF Past, InboxTyping, Stands, Free
  <1>4. \A k \in Handler : Past(k, "guard")' => k # h /\ Past(k, "guard") /\ handling'[k].msg = handling[k].msg
    BY DEF NoneNew
  <1> HIDE DEF m
  <1>5. \A k \in Handler : Past(k, "guard")' /\ taken'[handling'[k].msg] # "no" => handling'[k].msg \in lapsed'
    <2> SUFFICES ASSUME NEW k \in Handler, Past(k, "guard")', taken'[handling'[k].msg] # "no"
                 PROVE  handling'[k].msg \in lapsed
      OBVIOUS
    <2>1. CASE handling[k].msg = m
      BY <2>1, <1>4 DEF GuardInv, m
    <2>2. CASE handling[k].msg # m
      BY <2>2, <1>2, <1>3, <1>4 DEF GuardInv
    <2> QED
      BY <2>1, <2>2
  <1>6. \A n \in Post : channel' # "irc" /\ taken'[n] # "no" => n \in passed'
    BY <1>2 DEF GuardInv, m
  <1>7. \A n \in Post : channel' # "irc" /\ taken'[n] = "twice" => n \in lapsed'
    BY <1>2 DEF GuardInv, m
  <1>8. /\ \A i \in seen' : \E n \in passed' : n.id = i
        /\ \A n \in passed' : n \in lapsed' \/ n.id \in seen'
        /\ \A k \in Handler : Past(k, "guard")' => handling'[k].msg \in passed'
    BY <1>4 DEF GuardInv
  <1>9. \A j, k \in Handler :
           j # k /\ Past(j, "guard")' /\ Past(k, "guard")' /\ handling'[j].msg = handling'[k].msg
             => handling'[j].msg \in lapsed'
    BY <1>4 DEF GuardInv
  <1> QED
    BY <1>5, <1>6, <1>7, <1>8, <1>9 DEF GuardInv

\* No command gets beyond its step.
LEMMA CommandsSame ==
  ASSUME CommandsEnd, NoneNew("command"), NoneNew("groupCommand")
  PROVE  CommandsEnd'
  BY DEF CommandsEnd, NoneNew

\* Rows are only added.
LEMMA RowsGrow ==
  ASSUME storedRows \subseteq storedRows', NEW m
  PROVE  (HasRow(m) => HasRow(m)') /\ (RawRow(m) => RawRow(m)')
  BY DEF HasRow, RawRow

\* Nobody gets beyond the table.
LEMMA RowsSame ==
  ASSUME RowInv, NoneNew("store"), storedRows \subseteq storedRows', taken' = taken,
         channel' = channel
  PROVE  RowInv'
  <1>1. \A m : (HasRow(m) => HasRow(m)') /\ (RawRow(m) => RawRow(m)')
    BY RowsGrow
  <1> QED
    BY <1>1 DEF RowInv, NoneNew, RowsCount

\* A handler beyond the table takes its message up and is done with it.
LEMMA RowsTaken ==
  ASSUME InboxTyping, RowInv, NoneNew("store"), storedRows' = storedRows, channel' = channel,
         NEW h \in Handler, ~Free(h), ~Past(h, "store")',
         RowsCount(handling[h].msg) => Past(h, "store"),
         ~RowsCount(handling[h].msg) => \A k \in Handler : Past(k, "store") => handling[k].msg # handling[h].msg,
         TakeUp(handling[h].msg)
  PROVE  RowInv'
  <1> DEFINE m == handling[h].msg
  <1>1. m \in Post
    BY DEF InboxTyping, Stands, Free
  <1>2. /\ \A n \in Post : n # m => taken'[n] = taken[n]
        /\ taken'[m] = IF taken[m] = "no" THEN "once" ELSE "twice"
    BY <1>1 DEF TakeUp, InboxTyping
  <1>3. \A k \in Handler : Past(k, "store") => handling[k].msg \in Post
    BY DEF Past, InboxTyping, Stands, Free
  <1>4. \A k \in Handler : Past(k, "store")' => k # h /\ Past(k, "store") /\ handling'[k].msg = handling[k].msg
    BY DEF NoneNew
  <1>5. /\ \A n : (HasRow(n)' <=> HasRow(n)) /\ (RawRow(n)' <=> RawRow(n)) /\ (RowsCount(n)' <=> RowsCount(n))
        /\ \A k : handling'[k].msg = handling[k].msg =>
              /\ HasRow(handling[k].msg)' <=> HasRow(handling[k].msg)
              /\ RawRow(handling[k].msg)' <=> RawRow(handling[k].msg)
    BY DEF HasRow, RawRow, RowsCount
  <1> HIDE DEF m
  <1>6. \A k \in Handler : Past(k, "store")' /\ taken'[handling'[k].msg] # "no" => RawRow(handling[k].msg)'
    <2> SUFFICES ASSUME NEW k \in Handler, Past(k, "store")', taken'[handling'[k].msg] # "no"
                 PROVE  RawRow(handling[k].msg)
      BY <1>4, <1>5
    <2>1. CASE handling[k].msg = m
      <3>1. RowsCount(m)
        BY <2>1, <1>4 DEF m
      <3> QED
        BY <3>1, <2>1, <1>4 DEF RowInv, m
    <2>2. CASE handling[k].msg # m
      BY <2>2, <1>2, <1>3, <1>4 DEF RowInv
    <2> QED
      BY <2>1, <2>2
  <1>7. /\ \A n \in Post : RowsCount(n)' /\ taken'[n] # "no" => HasRow(n)'
        /\ \A n \in Post : RowsCount(n)' /\ taken'[n] = "twice" => RawRow(n)'
    BY <1>2, <1>5 DEF RowInv, m
  <1>8. /\ \A k \in Handler : Past(k, "store")' => HasRow(handling[k].msg)'
        /\ \A j, k \in Handler :
              j # k /\ Past(j, "store")' /\ Past(k, "store")' /\ handling'[j].msg = handling'[k].msg
                => RawRow(handling[j].msg)'
    BY <1>4, <1>5 DEF RowInv
  <1> QED
    BY <1>6, <1>7, <1>8 DEF RowInv

\* No message is begun, and the marks stay behind those that go on.
LEMMA IrcSame ==
  ASSUME IrcInv, channel' = channel, taken' = taken, delivered \subseteq delivered',
         inboxBatch' = inboxBatch,
         \A k \in Handler : Free(k)' \/ (~Free(k) /\ handling'[k].msg = handling[k].msg)
  PROVE  IrcInv'
  BY DEF IrcInv, Free

\* A line of IRC is taken up by the one handler that has it, which is done.
LEMMA IrcTaken ==
  ASSUME InboxTyping, IrcInv, channel' = channel, delivered' = delivered, inboxBatch' = inboxBatch,
         NEW h \in Handler, ~Free(h), Free(h)',
         \A k \in Handler : k # h => handling'[k] = handling[k] /\ (Free(k)' <=> Free(k)),
         TakeUp(handling[h].msg)
  PROVE  IrcInv'
  <1> DEFINE m == handling[h].msg
  <1>1. m \in Post
    BY DEF InboxTyping, Stands, Free
  <1>2. /\ \A n \in Post : n # m => taken'[n] = taken[n]
        /\ taken'[m] = IF taken[m] = "no" THEN "once" ELSE "twice"
    BY <1>1 DEF TakeUp, InboxTyping
  <1>3. \A k \in Handler : ~Free(k) => handling[k].msg \in Post
    BY DEF InboxTyping, Stands, Free
  <1> HIDE DEF m
  <1> SUFFICES ASSUME channel = "irc"
               PROVE  /\ \A k \in Handler : ~Free(k)' => /\ handling'[k].msg \in delivered
                                                         /\ taken'[handling'[k].msg] = "no"
                      /\ \A j, k \in Handler : j # k /\ ~Free(j)' => handling'[j].msg # handling'[k].msg
                      /\ \A n \in Post : taken'[n] # "no" => n \in delivered
                      /\ \A n \in Post : taken'[n] # "twice"
    BY DEF IrcInv
  <1>4. /\ \A j, k \in Handler : j # k /\ ~Free(j) => handling[j].msg # handling[k].msg
        /\ taken[m] = "no" /\ m \in delivered
        /\ \A n \in Post : taken[n] # "no" => n \in delivered
        /\ \A n \in Post : taken[n] # "twice"
        /\ \A k \in Handler : ~Free(k) => handling[k].msg \in delivered /\ taken[handling[k].msg] = "no"
    BY DEF IrcInv, m
  <1>5. \A k \in Handler : ~Free(k)' => /\ handling'[k].msg \in delivered
                                        /\ taken'[handling'[k].msg] = "no"
    BY <1>2, <1>3, <1>4 DEF m
  <1>6. \A j, k \in Handler : j # k /\ ~Free(j)' => handling'[j].msg # handling'[k].msg
    BY <1>4 DEF Free
  <1> QED
    BY <1>2, <1>4, <1>5, <1>6

\* What has ended stays ended, and what was confused stays so.
LEMMA EndedStays ==
  ASSUME InboxTyping, excused \subseteq excused', passed \subseteq passed',
         taken' = taken \/ \E m \in Post : TakeUp(m)
  PROVE  \A n \in Post : (Ended(n) => Ended(n)') /\ (Confused(n) => Confused(n)')
  <1>1. \A n \in Post : taken[n] # "no" => taken'[n] # "no"
    BY DEF TakeUp, InboxTyping
  <1> QED
    BY <1>1 DEF Ended, Confused

\* The handlers go on or stay.
LEMMA CauseForwards ==
  ASSUME InboxTyping, CauseInv, channel' = channel, taken' = taken, excused' = excused,
         passed' = passed, storedRows' = storedRows, delivered' = delivered, inboxBatch' = inboxBatch,
         \A k \in Handler : handling'[k].msg = handling[k].msg,
         \A k \in Handler, s \in Marks : Past(k, s) => Past(k, s)'
  PROVE  CauseInv'
  <1>1. \A n \in Post : (Ended(n) => Ended(n)') /\ (Confused(n) => Confused(n)')
    BY EndedStays
  <1>2. \A n \in Post, s \in Marks : Continued(n, s) => Continued(n, s)'
    BY DEF Continued
  <1>3. \A n \in Post : HasRow(n)' => HasRow(n)
    BY DEF HasRow
  <1>4. InHand' = InHand
    BY DEF InHand
  <1>5. "guard" \in Marks /\ "store" \in Marks
    BY DEF Marks
  <1>6. LossesHaveCause'
    BY <1>1, <1>4 DEF CauseInv, LossesHaveCause, Ended, InboxTyping
  <1> QED
    BY <1>1, <1>2, <1>3, <1>5, <1>6 DEF CauseInv, InboxTyping

\* A message of a handler that is done with it is still in hand, or the handler
\* was the one that had it.
LEMMA InHandLeaves ==
  ASSUME NEW h \in Handler, inboxBatch' = inboxBatch,
         \A k \in Handler : k # h => handling'[k] = handling[k]
  PROVE  \A n : n \in InHand => n \in InHand' \/ n = handling[h].msg
  BY DEF InHand

\* A handler is done with a message that has ended.
LEMMA CauseEnds ==
  ASSUME InboxTyping, CauseInv, channel' = channel, passed' = passed, delivered' = delivered,
         inboxBatch' = inboxBatch, excused \subseteq excused',
         taken' = taken \/ \E m \in Post : TakeUp(m),
         NEW h \in Handler, NEW m \in Post, m = handling[h].msg, storedRows' \subseteq storedRows \cup {RowOf(h)},
         \A k \in Handler : k # h => handling'[k] = handling[k],
         \A k \in Handler, s \in Marks : Past(k, s)' <=> k # h /\ Past(k, s),
         Ended(m)'
  PROVE  CauseInv'
  <1>1. \A n \in Post : (Ended(n) => Ended(n)') /\ (Confused(n) => Confused(n)')
    BY EndedStays
  <1>3. \A n \in Post, s \in Marks : Continued(n, s) => Continued(n, s)' \/ n = m
    BY DEF Continued
  <1>4. \A n \in Post : HasRow(n)' => HasRow(n) \/ n = m
    <2>1. \A n \in Post : RowOf(h).chat = n.chat /\ RowOf(h).id = n.id => n = m
      BY ChannelInboxAssumption DEF RowOf
    <2> QED
      BY <2>1 DEF HasRow
  <1>5. \A n : n \in InHand => n \in InHand' \/ n = m
    BY InHandLeaves
  <1>6. "guard" \in Marks /\ "store" \in Marks
    BY DEF Marks
  <1>7. LossesHaveCause'
    <2> SUFFICES ASSUME NEW n \in delivered, n \notin InHand'
                 PROVE  Ended(n)' \/ Confused(n)'
      BY DEF LossesHaveCause, Ended
    <2>1. n \in Post
      BY DEF InboxTyping
    <2>2. CASE n = m
      BY <2>2
    <2>3. CASE n # m
      BY <2>1, <2>3, <1>1, <1>5 DEF CauseInv, LossesHaveCause, Ended
    <2> QED
      BY <2>2, <2>3
  <1>8. \A n \in passed' : Ended(n)' \/ Continued(n, "guard")'
    BY <1>1, <1>3, <1>6 DEF CauseInv, InboxTyping
  <1>9. \A n \in Post : HasRow(n)' => Ended(n)' \/ Continued(n, "store")'
    BY <1>1, <1>3, <1>4, <1>6 DEF CauseInv
  <1> QED
    BY <1>7, <1>8, <1>9 DEF CauseInv

\* A handler is done with a message that another one has, beyond what stopped
\* this one, or that has ended or was confused before.
LEMMA CauseStopped ==
  ASSUME InboxTyping, CauseInv, channel' = channel, passed' = passed, delivered' = delivered,
         inboxBatch' = inboxBatch, excused' = excused, taken' = taken, storedRows' = storedRows,
         NEW h \in Handler, NEW m \in Post, m = handling[h].msg,
         \A k \in Handler : k # h => handling'[k] = handling[k],
         \A k \in Handler, s \in Marks : Past(k, s)' <=> k # h /\ Past(k, s),
         ~Past(h, "store"),
         \/ Ended(m)
         \/ Confused(m) /\ ~Past(h, "guard")
         \/ \E k \in Handler \ {h} : handling[k].msg = m /\ Past(k, "guard")
  PROVE  CauseInv'
  <1>1. \A n \in Post : (Ended(n) => Ended(n)') /\ (Confused(n) => Confused(n)')
    BY EndedStays
  <1>3. "guard" \in Marks /\ "store" \in Marks
    BY DEF Marks
  <1>4. \A n \in Post : Continued(n, "store") => Continued(n, "store")'
    BY <1>3 DEF Continued
  <1>5. \A n \in Post : HasRow(n)' => HasRow(n)
    BY DEF HasRow
  <1>6. \A n : n \in InHand => n \in InHand' \/ n = m
    BY InHandLeaves
  <1>7. \/ Ended(m)
        \/ Confused(m) /\ ~Past(h, "guard")
        \/ Continued(m, "guard")' /\ m \in InHand'
    BY <1>3 DEF Continued, InHand
  <1>8. \A n \in Post : Continued(n, "guard") => Continued(n, "guard")' \/ (n = m /\ Past(h, "guard"))
    BY <1>3 DEF Continued
  <1>9. \A n \in passed' : Ended(n)' \/ Continued(n, "guard")'
    BY <1>1, <1>7, <1>8 DEF CauseInv, InboxTyping
  <1>10. \A n \in Post : HasRow(n)' => Ended(n)' \/ Continued(n, "store")'
    BY <1>1, <1>4, <1>5 DEF CauseInv
  <1>11. LossesHaveCause'
    <2> SUFFICES ASSUME NEW n \in delivered, n \notin InHand'
                 PROVE  Ended(n)' \/ Confused(n)'
      BY DEF LossesHaveCause, Ended
    <2>1. n \in Post
      BY DEF InboxTyping
    <2>2. CASE n = m
      BY <2>2, <1>1, <1>7
    <2>3. CASE n # m
      BY <2>1, <2>3, <1>1, <1>6 DEF CauseInv, LossesHaveCause, Ended
    <2> QED
      BY <2>2, <2>3
  <1> QED
    BY <1>9, <1>10, <1>11 DEF CauseInv

-----------------------------------------------------------------------------
(* The steps of a handler, by what becomes of its message.                  *)

\* What a handler's row and message are.
LEMMA RowTyped ==
  ASSUME InboxTyping, NEW h \in Handler, ~Free(h)
  PROVE  RowOf(h) \in StoredRow /\ handling[h].msg \in Post
  BY DEF InboxTyping, Stands, Free, RowOf, StoredRow

\* It goes on, at a step that has no part in the argument.
LEMMA GoesOn ==
  ASSUME InboxInv, NEW h \in Handler, ~Free(h), Forwards(h),
         \A s \in Marks : ~At(h, s), excused' = excused, OnlyHandling
  PROVE  InboxInv'
  <1> USE DEF InboxInv
  <1>1. channel' = channel
    BY DEF OnlyHandling
  <1>2. /\ handling' \in [Handler -> Stands]
        /\ \A k \in Handler : Free(k)' \/ handling'[k].at \in DOMAIN Steps'
        /\ \A k \in Handler : (Free(k)' <=> Free(k)) /\ handling'[k].msg = handling[k].msg
        /\ \A k \in Handler, s \in Marks : Past(k, s) => Past(k, s)'
        /\ \A s \in Marks : NoneNew(s)
    BY <1>1, ForwardsFacts
  <1>3. NoneNew("guard") /\ NoneNew("store") /\ NoneNew("command") /\ NoneNew("groupCommand")
    BY <1>2 DEF Marks
  <1>4. InboxTyping'
    BY <1>2 DEF InboxTyping, OnlyHandling, pollVars, guardTables, deliverVars, dropVars
  <1>5. GuardInv'
    BY <1>3, GuardSame DEF OnlyHandling, guardTables, dropVars
  <1>6. CommandsEnd'
    BY <1>3, CommandsSame
  <1>7. RowInv'
    BY <1>3, RowsSame DEF OnlyHandling
  <1>8. IrcInv'
    BY <1>2, IrcSame DEF OnlyHandling, pollVars, deliverVars
  <1>9. CauseInv'
    BY <1>2, CauseForwards DEF OnlyHandling, pollVars, deliverVars, dropVars
  <1> QED
    BY <1>4, <1>5, <1>6, <1>7, <1>8, <1>9

\* It is dropped for a reason of its own; Telegram may store it all the same.
LEMMA Excused ==
  ASSUME InboxInv, NEW h \in Handler, NEW m \in Post, m = handling[h].msg, ~Free(h), Leaves(h),
         excused' = excused \cup {m},
         storedRows' = storedRows \/ storedRows' = storedRows \cup {RowOf(h)},
         UNCHANGED <<channel, pollVars, guardTables, deliverVars, taken, dropVars>>
  PROVE  InboxInv'
  <1> USE DEF InboxInv
  <1>1. /\ handling' \in [Handler -> Stands]
        /\ \A k \in Handler : Free(k)' \/ handling'[k].at \in DOMAIN Steps'
        /\ \A k \in Handler : k # h => handling'[k] = handling[k] /\ (Free(k)' <=> Free(k))
        /\ Free(h)' /\ handling'[h].msg = NoPost
        /\ \A k \in Handler, s \in Marks : Past(k, s)' <=> k # h /\ Past(k, s)
        /\ \A s \in Marks : NoneNew(s)
    BY LeavesFacts
  <1>2. NoneNew("guard") /\ NoneNew("store") /\ NoneNew("command") /\ NoneNew("groupCommand")
    BY <1>1 DEF Marks
  <1>3. storedRows' \subseteq StoredRow /\ excused' \subseteq Post
    BY RowTyped DEF InboxTyping
  <1>4. InboxTyping'
    BY <1>1, <1>3 DEF InboxTyping, pollVars, guardTables, deliverVars, dropVars
  <1>5. GuardInv'
    BY <1>2, GuardSame DEF guardTables, dropVars
  <1>6. CommandsEnd'
    BY <1>2, CommandsSame
  <1>7. RowInv'
    BY <1>2, RowsSame
  <1>8. IrcInv'
    BY <1>1, IrcSame DEF pollVars, deliverVars
  <1>9. Ended(m)'
    BY DEF Ended
  <1>10. CauseInv'
    BY <1>1, <1>9, CauseEnds DEF pollVars, deliverVars, dropVars
  <1> QED
    BY <1>4, <1>5, <1>6, <1>7, <1>8, <1>10

\* It is taken up.
LEMMA Taken ==
  ASSUME InboxInv, NEW h \in Handler, NEW m \in Post, m = handling[h].msg, ~Free(h), Leaves(h),
         TakeUp(m),
         \/ At(h, "turn") \/ At(h, "focus")
         \/ m.command /\ (At(h, "command") \/ At(h, "groupCommand")),
         UNCHANGED <<channel, pollVars, guardTables, storedRows, deliverVars, excused, dropVars>>
  PROVE  InboxInv'
  <1> USE DEF InboxInv
  <1>1. /\ handling' \in [Handler -> Stands]
        /\ \A k \in Handler : Free(k)' \/ handling'[k].at \in DOMAIN Steps'
        /\ \A k \in Handler : k # h => handling'[k] = handling[k] /\ (Free(k)' <=> Free(k))
        /\ Free(h)' /\ handling'[h].msg = NoPost
        /\ \A k \in Handler, s \in Marks : Past(k, s)' <=> k # h /\ Past(k, s)
        /\ \A s \in Marks : NoneNew(s)
    BY LeavesFacts
  <1>2. NoneNew("guard") /\ NoneNew("store") /\ NoneNew("command") /\ NoneNew("groupCommand")
    BY <1>1 DEF Marks
  <1>3. ~Past(h, "guard")' /\ ~Past(h, "store")'
    BY <1>1 DEF Marks
  <1>4. /\ channel # "irc" => Past(h, "guard")
        /\ At(h, "turn") \/ At(h, "focus") => ~m.command
        /\ channel # "irc" /\ (At(h, "turn") \/ At(h, "focus")) => Past(h, "store")
        /\ channel = "feishu" /\ (At(h, "command") \/ At(h, "groupCommand")) => Past(h, "store")
    BY Behind DEF CommandsEnd
  <1>5. \A k \in Handler : /\ channel = "irc" => ~Past(k, "guard") /\ ~Past(k, "store")
                           /\ Past(k, "store") /\ channel # "feishu" => ~handling[k].msg.command
    BY Behind DEF CommandsEnd, Past
  <1>6. RowsCount(m) => Past(h, "store")
    BY <1>4 DEF RowsCount
  <1>7. ~RowsCount(m) => \A k \in Handler : Past(k, "store") => handling[k].msg # m
    BY <1>5 DEF RowsCount
  <1>8. taken' \in [Post -> {"no", "once", "twice"}] /\ taken'[m] # "no"
    BY DEF TakeUp, InboxTyping
  <1>9. InboxTyping'
    BY <1>1, <1>8 DEF InboxTyping, pollVars, guardTables, deliverVars, dropVars
  <1>10. GuardInv'
    BY <1>2, <1>3, <1>4, <1>5, GuardTaken DEF guardTables, dropVars
  <1>11. CommandsEnd'
    BY <1>2, CommandsSame
  <1>12. RowInv'
    BY <1>2, <1>3, <1>6, <1>7, RowsTaken
  <1>13. IrcInv'
    BY <1>1, IrcTaken DEF pollVars, deliverVars
  <1>14. Ended(m)'
    BY <1>8 DEF Ended
  <1>15. CauseInv'
    BY <1>1, <1>14, CauseEnds DEF pollVars, deliverVars, dropVars
  <1> QED
    BY <1>9, <1>10, <1>11, <1>12, <1>13, <1>15

\* It is dropped as a duplicate, by the guard or by the table.
LEMMA Stopped ==
  ASSUME InboxInv, NEW h \in Handler, NEW m \in Post, m = handling[h].msg, ~Free(h), Leaves(h),
         \/ At(h, "guard") /\ m.id \in seen
         \/ At(h, "store") /\ RowOf(h) \in storedRows,
         UNCHANGED <<channel, pollVars, guardTables, storedRows, deliverVars, taken, excused, dropVars>>
  PROVE  InboxInv'
  <1> USE DEF InboxInv
  <1>1. /\ handling' \in [Handler -> Stands]
        /\ \A k \in Handler : Free(k)' \/ handling'[k].at \in DOMAIN Steps'
        /\ \A k \in Handler : k # h => handling'[k] = handling[k] /\ (Free(k)' <=> Free(k))
        /\ Free(h)' /\ handling'[h].msg = NoPost
        /\ \A k \in Handler, s \in Marks : Past(k, s)' <=> k # h /\ Past(k, s)
        /\ \A s \in Marks : NoneNew(s)
    BY LeavesFacts
  <1>2. NoneNew("guard") /\ NoneNew("store") /\ NoneNew("command") /\ NoneNew("groupCommand")
    BY <1>1 DEF Marks
  <1>3. InboxTyping'
    BY <1>1 DEF InboxTyping, pollVars, guardTables, deliverVars, dropVars
  <1>4. GuardInv'
    BY <1>2, GuardSame DEF guardTables, dropVars
  <1>5. CommandsEnd'
    BY <1>2, CommandsSame
  <1>6. RowInv'
    BY <1>2, RowsSame
  <1>7. IrcInv'
    BY <1>1, IrcSame DEF pollVars, deliverVars
  <1>8. ~Past(h, "store")
    BY Behind
  <1>9. CASE At(h, "guard") /\ m.id \in seen
    <2>1. ~Past(h, "guard")
      BY <1>9, Behind
    <2>2. PICK n \in passed : n.id = m.id
      BY <1>9 DEF GuardInv
    <2>3. CASE n = m
      <3>1. Ended(m) \/ Continued(m, "guard")
        BY <2>2, <2>3 DEF CauseInv
      <3>2. Continued(m, "guard") => \E k \in Handler \ {h} : handling[k].msg = m /\ Past(k, "guard")
        BY <2>1 DEF Continued
      <3>3. CauseInv'
        BY <1>1, <1>8, <3>1, <3>2, CauseStopped DEF pollVars, deliverVars, dropVars
      <3> QED
        BY <1>3, <1>4, <1>5, <1>6, <1>7, <3>3
    <2>4. CASE n # m
      <3>1. Confused(m)
        BY <2>2, <2>4 DEF Confused
      <3>2. CauseInv'
        BY <1>1, <1>8, <2>1, <3>1, CauseStopped DEF pollVars, deliverVars, dropVars
      <3> QED
        BY <1>3, <1>4, <1>5, <1>6, <1>7, <3>2
    <2> QED
      BY <2>3, <2>4
  <1>10. CASE At(h, "store") /\ RowOf(h) \in storedRows
    <2>1. HasRow(m)
      BY <1>10 DEF HasRow, RowOf
    <2>2. Ended(m) \/ Continued(m, "store")
      BY <2>1 DEF CauseInv
    <2>3. Continued(m, "store") => \E k \in Handler \ {h} : handling[k].msg = m /\ Past(k, "guard")
      BY <1>8, Behind DEF Continued, Past
    <2>4. CauseInv'
      BY <1>1, <1>8, <2>2, <2>3, CauseStopped DEF pollVars, deliverVars, dropVars
    <2> QED
      BY <1>3, <1>4, <1>5, <1>6, <1>7, <2>4
  <1> QED
    BY <1>9, <1>10

\* The guard lets it through.
LEMMA PassesGuard ==
  ASSUME InboxInv, NEW h \in Handler, NEW m \in Post, m = handling[h].msg, ~Free(h), Forwards(h),
         At(h, "guard"), m.id \notin seen,
         seen' = seen \cup {m.id}, passed' = passed \cup {m},
         UNCHANGED <<channel, pollVars, old, storedRows, deliverVars, taken, excused, lapsed>>
  PROVE  InboxInv'
  <1> USE DEF InboxInv
  <1>1. /\ handling' \in [Handler -> Stands]
        /\ \A k \in Handler : Free(k)' \/ handling'[k].at \in DOMAIN Steps'
        /\ \A k \in Handler : (Free(k)' <=> Free(k)) /\ handling'[k].msg = handling[k].msg
        /\ \A k \in Handler, s \in Marks : Past(k, s) => Past(k, s)'
        /\ \A k \in Handler, s \in Marks : Past(k, s)' => Past(k, s) \/ (k = h /\ At(h, s))
        /\ \A s \in Marks : ~At(h, s) => NoneNew(s)
    BY ForwardsFacts
  <1>2. ~At(h, "store") /\ ~At(h, "command") /\ ~At(h, "groupCommand")
    BY DEF At
  <1>3. NoneNew("store") /\ NoneNew("command") /\ NoneNew("groupCommand")
    BY <1>1, <1>2 DEF Marks
  <1>4. m \in passed => m \in lapsed
    BY DEF GuardInv
  <1>5. \A k \in Handler : Past(k, "guard")' => Past(k, "guard") \/ handling[k].msg = m
    BY <1>1 DEF Marks
  <1>6. channel # "irc"
    <2>1. channel = "irc" => \A i \in DOMAIN Steps : Steps[i] \notin {"guard", "store"}
      BY StepsOrdered DEF Ordered, InboxTyping
    <2> QED
      BY <2>1, Behind DEF At
  <1>7. InboxTyping'
    BY <1>1 DEF InboxTyping, pollVars, deliverVars
  <1>8. GuardInv'
    <2>1. \A i \in seen' : \E n \in passed' : n.id = i
      BY DEF GuardInv
    <2>2. \A n \in passed' : n \in lapsed' \/ n.id \in seen'
      BY DEF GuardInv
    <2>3. \A k \in Handler : Past(k, "guard")' => handling'[k].msg \in passed'
      BY <1>1, <1>5 DEF GuardInv
    <2>4. ASSUME NEW j \in Handler, NEW k \in Handler, j # k, Past(j, "guard")', Past(k, "guard")',
                 handling'[j].msg = handling'[k].msg
          PROVE  handling'[j].msg \in lapsed'
      <3>1. Past(j, "guard") \/ Past(k, "guard")
        BY <2>4, <1>1 DEF Marks
      <3>2. CASE handling[j].msg = m
        BY <2>4, <3>1, <3>2, <1>1, <1>4 DEF GuardInv
      <3>3. CASE handling[j].msg # m
        BY <2>4, <3>3, <1>1, <1>5 DEF GuardInv
      <3> QED
        BY <3>2, <3>3
    <2>5. \A k \in Handler : Past(k, "guard")' /\ taken'[handling'[k].msg] # "no" => handling'[k].msg \in lapsed'
      BY <1>1, <1>4, <1>5, <1>6 DEF GuardInv
    <2>6. /\ \A n \in Post : channel' # "irc" /\ taken'[n] # "no" => n \in passed'
          /\ \A n \in Post : channel' # "irc" /\ taken'[n] = "twice" => n \in lapsed'
      BY DEF GuardInv
    <2> QED
      BY <2>1, <2>2, <2>3, <2>4, <2>5, <2>6 DEF GuardInv
  <1>9. CommandsEnd'
    BY <1>3, CommandsSame
  <1>10. RowInv'
    BY <1>3, RowsSame
  <1>11. IrcInv'
    BY <1>1, IrcSame DEF pollVars, deliverVars
  <1>12. CauseInv'
    <2>1. \A n \in Post : (Ended(n) => Ended(n)') /\ (Confused(n) => Confused(n)')
      BY EndedStays
    <2>2. Past(h, "guard")'
      <3>1. Steps' = Steps /\ handling[h].at \in DOMAIN Steps /\ handling[h].at \in Nat
        BY Behind DEF Steps
      <3>2. handling'[h].at = handling[h].at + 1
        BY DEF Forwards, InboxTyping
      <3>3. handling[h].at < handling'[h].at
        BY <3>1, <3>2
      <3> QED
        BY <3>1, <3>3, <1>1 DEF Past, At
    <2>3. \A n \in passed' : Ended(n)' \/ Continued(n, "guard")'
      BY <1>1, <2>1, <2>2 DEF CauseInv, Continued, Marks, InboxTyping
    <2>4. \A n \in Post : HasRow(n)' => Ended(n)' \/ Continued(n, "store")'
      BY <1>1, <2>1 DEF CauseInv, Continued, Marks, HasRow
    <2>5. InHand' = InHand
      BY <1>1 DEF InHand, pollVars
    <2>6. LossesHaveCause'
      BY <2>1, <2>5 DEF CauseInv, LossesHaveCause, Ended, InboxTyping, deliverVars
    <2> QED
      BY <2>3, <2>4, <2>6 DEF CauseInv
  <1> QED
    BY <1>7, <1>8, <1>9, <1>10, <1>11, <1>12

\* It is stored, and is the first under its row.
LEMMA PassesStore ==
  ASSUME InboxInv, NEW h \in Handler, NEW m \in Post, m = handling[h].msg, ~Free(h), Forwards(h),
         At(h, "store"), RowOf(h) \notin storedRows,
         storedRows' = storedRows \cup {RowOf(h)},
         UNCHANGED <<channel, pollVars, guardTables, deliverVars, taken, excused, dropVars>>
  PROVE  InboxInv'
  <1> USE DEF InboxInv
  <1>1. /\ handling' \in [Handler -> Stands]
        /\ \A k \in Handler : Free(k)' \/ handling'[k].at \in DOMAIN Steps'
        /\ \A k \in Handler : (Free(k)' <=> Free(k)) /\ handling'[k].msg = handling[k].msg
        /\ \A k \in Handler, s \in Marks : Past(k, s) => Past(k, s)'
        /\ \A k \in Handler, s \in Marks : Past(k, s)' => Past(k, s) \/ (k = h /\ At(h, s))
        /\ \A s \in Marks : ~At(h, s) => NoneNew(s)
    BY ForwardsFacts
  <1>2. ~At(h, "guard") /\ ~At(h, "command") /\ ~At(h, "groupCommand")
    BY DEF At
  <1>3. NoneNew("guard") /\ NoneNew("command") /\ NoneNew("groupCommand")
    BY <1>1, <1>2 DEF Marks
  <1>4. \A k \in Handler : Past(k, "store")' => Past(k, "store") \/ (k = h /\ handling[k].msg = m)
    BY <1>1 DEF Marks
  <1>5. RowOf(h) \in StoredRow /\ RowOf(h).chat = m.chat /\ RowOf(h).id = m.id
    BY RowTyped DEF RowOf
  <1>6. HasRow(m)'
    BY <1>5 DEF HasRow
  <1>7. HasRow(m) => RawRow(m)'
    <2> SUFFICES ASSUME NEW r \in storedRows, r.chat = m.chat, r.id = m.id
                 PROVE  RawRow(m)'
      BY DEF HasRow
    <2>1. r \in StoredRow
      BY DEF InboxTyping
    <2>2. r = [chat |-> r.chat, id |-> r.id, found |-> r.found] /\ r.found \in BOOLEAN
      BY <2>1 DEF StoredRow
    <2>3. RowOf(h) = [chat |-> m.chat, id |-> m.id, found |-> RowOf(h).found] /\ RowOf(h).found \in BOOLEAN
      BY <1>5 DEF RowOf, StoredRow
    <2>4. r.found # RowOf(h).found
      BY <2>2, <2>3
    <2>5. CASE r.found
      BY <2>3, <2>4, <2>5, <1>5 DEF RawRow
    <2>6. CASE ~r.found
      BY <2>6 DEF RawRow
    <2> QED
      BY <2>5, <2>6
  <1>8. \A n : (HasRow(n) => HasRow(n)') /\ (RawRow(n) => RawRow(n)')
    BY RowsGrow
  <1>9. \A k : handling'[k].msg = handling[k].msg =>
           /\ HasRow(handling[k].msg) => HasRow(handling[k].msg)'
           /\ RawRow(handling[k].msg) => RawRow(handling[k].msg)'
           /\ handling[k].msg = m => HasRow(handling[k].msg)'
           /\ handling[k].msg = m /\ HasRow(m) => RawRow(handling[k].msg)'
    <2>1. ASSUME NEW k, handling'[k].msg = handling[k].msg
          PROVE  /\ HasRow(handling[k].msg)' <=> \E r \in storedRows' :
                       r.chat = handling[k].msg.chat /\ r.id = handling[k].msg.id
                 /\ RawRow(handling[k].msg)' <=> \E r \in storedRows' :
                       r.chat = handling[k].msg.chat /\ r.id = handling[k].msg.id /\ ~r.found
      BY <2>1 DEF HasRow, RawRow
    <2> QED
      BY <2>1, <1>6, <1>7 DEF HasRow, RawRow
  <1>10. RowsCount(m)
    BY Behind DEF RowsCount, CommandsEnd
  <1>11. InboxTyping'
    BY <1>1, <1>5 DEF InboxTyping, pollVars, guardTables, deliverVars, dropVars
  <1>12. GuardInv'
    BY <1>3, GuardSame DEF guardTables, dropVars
  <1>13. CommandsEnd'
    BY <1>3, CommandsSame
  <1>14. RowInv'
    <2>1. \A k \in Handler : Past(k, "store")' => HasRow(handling[k].msg)'
      BY <1>1, <1>4, <1>9 DEF RowInv
    <2>2. ASSUME NEW j \in Handler, NEW k \in Handler, j # k, Past(j, "store")', Past(k, "store")',
                 handling'[j].msg = handling'[k].msg
          PROVE  RawRow(handling[j].msg)'
      <3>1. handling[j].msg = handling[k].msg
        BY <2>2, <1>1
      <3>2. Past(j, "store") \/ Past(k, "store")
        BY <2>2, <1>4
      <3>3. CASE Past(j, "store") /\ Past(k, "store")
        BY <3>1, <3>3, <2>2, <1>1, <1>9 DEF RowInv
      <3>4. CASE ~(Past(j, "store") /\ Past(k, "store"))
        <4>1. handling[j].msg = m
          BY <3>1, <3>4, <2>2, <1>4
        <4>2. HasRow(m)
          BY <3>1, <3>2, <4>1 DEF RowInv
        <4> QED
          BY <4>1, <4>2, <1>1, <1>9
      <3> QED
        BY <3>3, <3>4
    <2>3. ASSUME NEW k \in Handler, Past(k, "store")', taken'[handling'[k].msg] # "no"
          PROVE  RawRow(handling[k].msg)'
      <3>1. CASE Past(k, "store")
        BY <2>3, <3>1, <1>1, <1>9 DEF RowInv
      <3>2. CASE ~Past(k, "store")
        <4>1. handling[k].msg = m /\ taken[m] # "no"
          BY <2>3, <3>2, <1>1, <1>4
        <4>2. HasRow(m)
          BY <4>1, <1>10 DEF RowInv
        <4> QED
          BY <4>1, <4>2, <1>1, <1>9
      <3> QED
        BY <3>1, <3>2
    <2>4. /\ \A n \in Post : RowsCount(n)' /\ taken'[n] # "no" => HasRow(n)'
          /\ \A n \in Post : RowsCount(n)' /\ taken'[n] = "twice" => RawRow(n)'
      BY <1>8 DEF RowInv, RowsCount
    <2> QED
      BY <2>1, <2>2, <2>3, <2>4 DEF RowInv
  <1>15. IrcInv'
    BY <1>1, IrcSame DEF pollVars, deliverVars
  <1>16. CauseInv'
    <2>1. \A n \in Post : (Ended(n) => Ended(n)') /\ (Confused(n) => Confused(n)')
      BY EndedStays DEF dropVars
    <2>2. Past(h, "store")'
      <3>1. Steps' = Steps /\ handling[h].at \in DOMAIN Steps /\ handling[h].at \in Nat
        BY Behind DEF Steps
      <3>2. handling'[h].at = handling[h].at + 1
        BY DEF Forwards, InboxTyping
      <3>3. handling[h].at < handling'[h].at
        BY <3>1, <3>2
      <3> QED
        BY <3>1, <3>3, <1>1 DEF Past, At
    <2>3. \A n \in passed' : Ended(n)' \/ Continued(n, "guard")'
      BY <1>1, <2>1 DEF CauseInv, Continued, Marks, InboxTyping, dropVars
    <2>4. \A n \in Post : HasRow(n)' => HasRow(n) \/ n = m
      BY <1>5, ChannelInboxAssumption DEF HasRow
    <2>5. \A n \in Post : HasRow(n)' => Ended(n)' \/ Continued(n, "store")'
      BY <1>1, <2>1, <2>2, <2>4 DEF CauseInv, Continued, Marks
    <2>6. InHand' = InHand
      BY <1>1 DEF InHand, pollVars
    <2>7. LossesHaveCause'
      BY <2>1, <2>6 DEF CauseInv, LossesHaveCause, Ended, InboxTyping, deliverVars
    <2> QED
      BY <2>3, <2>5, <2>7 DEF CauseInv
  <1> QED
    BY <1>11, <1>12, <1>13, <1>14, <1>15, <1>16

\* It is no command and goes on.
LEMMA PassesCommand ==
  ASSUME InboxInv, NEW h \in Handler, ~Free(h), Forwards(h),
         At(h, "command") \/ At(h, "groupCommand"), ~handling[h].msg.command,
         excused' = excused, OnlyHandling
  PROVE  InboxInv'
  <1> USE DEF InboxInv
  <1>1. channel' = channel
    BY DEF OnlyHandling
  <1>2. /\ handling' \in [Handler -> Stands]
        /\ \A k \in Handler : Free(k)' \/ handling'[k].at \in DOMAIN Steps'
        /\ \A k \in Handler : (Free(k)' <=> Free(k)) /\ handling'[k].msg = handling[k].msg
        /\ \A k \in Handler, s \in Marks : Past(k, s) => Past(k, s)'
        /\ \A k \in Handler, s \in Marks : Past(k, s)' => Past(k, s) \/ (k = h /\ At(h, s))
        /\ \A s \in Marks : ~At(h, s) => NoneNew(s)
    BY <1>1, ForwardsFacts
  <1>3. ~At(h, "guard") /\ ~At(h, "store")
    BY DEF At
  <1>4. NoneNew("guard") /\ NoneNew("store")
    BY <1>2, <1>3 DEF Marks
  <1>5. InboxTyping'
    BY <1>2 DEF InboxTyping, OnlyHandling, pollVars, guardTables, deliverVars, dropVars
  <1>6. GuardInv'
    BY <1>4, GuardSame DEF OnlyHandling, guardTables, dropVars
  <1>7. CommandsEnd'
    BY <1>2 DEF CommandsEnd, Marks
  <1>8. RowInv'
    BY <1>4, RowsSame DEF OnlyHandling
  <1>9. IrcInv'
    BY <1>2, IrcSame DEF OnlyHandling, pollVars, deliverVars
  <1>10. CauseInv'
    BY <1>2, CauseForwards DEF OnlyHandling, pollVars, deliverVars, dropVars
  <1> QED
    BY <1>5, <1>6, <1>7, <1>8, <1>9, <1>10

-----------------------------------------------------------------------------
(* Messages that come in, and what is forgotten.                            *)

\* A free handler is given a message, delivered now or fetched before.
LEMMA HandlerBegins ==
  ASSUME InboxInv, NEW h \in Handler, NEW m \in Post, Free(h), StartHandling(h, m),
         delivered' = delivered \/ delivered' = delivered \cup {m},
         channel = "irc" => m \in delivered' \ delivered,
         inboxBatch' \in Seq(Post), channel # "weixin" => inboxBatch' = <<>>,
         ToSet(inboxBatch) \subseteq ToSet(inboxBatch') \cup {m},
         UNCHANGED <<channel, fetched, savedCursor, guardTables, storedRows, taken, excused, dropVars>>
  PROVE  InboxInv'
  <1> USE DEF InboxInv
  <1> DEFINE r == [msg |-> m, at |-> 1, row |-> TRUE]
  <1>1. r \in Stands /\ r.at = 1 /\ handling' = [handling EXCEPT ![h] = r]
    BY DEF Stands, StartHandling
  <1>2. r.msg = m /\ m # NoPost
    BY ChannelInboxAssumption
  <1> HIDE DEF r
  <1>3. /\ handling' \in [Handler -> Stands]
        /\ \A k \in Handler : Free(k)' \/ handling'[k].at \in DOMAIN Steps'
        /\ \A k \in Handler : k # h => handling'[k] = handling[k] /\ (Free(k)' <=> Free(k))
        /\ handling'[h] = r
        /\ \A k \in Handler, s \in Marks : Past(k, s)' <=> k # h /\ Past(k, s)
        /\ \A s \in Marks : NoneNew(s)
    BY <1>1, PutFacts
  <1>4. NoneNew("guard") /\ NoneNew("store") /\ NoneNew("command") /\ NoneNew("groupCommand")
    BY <1>3 DEF Marks
  <1>5. InboxTyping'
    BY <1>3 DEF InboxTyping, guardTables, dropVars
  <1>6. GuardInv'
    BY <1>4, GuardSame DEF guardTables, dropVars
  <1>7. CommandsEnd'
    BY <1>4, CommandsSame
  <1>8. RowInv'
    BY <1>4, RowsSame
  <1>9. IrcInv'
    <2> SUFFICES ASSUME channel = "irc"
                 PROVE  /\ \A k \in Handler : ~Free(k)' => /\ handling'[k].msg \in delivered'
                                                           /\ taken[handling'[k].msg] = "no"
                        /\ \A j, k \in Handler : j # k /\ ~Free(j)' => handling'[j].msg # handling'[k].msg
                        /\ \A n \in Post : taken[n] # "no" => n \in delivered'
                        /\ \A n \in Post : taken[n] # "twice"
      BY DEF IrcInv
    <2>1. /\ \A k \in Handler : ~Free(k) => handling[k].msg \in delivered /\ taken[handling[k].msg] = "no"
          /\ \A j, k \in Handler : j # k /\ ~Free(j) => handling[j].msg # handling[k].msg
          /\ \A n \in Post : taken[n] # "no" => n \in delivered
          /\ \A n \in Post : taken[n] # "twice"
      BY DEF IrcInv
    <2>2. taken[m] = "no"
      BY <2>1
    <2>3. \A k \in Handler : handling[k].msg # m
      BY <2>1, <1>2 DEF Free
    <2>4. \A k \in Handler : ~Free(k)' => handling'[k].msg \in delivered' /\ taken[handling'[k].msg] = "no"
      BY <2>1, <2>2, <1>2, <1>3
    <2>5. \A j, k \in Handler : j # k /\ ~Free(j)' => handling'[j].msg # handling'[k].msg
      BY <2>1, <2>3, <1>2, <1>3 DEF Free
    <2> QED
      BY <2>1, <2>4, <2>5
  <1>10. CauseInv'
    <2>1. \A n \in Post : (Ended(n)' <=> Ended(n)) /\ (Confused(n)' <=> Confused(n))
      BY DEF Ended, Confused, dropVars
    <2>2. \A k \in Handler, s \in Marks : Past(k, s) => Past(k, s)' /\ handling'[k].msg = handling[k].msg
      BY <1>3 DEF Past
    <2>3. \A n \in Post, s \in Marks : Continued(n, s) => Continued(n, s)'
      BY <2>2 DEF Continued
    <2>4. \A n \in Post : HasRow(n)' => HasRow(n)
      BY DEF HasRow
    <2>5. \A n \in passed' : Ended(n)' \/ Continued(n, "guard")'
      BY <2>1, <2>3 DEF CauseInv, Marks, InboxTyping, dropVars
    <2>6. \A n \in Post : HasRow(n)' => Ended(n)' \/ Continued(n, "store")'
      BY <2>1, <2>3, <2>4 DEF CauseInv, Marks
    <2>7. m \in InHand'
      BY <1>2, <1>3 DEF InHand
    <2>8. \A n \in Post : n \in InHand => n \in InHand'
      <3>1. \A k \in Handler : handling[k].msg \in Post => handling[k].msg \in InHand'
        BY <1>3, ChannelInboxAssumption DEF InHand, Free
      <3>2. \A n \in ToSet(inboxBatch) : n \in InHand'
        BY <2>7 DEF InHand
      <3> QED
        BY <3>1, <3>2 DEF InHand
    <2>9. LossesHaveCause'
      <3> SUFFICES ASSUME NEW n \in delivered', n \notin InHand'
                   PROVE  Ended(n)' \/ Confused(n)'
        BY DEF LossesHaveCause, Ended
      <3>1. n \in delivered /\ n \in Post /\ n \notin InHand
        BY <2>7, <2>8 DEF InboxTyping
      <3> QED
        BY <3>1, <2>1 DEF CauseInv, LossesHaveCause, Ended
    <2> QED
      BY <2>5, <2>6, <2>9 DEF CauseInv
  <1> QED
    BY <1>5, <1>6, <1>7, <1>8, <1>9, <1>10

\* The handlers stand still.
LEMMA Still ==
  ASSUME handling' = handling, channel' = channel
  PROVE  /\ \A k \in Handler : Free(k)' <=> Free(k)
         /\ \A k \in Handler, s \in Marks : Past(k, s)' <=> Past(k, s)
         /\ \A s \in Marks : NoneNew(s)
  BY DEF Free, Past, Steps, NoneNew

\* The poll loop fetches what is new.
LEMMA Fetches ==
  ASSUME InboxInv, NEW n \in DOMAIN Feed, FetchPosts(n)
  PROVE  InboxInv'
  <1> USE DEF InboxInv
  <1>1. /\ channel = "weixin" /\ channel' = channel /\ handling' = handling /\ inboxBatch = <<>>
        /\ inboxBatch' = SubSeq(Feed, fetched + 1, n) /\ n > fetched
        /\ fetched' = n /\ savedCursor' \in {savedCursor, n}
        /\ delivered' = delivered \cup ToSet(inboxBatch')
        /\ UNCHANGED <<guardTables, storedRows, deliveries, taken, excused, dropVars, inboxRestarts>>
    BY DEF FetchPosts
  <1>2. n \in 1 .. Len(Feed) /\ Len(Feed) \in Nat /\ fetched \in Nat /\ Feed \in Seq(Post)
    BY LenProperties, ChannelInboxAssumption DEF InboxTyping
  <1>3. \A i \in (fetched + 1) .. n : Feed[i] \in Post
    BY <1>2, ElementOfSeq
  <1>4. inboxBatch' \in Seq(Post)
    BY <1>1, <1>2, <1>3, SubSeqProperties
  <1>5. ToSet(inboxBatch') \subseteq Post
    BY <1>4, ElementOfSeq, LenProperties DEF ToSet
  <1>6. /\ \A k \in Handler : Free(k)' <=> Free(k)
        /\ \A k \in Handler, s \in Marks : Past(k, s)' <=> Past(k, s)
        /\ NoneNew("guard") /\ NoneNew("store") /\ NoneNew("command") /\ NoneNew("groupCommand")
    BY <1>1, Still DEF Marks
  <1>7. fetched' \in 0 .. Len(Feed) /\ savedCursor' \in 0 .. fetched'
    BY <1>1, <1>2 DEF InboxTyping
  <1>8. Steps' = Steps
    BY <1>1 DEF Steps
  <1>9. InboxTyping'
    BY <1>1, <1>4, <1>5, <1>6, <1>7, <1>8 DEF InboxTyping, guardTables, dropVars
  <1>10. GuardInv'
    BY <1>1, <1>6, GuardSame DEF guardTables, dropVars
  <1>11. CommandsEnd'
    BY <1>6, CommandsSame
  <1>12. RowInv'
    BY <1>1, <1>6, RowsSame
  <1>13. IrcInv'
    BY <1>1 DEF IrcInv
  <1>14. CauseInv'
    <2>1. \A m \in Post : (Ended(m)' <=> Ended(m)) /\ (Confused(m)' <=> Confused(m))
      BY <1>1 DEF Ended, Confused, dropVars
    <2>2. \A m \in Post, s \in Marks : Continued(m, s) => Continued(m, s)'
      BY <1>1, <1>6 DEF Continued
    <2>3. \A m \in Post : HasRow(m)' => HasRow(m)
      BY <1>1 DEF HasRow
    <2>4. InHand' = {handling[h].msg : h \in Handler} \cup ToSet(inboxBatch')
          /\ InHand = {handling[h].msg : h \in Handler} \cup {}
      BY <1>1 DEF InHand, ToSet
    <2>5. LossesHaveCause'
      BY <1>1, <1>5, <2>1, <2>4 DEF CauseInv, LossesHaveCause, Ended, InboxTyping
    <2>6. \A m \in passed' : Ended(m)' \/ Continued(m, "guard")'
      BY <1>1, <2>1, <2>2 DEF CauseInv, Marks, InboxTyping, dropVars
    <2>7. \A m \in Post : HasRow(m)' => Ended(m)' \/ Continued(m, "store")'
      BY <2>1, <2>2, <2>3 DEF CauseInv, Marks
    <2> QED
      BY <2>5, <2>6, <2>7 DEF CauseInv
  <1> QED
    BY <1>9, <1>10, <1>11, <1>12, <1>13, <1>14

\* The guard forgets an id.
LEMMA Forgets ==
  ASSUME InboxInv, NEW i, ForgetId(i)
  PROVE  InboxInv'
  <1> USE DEF InboxInv
  <1>1. /\ seen' = seen \ {i} /\ lapsed' = lapsed \cup {m \in passed : m.id \in {i}}
        /\ UNCHANGED <<channel, handling, pollVars, old, storedRows, deliverVars, taken,
                       excused, passed, inboxRestarts>>
    BY DEF ForgetId, Forget
  <1>2. /\ \A k \in Handler : Free(k)' <=> Free(k)
        /\ \A k \in Handler, s \in Marks : Past(k, s)' <=> Past(k, s)
        /\ NoneNew("guard") /\ NoneNew("store") /\ NoneNew("command") /\ NoneNew("groupCommand")
    BY <1>1, Still DEF Marks
  <1>3. Steps' = Steps
    BY <1>1 DEF Steps
  <1>4. InboxTyping'
    BY <1>1, <1>2, <1>3 DEF InboxTyping, pollVars, deliverVars
  <1>5. GuardInv'
    BY <1>1, <1>2 DEF GuardInv, Marks
  <1>6. CommandsEnd'
    BY <1>2, CommandsSame
  <1>7. RowInv'
    BY <1>1, <1>2, RowsSame
  <1>8. IrcInv'
    BY <1>1 DEF IrcInv, pollVars, deliverVars, Free
  <1>9. CauseInv'
    BY <1>1, <1>2, CauseForwards DEF pollVars, deliverVars
  <1> QED
    BY <1>4, <1>5, <1>6, <1>7, <1>8, <1>9

\* The program is restarted.
LEMMA Restarts ==
  ASSUME InboxInv, InboxRestart
  PROVE  InboxInv'
  <1> USE DEF InboxInv
  <1>1. /\ handling' = [h \in Handler |-> Resting]
        /\ inboxBatch' = <<>> /\ fetched' = savedCursor
        /\ seen' = {} /\ lapsed' = lapsed \cup {m \in passed : m.id \in seen}
        /\ excused' = excused \cup (InHand \cap Post)
        /\ UNCHANGED <<channel, savedCursor, storedRows, deliverVars, taken, passed>>
    BY DEF InboxRestart, Forget
  <1>2. old' \subseteq Post
    <2>1. Deliverable \subseteq Post
      <3>1. ToSet(Feed) \subseteq Post
        BY ElementOfSeq, LenProperties, ChannelInboxAssumption DEF ToSet
      <3> QED
        BY <3>1 DEF Deliverable
    <2>2. PICK sent \in SUBSET (Deliverable \ delivered) : old' = delivered \cup sent
      BY DEF InboxRestart
    <2> QED
      BY <2>1, <2>2 DEF InboxTyping
  <1>3. Resting \in Stands /\ Resting.msg = NoPost
    BY DEF Resting, Stands
  <1>4. \A k \in Handler : Free(k)' /\ handling'[k].msg = NoPost
    BY <1>1, <1>3 DEF Free
  <1>5. \A k \in Handler, s \in Marks : ~Past(k, s)'
    BY <1>4 DEF Past
  <1>6. NoneNew("guard") /\ NoneNew("store") /\ NoneNew("command") /\ NoneNew("groupCommand")
    BY <1>5 DEF NoneNew, Marks
  <1>7. fetched' \in 0 .. Len(Feed) /\ savedCursor' \in 0 .. fetched'
    <2>1. Len(Feed) \in Nat
      BY LenProperties, ChannelInboxAssumption
    <2> QED
      BY <1>1, <2>1 DEF InboxTyping
  <1>8. InboxTyping'
    BY <1>1, <1>2, <1>3, <1>4, <1>7 DEF InboxTyping, deliverVars
  <1>9. GuardInv'
    BY <1>1, <1>5 DEF GuardInv, Marks
  <1>10. CommandsEnd'
    BY <1>6, CommandsSame
  <1>11. RowInv'
    BY <1>1, <1>6, RowsSame
  <1>12. IrcInv'
    BY <1>1, <1>4 DEF IrcInv, deliverVars
  <1>13. CauseInv'
    <2>1. \A n \in Post : (Ended(n) => Ended(n)') /\ (Confused(n) => Confused(n)')
      BY <1>1 DEF Ended, Confused
    <2>2. \A n \in Post, s \in Marks : Continued(n, s) => Ended(n)'
      BY <1>1 DEF Continued, InHand, Ended
    <2>3. \A n \in Post : HasRow(n)' => HasRow(n)
      BY <1>1 DEF HasRow
    <2>4. \A n \in Post : n \in InHand => Ended(n)'
      BY <1>1 DEF Ended
    <2>5. LossesHaveCause'
      BY <1>1, <2>1, <2>4 DEF CauseInv, LossesHaveCause, Ended, InboxTyping, deliverVars
    <2>6. \A n \in passed' : Ended(n)' \/ Continued(n, "guard")'
      BY <1>1, <2>1, <2>2 DEF CauseInv, Marks, InboxTyping
    <2>7. \A n \in Post : HasRow(n)' => Ended(n)' \/ Continued(n, "store")'
      BY <2>1, <2>2, <2>3 DEF CauseInv, Marks
    <2> QED
      BY <2>5, <2>6, <2>7 DEF CauseInv
  <1> QED
    BY <1>8, <1>9, <1>10, <1>11, <1>12, <1>13

-----------------------------------------------------------------------------
(* The steps together.                                                      *)

\* To go on and to be done with a message, as the steps say it.
LEMMA HandlerMoves ==
  ASSUME InboxTyping, NEW h \in Handler, ~Free(h)
  PROVE  /\ GoOn(h) /\ Steps[handling[h].at] # "turn" => Forwards(h) /\ excused' = excused
         /\ \A why : EndHandling(h, why) =>
               /\ Leaves(h)
               /\ why \in Excuses => excused' = excused \cup {handling[h].msg}
               /\ why \notin Excuses => excused' = excused
  <1>1. handling[h] \in Stands
    BY DEF InboxTyping
  <1>2. [handling[h] EXCEPT !.at = @ + 1]
           = [msg |-> handling[h].msg, at |-> handling[h].at + 1, row |-> handling[h].row]
        /\ handling[h].row \in BOOLEAN
    BY <1>1 DEF Stands
  <1> QED
    BY <1>2 DEF GoOn, Forwards, EndHandling, Leaves

\* The guards that drop a message for a reason of its own.
LEMMA GuardSteps ==
  ASSUME InboxInv, NEW h \in Handler,
         \/ CheckPrivate(h) \/ CheckAllowed(h) \/ CheckHeard(h) \/ CheckAddressed(h)
         \/ FindChat(h) \/ GetToken(h) \/ FindChatOrRaw(h) \/ DropPreStart(h) \/ StoreFresh(h)
  PROVE  InboxInv'
  <1>1. ~Free(h) /\ OnlyHandling
    BY DEF CheckPrivate, CheckAllowed, CheckHeard, CheckAddressed, FindChat, GetToken,
           FindChatOrRaw, DropPreStart, StoreFresh, At
  <1>2. InboxTyping
    BY DEF InboxInv
  <1>3. handling[h].msg \in Post
    BY <1>1, <1>2, Behind
  <1>4. /\ Steps[handling[h].at] \notin Marks /\ Steps[handling[h].at] # "turn"
        /\ \A s \in Marks : ~At(h, s)
    BY DEF CheckPrivate, CheckAllowed, CheckHeard, CheckAddressed, FindChat, GetToken,
           FindChatOrRaw, DropPreStart, StoreFresh, At, Marks
  <1>5. \/ GoOn(h)
        \/ \E why \in Excuses : EndHandling(h, why)
        \/ FindChatOrRaw(h)
    BY DEF CheckPrivate, CheckAllowed, CheckHeard, CheckAddressed, FindChat, GetToken,
           DropPreStart, StoreFresh, GoOnIf, Excuses
  <1>6. CASE GoOn(h)
    <2>1. Forwards(h) /\ excused' = excused
      BY <1>1, <1>2, <1>4, <1>6, HandlerMoves
    <2> QED
      BY <1>1, <1>4, <2>1, GoesOn
  <1>7. CASE \E why \in Excuses : EndHandling(h, why)
    <2>1. Leaves(h) /\ excused' = excused \cup {handling[h].msg}
      BY <1>1, <1>2, <1>7, HandlerMoves
    <2> QED
      BY <1>1, <1>3, <2>1, Excused DEF OnlyHandling
  <1>8. CASE FindChatOrRaw(h)
    <2>1. Forwards(h) /\ excused' = excused
      BY <1>4, <1>8 DEF Forwards, FindChatOrRaw
    <2> QED
      BY <1>1, <1>4, <2>1, GoesOn
  <1> QED
    BY <1>5, <1>6, <1>7, <1>8

\* The steps that count duplicates, store, carry out and take up.
LEMMA OtherSteps ==
  ASSUME InboxInv, NEW h \in Handler,
         \/ DropDuplicate(h) \/ RunCommand(h) \/ CheckGroup(h)
         \/ StoreIfNew(h) \/ RouteToFocused(h) \/ TakeTurn(h)
  PROVE  InboxInv'
  <1>1. ~Free(h)
    BY DEF DropDuplicate, RunCommand, CheckGroup, StoreIfNew, RouteToFocused, TakeTurn, At
  <1>2. InboxTyping
    BY DEF InboxInv
  <1>3. PICK m \in Post : m = handling[h].msg
    BY <1>1, <1>2, Behind
  <1>4. /\ GoOn(h) /\ Steps[handling[h].at] # "turn" => Forwards(h) /\ excused' = excused
        /\ \A why : EndHandling(h, why) =>
              /\ Leaves(h)
              /\ why \in Excuses => excused' = excused \cup {m}
              /\ why \notin Excuses => excused' = excused
    BY <1>1, <1>2, <1>3, HandlerMoves
  <1>11. \A why \in {"duplicate", "command", "stored before", "routed", "turn"} :
            EndHandling(h, why) => Leaves(h) /\ excused' = excused
    BY <1>4 DEF Excuses
  <1>5. CASE DropDuplicate(h)
    <2>1. At(h, "guard") /\ Steps[handling[h].at] # "turn"
      BY <1>5 DEF DropDuplicate, At
    <2>2. CASE m.id \in seen
      <3>1. /\ EndHandling(h, "duplicate") /\ seen' = seen /\ passed' = passed
            /\ UNCHANGED <<channel, pollVars, old, storedRows, deliverVars, taken, lapsed>>
        BY <1>3, <1>5, <2>2 DEF DropDuplicate, GoOnIf
      <3>2. Leaves(h) /\ excused' = excused
        BY <3>1, <1>11
      <3> QED
        BY <1>1, <1>3, <2>1, <2>2, <3>1, <3>2, Stopped DEF guardTables, dropVars
    <2>3. CASE m.id \notin seen
      <3>1. /\ GoOn(h) /\ seen' = seen \cup {m.id} /\ passed' = passed \cup {m}
            /\ UNCHANGED <<channel, pollVars, old, storedRows, deliverVars, taken, lapsed>>
        BY <1>3, <1>5, <2>3 DEF DropDuplicate, GoOnIf
      <3>2. Forwards(h) /\ excused' = excused
        BY <2>1, <3>1, <1>4
      <3> QED
        BY <1>1, <1>3, <2>1, <2>3, <3>1, <3>2, PassesGuard
    <2> QED
      BY <2>2, <2>3
  <1>6. CASE RunCommand(h)
    <2>1. /\ At(h, "command") \/ At(h, "groupCommand")
          /\ Steps[handling[h].at] # "turn"
          /\ UNCHANGED <<channel, pollVars, guardTables, storedRows, deliverVars, dropVars, inboxRestarts>>
      BY <1>6 DEF RunCommand, At
    <2>2. CASE ~m.command
      <3>1. GoOn(h) /\ taken' = taken
        BY <1>3, <1>6, <2>2 DEF RunCommand
      <3>2. Forwards(h) /\ excused' = excused /\ OnlyHandling
        BY <2>1, <3>1, <1>4 DEF OnlyHandling
      <3> QED
        BY <1>1, <1>3, <2>1, <2>2, <3>2, PassesCommand
    <2>3. CASE m.command /\ (At(h, "command") \/ m.addressed)
      <3>1. EndHandling(h, "command") /\ TakeUp(m)
        BY <1>3, <1>6, <2>3 DEF RunCommand
      <3>2. Leaves(h) /\ excused' = excused
        BY <3>1, <1>11
      <3> QED
        BY <1>1, <1>3, <2>1, <2>3, <3>1, <3>2, Taken
    <2>4. CASE m.command /\ ~(At(h, "command") \/ m.addressed)
      <3>1. EndHandling(h, "not addressed") /\ taken' = taken
        BY <1>3, <1>6, <2>4 DEF RunCommand
      <3>2. Leaves(h) /\ excused' = excused \cup {m}
        BY <3>1, <1>4 DEF Excuses
      <3> QED
        BY <1>1, <1>3, <2>1, <3>1, <3>2, Excused
    <2> QED
      BY <2>2, <2>3, <2>4
  <1>7. CASE CheckGroup(h)
    <2>1. /\ At(h, "groupAllow") /\ Steps[handling[h].at] # "turn"
          /\ \A s \in Marks : ~At(h, s)
          /\ UNCHANGED <<channel, pollVars, guardTables, deliverVars, taken, dropVars, inboxRestarts>>
      BY <1>7 DEF CheckGroup, At, Marks
    <2>2. CASE m.allowed
      <3>1. GoOn(h) /\ storedRows' = storedRows
        BY <1>3, <1>7, <2>2 DEF CheckGroup, GoOnIf
      <3>2. Forwards(h) /\ excused' = excused /\ OnlyHandling
        BY <2>1, <3>1, <1>4 DEF OnlyHandling
      <3> QED
        BY <1>1, <2>1, <3>2, GoesOn
    <2>3. CASE ~m.allowed
      <3>1. /\ EndHandling(h, "not allowed")
            /\ storedRows' = storedRows \/ storedRows' = storedRows \cup {RowOf(h)}
        BY <1>3, <1>7, <2>3 DEF CheckGroup, GoOnIf
      <3>2. Leaves(h) /\ excused' = excused \cup {m}
        BY <3>1, <1>4 DEF Excuses
      <3> QED
        BY <1>1, <1>3, <2>1, <3>1, <3>2, Excused
    <2> QED
      BY <2>2, <2>3
  <1>8. CASE StoreIfNew(h)
    <2>1. /\ At(h, "store") /\ Steps[handling[h].at] # "turn"
          /\ UNCHANGED <<channel, pollVars, guardTables, deliverVars, taken, dropVars, inboxRestarts>>
      BY <1>8 DEF StoreIfNew, At
    <2>2. CASE EndHandling(h, "not stored") /\ storedRows' = storedRows
      <3>1. Leaves(h) /\ excused' = excused \cup {m}
        BY <2>2, <1>4 DEF Excuses
      <3> QED
        BY <1>1, <1>3, <2>1, <2>2, <3>1, Excused
    <2>3. CASE GoOn(h) /\ RowOf(h) \notin storedRows /\ storedRows' = storedRows \cup {RowOf(h)}
      <3>1. Forwards(h) /\ excused' = excused
        BY <2>1, <2>3, <1>4
      <3> QED
        BY <1>1, <1>3, <2>1, <2>3, <3>1, PassesStore
    <2>4. CASE EndHandling(h, "stored before") /\ RowOf(h) \in storedRows /\ storedRows' = storedRows
      <3>1. Leaves(h) /\ excused' = excused
        BY <2>4, <1>11
      <3> QED
        BY <1>1, <1>3, <2>1, <2>4, <3>1, Stopped
    <2>5. \/ EndHandling(h, "not stored") /\ storedRows' = storedRows
          \/ GoOn(h) /\ RowOf(h) \notin storedRows /\ storedRows' = storedRows \cup {RowOf(h)}
          \/ EndHandling(h, "stored before") /\ RowOf(h) \in storedRows /\ storedRows' = storedRows
      BY <1>8 DEF StoreIfNew, GoOnIf
    <2> QED
      BY <2>2, <2>3, <2>4, <2>5
  <1>9. CASE RouteToFocused(h)
    <2>1. /\ At(h, "focus") /\ Steps[handling[h].at] # "turn"
          /\ \A s \in Marks : ~At(h, s)
          /\ UNCHANGED <<channel, pollVars, guardTables, storedRows, deliverVars, dropVars, inboxRestarts>>
      BY <1>9 DEF RouteToFocused, At, Marks
    <2>2. CASE GoOn(h) /\ taken' = taken
      <3>1. Forwards(h) /\ excused' = excused /\ OnlyHandling
        BY <2>1, <2>2, <1>4 DEF OnlyHandling
      <3> QED
        BY <1>1, <2>1, <3>1, GoesOn
    <2>3. CASE EndHandling(h, "routed") /\ TakeUp(m)
      <3>1. Leaves(h) /\ excused' = excused
        BY <2>3, <1>11
      <3> QED
        BY <1>1, <1>3, <2>1, <2>3, <3>1, Taken
    <2> QED
      BY <1>3, <1>9, <2>2, <2>3 DEF RouteToFocused
  <1>10. CASE TakeTurn(h)
    <2>1. /\ At(h, "turn") /\ EndHandling(h, "turn") /\ TakeUp(m)
          /\ UNCHANGED <<channel, pollVars, guardTables, storedRows, deliverVars, dropVars, inboxRestarts>>
      BY <1>3, <1>10 DEF TakeTurn
    <2>2. Leaves(h) /\ excused' = excused
      BY <2>1, <1>11
    <2> QED
      BY <1>1, <1>3, <2>1, <2>2, Taken
  <1> QED
    BY <1>5, <1>6, <1>7, <1>8, <1>9, <1>10

\* A message comes in by a socket or a webhook.
LEMMA Delivers ==
  ASSUME InboxInv, NEW h \in Handler, NEW m \in Post, DeliverPost(h, m)
  PROVE  InboxInv'
  <1>1. inboxBatch \in Seq(Post) /\ (channel # "weixin" => inboxBatch = <<>>)
    BY DEF InboxInv, InboxTyping, IrcInv
  <1>2. /\ Free(h) /\ StartHandling(h, m) /\ delivered' = delivered \cup {m}
        /\ channel = "irc" => m \in delivered' \ delivered
        /\ UNCHANGED <<channel, fetched, savedCursor, guardTables, storedRows, taken, excused, dropVars>>
        /\ inboxBatch' = inboxBatch
    BY DEF DeliverPost, pollVars
  <1> QED
    BY <1>1, <1>2, HandlerBegins

\* The poll loop takes the next message of its batch.
LEMMA TakesNext ==
  ASSUME InboxInv, HandleNext
  PROVE  InboxInv'
  <1>1. /\ inboxBatch \in Seq(Post) /\ inboxBatch # <<>> /\ channel = "weixin"
        /\ inboxBatch' = Tail(inboxBatch)
    BY DEF InboxInv, InboxTyping, IrcInv, HandleNext
  <1>2. /\ Head(inboxBatch) \in Post /\ Tail(inboxBatch) \in Seq(Post)
        /\ Len(Tail(inboxBatch)) = Len(inboxBatch) - 1
        /\ \A i \in 1 .. Len(Tail(inboxBatch)) : Tail(inboxBatch)[i] = inboxBatch[i + 1]
    BY <1>1, HeadTailProperties
  <1>3. ToSet(inboxBatch) \subseteq ToSet(Tail(inboxBatch)) \cup {Head(inboxBatch)}
    <2> SUFFICES ASSUME NEW i \in DOMAIN inboxBatch, inboxBatch[i] # Head(inboxBatch)
                 PROVE  inboxBatch[i] \in ToSet(Tail(inboxBatch))
      BY DEF ToSet
    <2>1. i \in 1 .. Len(inboxBatch) /\ Len(inboxBatch) \in Nat /\ i # 1
      BY <1>1, LenProperties
    <2>2. i - 1 \in 1 .. (Len(inboxBatch) - 1) /\ (i - 1) + 1 = i
      BY ONLY <2>1
    <2>3. i - 1 \in DOMAIN Tail(inboxBatch) /\ Tail(inboxBatch)[i - 1] = inboxBatch[i]
      BY <1>2, <2>2, LenProperties
    <2> QED
      BY <2>3 DEF ToSet
  <1>4. /\ Poller \in Handler /\ Free(Poller) /\ StartHandling(Poller, Head(inboxBatch))
        /\ UNCHANGED <<channel, fetched, savedCursor, guardTables, storedRows, taken, excused, dropVars>>
        /\ delivered' = delivered
    BY ChannelInboxAssumption DEF HandleNext, deliverVars
  <1> QED
    BY <1>1, <1>2, <1>3, <1>4, HandlerBegins

\* Nothing has been delivered yet.
LEMMA InboxInitially == InboxInit => InboxInv
  <1>1. SUFFICES ASSUME InboxInit PROVE InboxInv
    OBVIOUS
  <1>2. Resting \in Stands /\ Resting.msg = NoPost
    BY DEF Resting, Stands
  <1>3. \A h \in Handler : Free(h) /\ handling[h] \in Stands
    BY <1>1, <1>2 DEF InboxInit, Free
  <1>4. \A h \in Handler : \A s : ~Past(h, s)
    BY <1>3 DEF Past
  <1>5. Len(Feed) \in Nat
    BY ChannelInboxAssumption, LenProperties
  <1>6. InboxTyping
    BY <1>1, <1>2, <1>3, <1>5 DEF InboxInit, InboxTyping
  <1>7. GuardInv /\ CommandsEnd /\ RowInv /\ CauseInv
    BY <1>1, <1>4 DEF InboxInit, GuardInv, CommandsEnd, RowInv, CauseInv, HasRow, LossesHaveCause
  <1>8. IrcInv
    BY <1>1, <1>3 DEF InboxInit, IrcInv
  <1> QED
    BY <1>6, <1>7, <1>8 DEF InboxInv

\* Every step preserves the invariant.
LEMMA InboxStep == InboxInv /\ [InboxNext]_inboxVars => InboxInv'
  <1> SUFFICES ASSUME InboxInv, [InboxNext]_inboxVars PROVE InboxInv'
    OBVIOUS
  <1>1. CASE \E h \in Handler, m \in Post : DeliverPost(h, m)
    BY <1>1, Delivers
  <1>2. CASE \E n \in DOMAIN Feed : FetchPosts(n)
    BY <1>2, Fetches
  <1>3. CASE HandleNext
    BY <1>3, TakesNext
  <1>4. CASE \E h \in Handler : HandlerStep(h)
    BY <1>4, GuardSteps, OtherSteps DEF HandlerStep
  <1>5. CASE \E i \in {m.id : m \in Post} : ForgetId(i)
    BY <1>5, Forgets
  <1>6. CASE InboxRestart
    BY <1>6, Restarts
  <1>7. CASE UNCHANGED inboxVars
    <2>1. /\ UNCHANGED <<channel, handling, inboxBatch, fetched, savedCursor, old, seen, storedRows,
                         delivered, taken, excused, passed, lapsed>>
      BY <1>7 DEF inboxVars, pollVars, guardTables, deliverVars, dropVars
    <2>2. /\ \A k \in Handler : Free(k)' <=> Free(k)
          /\ \A k \in Handler, s \in Marks : Past(k, s)' <=> Past(k, s)
          /\ NoneNew("guard") /\ NoneNew("store") /\ NoneNew("command") /\ NoneNew("groupCommand")
      BY <2>1, Still DEF Marks
    <2>3. InboxTyping' /\ IrcInv'
      BY <2>1, <2>2 DEF InboxInv, InboxTyping, IrcInv, Steps
    <2>4. GuardInv' /\ CommandsEnd' /\ RowInv'
      BY <2>1, <2>2, GuardSame, CommandsSame, RowsSame DEF InboxInv
    <2>5. CauseInv'
      BY <2>1, <2>2, CauseForwards DEF InboxInv
    <2> QED
      BY <2>3, <2>4, <2>5 DEF InboxInv
  <1> QED
    BY <1>1, <1>2, <1>3, <1>4, <1>5, <1>6, <1>7 DEF InboxNext

\* Any number of messages, chats and handlers, in any of the adapters: who has
\* passed the guard or the table, and what became of it.
THEOREM InboxInvariant == InboxSpec => []InboxInv
  <1>1. InboxInit => InboxInv
    BY InboxInitially
  <1>2. InboxInv /\ [InboxNext]_inboxVars => InboxInv'
    BY InboxStep
  <1> QED
    BY <1>1, <1>2, PTL DEF InboxSpec

\* A message is taken up once, and none is lost without a cause.
THEOREM MessagesOnce == InboxSpec => []MessagesTakenOnce
  <1>1. InboxInv => MessagesTakenOnce
    <2> SUFFICES ASSUME InboxInv PROVE MessagesTakenOnce
      OBVIOUS
    <2>1. TakenOnce
      <3> SUFFICES ASSUME NEW m \in Post, taken[m] = "twice"
                   PROVE  \/ m.command /\ channel # "feishu" /\ m \in lapsed
                          \/ RawRow(m)
        BY DEF TakenOnce, RawRow
      <3>1. channel # "irc"
        BY DEF InboxInv, IrcInv
      <3>2. m \in lapsed
        BY <3>1 DEF InboxInv, GuardInv
      <3>3. RowsCount(m) => RawRow(m)
        BY DEF InboxInv, RowInv
      <3> QED
        BY <3>1, <3>2, <3>3 DEF RowsCount
    <2> QED
      BY <2>1 DEF InboxInv, CauseInv, MessagesTakenOnce
  <1> QED
    BY <1>1, InboxInvariant, PTL

-----------------------------------------------------------------------------
(* All of the books together.                                               *)

\* A handler stands at a message and at a step of its adapter.
LEMMA InboxTyped ==
  ASSUME InboxInv
  PROVE  InboxTypeOK
  <1>1. InboxTyping
    BY DEF InboxInv
  <1>2. \A h \in Handler : handling[h].msg \in Post \cup {NoPost}
    <2> SUFFICES ASSUME NEW h \in Handler PROVE handling[h].msg \in Post \cup {NoPost}
      OBVIOUS
    <2>1. handling[h] \in Stands
      BY <1>1 DEF InboxTyping
    <2> QED
      BY <2>1 DEF Stands
  <1>3. {old, delivered, excused, passed, lapsed} \subseteq SUBSET Post
    BY <1>1 DEF InboxTyping
  <1> QED
    BY <1>1, <1>2, <1>3 DEF InboxTyping, InboxTypeOK

\* The inductive invariants of the nine parts.
BookkeepingInv ==
    /\ LimitsTypeInv /\ HubInv /\ GuardsInv /\ TranscriptInv /\ MemoryTypeInv
    /\ InboxInv /\ SkillInv /\ OverridesInv /\ WebTypeInv

\* A step of the books is a step of one part and none of the others.
LEMMA PartSteps ==
  ASSUME [BookkeepingNext]_bookkeepingVars
  PROVE  /\ [LimitsNext]_limitsVars /\ [Next]_vars /\ [GuardsNext]_guardVars
         /\ [TranscriptNext]_transcriptVars /\ [MemoryNext]_memVars /\ [InboxNext]_inboxVars
         /\ [SkillNext]_skillVars /\ [OverridesNext]_overridesVars /\ [WebNext]_webVars
  <1>1. CASE BookkeepingNext
    BY <1>1 DEF BookkeepingNext
  <1>2. CASE UNCHANGED bookkeepingVars
    BY <1>2 DEF bookkeepingVars
  <1> QED
    BY <1>1, <1>2

\* Each part starts as it does on its own.
LEMMA PartsInitially == BookkeepingInit => BookkeepingInv
  <1> SUFFICES ASSUME BookkeepingInit PROVE BookkeepingInv
    OBVIOUS
  <1>1. /\ LimitsInit /\ Init /\ GuardsInit /\ TranscriptInit /\ MemoryInit /\ InboxInit
        /\ SkillInit /\ OverridesInit /\ WebInit
    BY DEF BookkeepingInit
  <1>2. LimitsTypeInv /\ HubInv /\ GuardsInv /\ TranscriptInv
    BY <1>1, LimitsTypesInit, HubInit, GuardsInitInv, TranscriptInitInv
  <1>3. MemoryTypeInv /\ InboxInv /\ SkillInv /\ OverridesInv /\ WebTypeInv
    BY <1>1, MemoryTypesInit, InboxInitially, SkillInitially, OverridesInitially, WebTypesInit
  <1> QED
    BY <1>2, <1>3 DEF BookkeepingInv

\* What moves one part leaves the invariants of the others.
LEMMA PartsStep ==
  ASSUME BookkeepingInv, [BookkeepingNext]_bookkeepingVars
  PROVE  BookkeepingInv'
  <1>1. /\ LimitsTypeInv /\ HubInv /\ GuardsInv /\ TranscriptInv /\ MemoryTypeInv
        /\ InboxInv /\ SkillInv /\ OverridesInv /\ WebTypeInv
    BY DEF BookkeepingInv
  <1>2. /\ [LimitsNext]_limitsVars /\ [Next]_vars /\ [GuardsNext]_guardVars
        /\ [TranscriptNext]_transcriptVars /\ [MemoryNext]_memVars /\ [InboxNext]_inboxVars
        /\ [SkillNext]_skillVars /\ [OverridesNext]_overridesVars /\ [WebNext]_webVars
    BY PartSteps
  <1>3. LimitsTypeInv' /\ HubInv'
    BY <1>1, <1>2, LimitsTypesStep, HubStep
  <1>4. GuardsInv' /\ TranscriptInv' /\ MemoryTypeInv'
    BY <1>1, <1>2, GuardsStep, TranscriptStep, MemoryTypesStep
  <1>5. InboxInv' /\ SkillInv'
    BY <1>1, <1>2, InboxStep, SkillStep
  <1>6. OverridesInv' /\ WebTypeInv'
    BY <1>1, <1>2, OverridesStep, WebTypesStep
  <1> QED
    BY <1>3, <1>4, <1>5, <1>6 DEF BookkeepingInv

\* The components that keep books stay in their types, with locks, rows, counters
\* and sessions of any number, and every session lock is the one the hub has.
THEOREM BookkeepingTypes == BookkeepingSpec => []BookkeepingTypeOK
  <1>1. BookkeepingInv => BookkeepingTypeOK
    <2> SUFFICES ASSUME BookkeepingInv PROVE BookkeepingTypeOK
      OBVIOUS
    <2>1. /\ LimitsTypeInv /\ HubInv /\ GuardsInv /\ TranscriptInv /\ MemoryTypeInv
          /\ InboxInv /\ SkillInv /\ OverridesInv /\ WebTypeInv
      BY DEF BookkeepingInv
    <2>2. LimitsTypeOK /\ GuardsTypeOK /\ MemoryTypeOK /\ InboxTypeOK /\ WebTypeOK
      BY <2>1, LimitsTyped, GuardsTyped, MemoryTyped, InboxTyped, WebTyped
    <2>3. TranscriptTypeOK /\ SkillTypeOK /\ OverridesTypeOK
      BY <2>1 DEF TranscriptInv, SkillInv, OverridesInv
    <2> QED
      BY <2>1, <2>2, <2>3 DEF BookkeepingTypeOK
  <1>2. BookkeepingInv /\ [BookkeepingNext]_bookkeepingVars => BookkeepingInv'
    BY PartsStep
  <1> QED
    BY <1>1, <1>2, PartsInitially, PTL DEF BookkeepingSpec

=============================================================================
