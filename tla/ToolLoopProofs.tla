---------------------------- MODULE ToolLoopProofs ----------------------------
(***************************************************************************)
(* Proofs about Transcript and LoopGuards, for any limits and any number   *)
(* of turns.                                                               *)
(*   TranscriptInv says of every list of a chat that its messages are      *)
(* whole and that each suits the one before it: answers come behind calls, *)
(* their own if calls are there at all.  Compaction joins neighbours of    *)
(* one role, and what it joins are never answers or their calls, so its    *)
(* result is such a list again; and the two folds that prepare a list for  *)
(* a provider keep, message by message, what they have found of calls and  *)
(* answers.                                                                *)
(*   GuardsInv says of every summary a turn keeps of its calls that it is  *)
(* what would be made of the calls themselves: the keys of the breaker's   *)
(* window are the last of the executed calls, one by one, each counter is  *)
(* the number of a set of positions, the streak reaches back to the first  *)
(* response that is different.                                             *)
(*   A fold is proved about by the values it goes through: the definition  *)
(* of FoldLeft iterates over sets of positions, and what it iterates is    *)
(* shown to exist and to be right on the sets 1 .. k.                      *)
(***************************************************************************)
EXTENDS Transcript, LoopGuards, FiniteSetTheorems, SequenceTheorems,
        WellFoundedInduction, TLAPS

-----------------------------------------------------------------------------
(* Folds, by the values they go through.                                    *)

\* Induction, for sets of numbers.
LEMMA Least ==
  ASSUME NEW T \in SUBSET Nat, T # {}
  PROVE  \E i \in T : \A j \in T : i <= j
  <1>1. PICK i \in T : \A j \in T : ~ (<<j, i>> \in OpToRel(<, Nat))
    BY NatLessThanWellFounded, WFMin
  <1>2. \A j \in T : ~ (j < i)
    BY <1>1 DEF OpToRel
  <1> QED
    BY <1>2

\* Induction up to n.
LEMMA InductUpTo ==
  ASSUME NEW n \in Nat, NEW S, 0 \in S, \A k \in 0 .. n - 1 : k \in S => k + 1 \in S
  PROVE  0 .. n \subseteq S
  <1> DEFINE T == (0 .. n) \ S
  <1>1. SUFFICES ASSUME T # {} PROVE FALSE
    OBVIOUS
  <1>0. T \in SUBSET Nat
    OBVIOUS
  <1> HIDE DEF T
  <1>2. PICK i \in T : \A j \in T : i <= j
    BY <1>0, <1>1, Least
  <1> USE DEF T
  <1>3. i - 1 \in 0 .. n - 1 /\ i - 1 \notin T
    BY <1>2
  <1>4. i - 1 \in S /\ (i - 1) + 1 = i
    BY <1>3
  <1> QED
    BY <1>2, <1>3, <1>4

\* The greatest element of a set of numbers up to n + 1.
LEMMA MaxOf ==
  ASSUME NEW s, NEW m \in s, \A x \in s : m >= x
  PROVE  Max(s) \in s /\ \A x \in s : Max(s) >= x
  BY Zenon DEF Max

\* The greatest position of those up to n + 1 is n + 1 if it is one of them.
LEMMA MaxTop ==
  ASSUME NEW n \in Nat, NEW s \in SUBSET (1 .. n + 1), n + 1 \in s
  PROVE  Max(s) = n + 1
  <1>1. \A x \in s : n + 1 >= x /\ x \in Nat
    OBVIOUS
  <1>2. Max(s) \in s /\ \A x \in s : Max(s) >= x
    BY <1>1, MaxOf
  <1>3. PICK m \in s : m = Max(s)
    BY <1>2
  <1>4. m >= n + 1 /\ n + 1 >= m /\ m \in Nat
    BY <1>1, <1>2, <1>3
  <1>5. m = n + 1
    BY <1>4
  <1> QED
    BY <1>3, <1>5

\* Positions that are not none have a greatest.
LEMMA MaxIn ==
  ASSUME NEW n \in Nat, NEW s \in SUBSET (1 .. n), s # {}
  PROVE  Max(s) \in s
  <1> DEFINE T == {n - i : i \in s}
  <1>0. T \in SUBSET Nat /\ T # {}
    <2>1. \A i \in s : n - i \in Nat
      OBVIOUS
    <2>2. PICK i \in s : TRUE
      OBVIOUS
    <2>3. n - i \in T
      OBVIOUS
    <2> QED
      BY <2>1, <2>3
  <1> HIDE DEF T
  <1>1. PICK i \in T : \A j \in T : i <= j
    BY <1>0, Least
  <1>3. PICK m \in s : i = n - m
    BY DEF T
  <1>4. \A x \in s : n - x \in T
    BY DEF T
  <1>5. \A x \in s : m >= x
    BY <1>1, <1>3, <1>4
  <1> QED
    BY <1>5, MaxOf

\* The values in A that a fold over n positions goes through: base, and then a step
\* for each position, as a function of the subsets and of the lengths.
Folding(A, base, n, step) == base \in A /\ n \in Nat /\ step \in [A \X (1 .. n) -> A]

Iterates(h, A, base, n, step) ==
    /\ h \in [SUBSET (1 .. n) -> A]
    /\ \A s \in SUBSET (1 .. n) :
          /\ s = {} => h[s] = base
          /\ s # {} => h[s] = step[<<h[s \ {Max(s)}], Max(s)>>]

GoesThrough(F, A, base, n, step) ==
    /\ F \in [0 .. n -> A] /\ F[0] = base
    /\ \A k \in 0 .. n - 1 : F[k + 1] = step[<<F[k], k + 1>>]

\* The same, of a function that is only known to be right where it has been in A.
Iterated(it, A, base, n, step) ==
    /\ it[{}] = base
    /\ \A k \in 0 .. n - 1 : it[1 .. k] \in A => it[1 .. k + 1] = step[<<it[1 .. k], k + 1>>]

ComesTo(F, it, n) == F[n] = it[1 .. n]

\* What a fold iterates is a function of the subsets of the positions.
LEMMA IterExists ==
  ASSUME NEW A, NEW base, NEW n, NEW step, Folding(A, base, n, step)
  PROVE  \E h : Iterates(h, A, base, n, step)
  <1> USE DEF Folding
  <1> DEFINE Step(v, i) == step[<<v, i>>]
             Rec(h, m) ==
                \A s \in SUBSET (1 .. m) :
                   /\ s = {} => h[s] = base
                   /\ s # {} => h[s] = Step(h[s \ {Max(s)}], Max(s))
             S == {m \in 0 .. n : \E h \in [SUBSET (1 .. m) -> A] : Rec(h, m)}
  <1>0. \A v \in A, i \in 1 .. n : Step(v, i) \in A
    OBVIOUS
  <1> HIDE DEF Step
  <1>1. 0 \in S
    <2> DEFINE g == [s \in SUBSET (1 .. 0) |-> base]
    <2>1. g \in [SUBSET (1 .. 0) -> A] /\ \A s \in SUBSET (1 .. 0) : s = {} /\ g[s] = base
      OBVIOUS
    <2>2. Rec(g, 0)
      BY <2>1
    <2> HIDE DEF g, Rec
    <2> QED
      BY <2>1, <2>2
  <1>2. ASSUME NEW m \in 0 .. n - 1, m \in S
        PROVE  m + 1 \in S
    <2>1. PICK h \in [SUBSET (1 .. m) -> A] : Rec(h, m)
      BY <1>2
    <2> DEFINE g == [s \in SUBSET (1 .. m + 1) |->
                       IF m + 1 \in s THEN Step(h[s \ {m + 1}], m + 1) ELSE h[s]]
    <2>3. ASSUME NEW s \in SUBSET (1 .. m + 1), m + 1 \notin s
          PROVE  s \in SUBSET (1 .. m) /\ g[s] = h[s] /\ h[s] \in A
      BY <2>3
    <2>4. ASSUME NEW s \in SUBSET (1 .. m + 1), m + 1 \in s
          PROVE  g[s] = Step(h[s \ {m + 1}], m + 1) /\ s \ {m + 1} \in SUBSET (1 .. m + 1)
      BY <2>4
    <2>5. g = [s \in SUBSET (1 .. m + 1) |-> g[s]]
      OBVIOUS
    <2> HIDE DEF g
    <2>2. ASSUME NEW s \in SUBSET (1 .. m + 1)
          PROVE  /\ g[s] \in A
                 /\ s = {} => g[s] = base
                 /\ s # {} => g[s] = Step(g[s \ {Max(s)}], Max(s))
      <3>1. CASE m + 1 \in s
        <4>1. Max(s) = m + 1 /\ s # {}
          BY <3>1, MaxTop
        <4>2. m + 1 \notin s \ {m + 1} /\ m + 1 \in 1 .. n
          OBVIOUS
        <4>3. h[s \ {m + 1}] \in A /\ g[s \ {m + 1}] = h[s \ {m + 1}]
          BY <2>3, <2>4, <3>1, <4>2
        <4>4. g[s] = Step(h[s \ {m + 1}], m + 1)
          BY <2>4, <3>1
        <4>5. g[s] \in A
          BY <1>0, <4>2, <4>3, <4>4
        <4>6. g[s] = Step(g[s \ {Max(s)}], Max(s))
          BY <4>1, <4>3, <4>4, Zenon
        <4> QED
          BY <4>1, <4>5, <4>6
      <3>2. CASE m + 1 \notin s
        <4>1. s \in SUBSET (1 .. m) /\ g[s] = h[s] /\ h[s] \in A
          BY <2>3, <3>2
        <4>2. s = {} => h[s] = base
          BY <2>1, <4>1
        <4>3. ASSUME s # {} PROVE g[s] = Step(g[s \ {Max(s)}], Max(s))
          <5>1. s \ {Max(s)} \in SUBSET (1 .. m + 1) /\ m + 1 \notin s \ {Max(s)}
            BY <3>2
          <5>2. g[s \ {Max(s)}] = h[s \ {Max(s)}]
            BY <2>3, <5>1
          <5>3. h[s] = Step(h[s \ {Max(s)}], Max(s))
            BY <2>1, <4>1, <4>3
          <5> QED
            BY <4>1, <5>2, <5>3
        <4> QED
          BY <4>1, <4>2, <4>3
      <3> QED
        BY <3>1, <3>2
    <2>6. g \in [SUBSET (1 .. m + 1) -> A]
      BY <2>2, <2>5
    <2>7. Rec(g, m + 1)
      BY <2>2
    <2> HIDE DEF Rec
    <2> QED
      BY <2>6, <2>7
  <1>3. n \in S
    <2> HIDE DEF S
    <2>1. 0 .. n \subseteq S
      BY <1>1, <1>2, InductUpTo
    <2> QED
      BY <2>1
  <1>4. PICK h \in [SUBSET (1 .. n) -> A] : Rec(h, n)
    <2> HIDE DEF Rec
    <2> QED
      BY <1>3
  <1> QED
    BY <1>4 DEF Step, Iterates

\* One step of a fold takes the last position off.
LEMMA TakeTop ==
  ASSUME NEW k \in Nat
  PROVE  1 .. k + 1 # {} /\ Max(1 .. k + 1) = k + 1 /\ (1 .. k + 1) \ {k + 1} = 1 .. k
  <1>1. 1 .. k + 1 \in SUBSET (1 .. k + 1) /\ k + 1 \in 1 .. k + 1
    OBVIOUS
  <1>2. Max(1 .. k + 1) = k + 1
    BY <1>1, MaxTop
  <1>3. (1 .. k + 1) \ {k + 1} = 1 .. k
    OBVIOUS
  <1>4. 1 .. k + 1 # {}
    BY <1>1
  <1> QED
    BY <1>2, <1>3, <1>4

\* A fold goes through the prefixes of its sequence.
LEMMA FoldPrefixes ==
  ASSUME NEW A, NEW base, NEW n, NEW step, Folding(A, base, n, step),
         NEW it, Iterated(it, A, base, n, step)
  PROVE  \E F : GoesThrough(F, A, base, n, step) /\ ComesTo(F, it, n)
  <1> USE DEF Folding, Iterated, ComesTo
  <1> DEFINE F == [k \in 0 .. n |-> it[1 .. k]]
             S == {k \in 0 .. n : it[1 .. k] \in A}
  <1>1. 0 \in S
    <2>1. 1 .. 0 = {}
      OBVIOUS
    <2> QED
      BY <2>1
  <1>2. ASSUME NEW k \in 0 .. n - 1, k \in S PROVE k + 1 \in S
    <2>1. k + 1 \in 1 .. n /\ it[1 .. k] \in A
      BY <1>2
    <2>2. step[<<it[1 .. k], k + 1>>] \in A
      BY <2>1
    <2> QED
      BY <2>1, <2>2
  <1>3. 0 .. n \subseteq S
    <2> HIDE DEF S
    <2> QED
      BY <1>1, <1>2, InductUpTo
  <1>4. \A k \in 0 .. n : F[k] = it[1 .. k] /\ it[1 .. k] \in A
    BY <1>3
  <1>5. F[0] = base
    <2>1. 1 .. 0 = {}
      OBVIOUS
    <2> QED
      BY <2>1
  <1>6. F \in [0 .. n -> A]
    BY <1>4
  <1>7. ASSUME NEW k \in 0 .. n - 1 PROVE F[k + 1] = step[<<F[k], k + 1>>]
    <2>1. k \in 0 .. n /\ k + 1 \in 0 .. n
      OBVIOUS
    <2> QED
      BY <1>4, <2>1
  <1> HIDE DEF F
  <1> QED
    BY <1>4, <1>5, <1>6, <1>7 DEF GoesThrough

-----------------------------------------------------------------------------
(* The lists.                                                               *)

WellFormed(m) ==
    /\ m.kind = "text" => m = Text(m.role)
    /\ m.kind = "image" => m = Picture
    /\ m.kind = "calls" => m = Calls(m.batch) /\ m.batch # 0
    /\ m.kind = "answers" => m = Answers(m.batch, m.note) /\ m.batch # 0

\* Answers follow their own call, or an assistant's message whose call is gone;
\* where no approval is waited for, calls are answered at once, and the assistant
\* goes on after the answers.
Neighbours(m, next) ==
    /\ next.kind = "answers" => m.role = "assistant" /\ (m.kind = "calls" => m.batch = next.batch)
    /\ m.kind = "calls" /\ ~Approvals => next.kind = "answers"
    /\ m.kind = "answers" /\ ~Approvals => next.role = "assistant"

Good(list) ==
    /\ \A k \in DOMAIN list : WellFormed(list[k])
    /\ \A k \in 1 .. Len(list) - 1 : Neighbours(list[k], list[k + 1])

UserFirst(list) == list[1].role = "user" /\ list[1].kind \in {"text", "image"}

\* The last message is the user's, and if it has answers, to the calls before it.
Answerable(list) ==
    LET n == Len(list) IN
    /\ list[n].role = "user"
    /\ list[n].kind = "answers" => n > 1 /\ list[n - 1] = Calls(list[n].batch)

SavedOK == Good(saved) /\ (saved # <<>> /\ ~cut => UserFirst(saved)) /\ SessionIsCapped

TurnOK ==
    /\ Good(messages)
    /\ stage # "idle" => /\ messages # <<>> /\ turnNo >= 1 /\ iteration < MaxIterations
                         /\ ~cut => UserFirst(messages)
    /\ stage = "tools" => Last(messages).kind = "calls"
    /\ stage = "loop" => /\ Last(messages).kind # "calls"
                         /\ Answerable(messages) \/ (late /\ iteration = 0)

TranscriptInv == TranscriptTypeOK /\ SavedOK /\ TurnOK

\* What the shapes of a message are.
LEMMA Shapes ==
  /\ \A r \in {"user", "assistant"} :
        /\ Text(r) \in Message /\ WellFormed(Text(r))
        /\ Text(r).kind = "text" /\ Text(r).role = r /\ Text(r).batch = 0 /\ Text(r).note = FALSE
  /\ Picture \in Message /\ WellFormed(Picture)
  /\ Picture.kind = "image" /\ Picture.role = "user" /\ Picture.batch = 0 /\ Picture.note = FALSE
  /\ \A n : /\ Calls(n).kind = "calls" /\ Calls(n).role = "assistant"
            /\ Calls(n).batch = n /\ Calls(n).note = FALSE
  /\ \A n, b : /\ Answers(n, b).kind = "answers" /\ Answers(n, b).role = "user"
               /\ Answers(n, b).batch = n /\ Answers(n, b).note = b
  <1>1. MaxTurns * MaxIterations \in Nat
    BY TranscriptAssumption
  <1> QED
    BY <1>1 DEF Message, Text, Picture, Calls, Answers, WellFormed

\* Calls and their answers are messages, and well formed if they have a number.
LEMMA BatchShapes ==
  ASSUME NEW n \in 1 .. MaxTurns * MaxIterations, NEW b \in BOOLEAN
  PROVE  /\ Calls(n) \in Message /\ WellFormed(Calls(n))
         /\ Answers(n, b) \in Message /\ WellFormed(Answers(n, b))
  <1>1. MaxTurns * MaxIterations \in Nat /\ n \in 0 .. MaxTurns * MaxIterations /\ n # 0
    BY TranscriptAssumption
  <1> QED
    BY <1>1 DEF Message, Calls, Answers, WellFormed

\* What a message's role and kind are by its kind and role.
LEMMA Kinds ==
  ASSUME NEW m \in Message, WellFormed(m)
  PROVE  /\ m.kind \in {"text", "image", "calls", "answers"} /\ m.role \in {"user", "assistant"}
         /\ m.kind \in {"answers", "image"} => m.role = "user"
         /\ m.kind = "calls" => m.role = "assistant" /\ m.batch \in Nat \ {0}
         /\ m.kind \in {"text", "image"} => m.batch = 0
         /\ m.kind = "answers" => m.batch \in Nat \ {0} /\ m.note \in BOOLEAN
         /\ m.note => m.kind = "answers"
         /\ m.note \in BOOLEAN
  <1>1. MaxTurns * MaxIterations \in Nat
    BY TranscriptAssumption
  <1> QED
    BY <1>1 DEF Message, Text, Picture, Calls, Answers, WellFormed

\* Appending, at the end of a list.
LEMMA AppendIs ==
  ASSUME NEW M, NEW list \in Seq(M), NEW m \in M
  PROVE  /\ Append(list, m) \in Seq(M) /\ Len(Append(list, m)) = Len(list) + 1
         /\ Len(list) \in Nat /\ DOMAIN list = 1 .. Len(list) /\ Append(list, m) # <<>>
         /\ DOMAIN Append(list, m) = 1 .. Len(list) + 1
         /\ \A k \in 1 .. Len(list) : Append(list, m)[k] = list[k]
         /\ Append(list, m)[Len(list) + 1] = m
         /\ Last(Append(list, m)) = m
  <1>1. Append(list, m) \in Seq(M) /\ Len(Append(list, m)) = Len(list) + 1 /\ Append(list, m) # <<>>
    BY AppendProperties
  <1>2. /\ \A k \in 1 .. Len(list) : Append(list, m)[k] = list[k]
        /\ Append(list, m)[Len(list) + 1] = m
    BY AppendProperties
  <1>3. Len(list) \in Nat /\ DOMAIN list = 1 .. Len(list)
    BY LenProperties
  <1>4. DOMAIN Append(list, m) = 1 .. Len(list) + 1
    BY <1>1, LenProperties
  <1> QED
    BY <1>1, <1>2, <1>3, <1>4 DEF Last

\* Taking the last message off.
LEMMA FrontIs ==
  ASSUME NEW M, NEW list \in Seq(M), list # <<>>
  PROVE  /\ Front(list) \in Seq(M) /\ Len(Front(list)) = Len(list) - 1
         /\ Len(list) \in Nat \ {0}
         /\ \A k \in 1 .. Len(list) - 1 : Front(list)[k] = list[k]
  <1>1. Len(list) \in Nat \ {0} /\ \A k \in 1 .. Len(list) : list[k] \in M
    BY LenProperties, EmptySeq
  <1>2. \A k \in 1 .. Len(list) - 1 : list[k] \in M
    BY <1>1
  <1> DEFINE n == Len(list)
             front == SubSeq(list, 1, n - 1)
  <1>3. n \in Nat \ {0} /\ 1 \in Int /\ n - 1 \in Int
    BY <1>1
  <1>4. /\ front \in Seq(M)
        /\ Len(front) = IF 1 <= n - 1 THEN (n - 1) - 1 + 1 ELSE 0
        /\ \A i \in 1 .. (n - 1) - 1 + 1 : front[i] = list[1 + i - 1]
    BY <1>2, <1>3, SubSeqProperties
  <1>5. Front(list) = front /\ n = Len(list)
    BY DEF Front
  <1> HIDE DEF front, n
  <1>6. Len(front) = n - 1
    BY <1>3, <1>4
  <1>7. ASSUME NEW k \in 1 .. n - 1 PROVE front[k] = list[k]
    <2>1. (n - 1) - 1 + 1 = n - 1 /\ 1 + k - 1 = k
      BY <1>3
    <2> QED
      BY <1>4, <2>1
  <1> QED
    BY <1>3, <1>4, <1>5, <1>6, <1>7

\* A list is good as long as what is appended suits its last message.
LEMMA GoodAppend ==
  ASSUME NEW list \in Seq(Message), Good(list), NEW m \in Message, WellFormed(m),
         list # <<>> => Neighbours(Last(list), m)
  PROVE  Good(Append(list, m)) /\ Append(list, m) \in Seq(Message)
  <1> DEFINE n == Len(list)
             new == Append(list, m)
  <1>1. /\ n \in Nat /\ DOMAIN list = 1 .. n /\ DOMAIN new = 1 .. n + 1 /\ Len(new) = n + 1
        /\ \A k \in 1 .. n : new[k] = list[k]
        /\ new[n + 1] = m /\ new \in Seq(Message)
    BY AppendIs
  <1>2. n # 0 => list # <<>> /\ Last(list) = list[n]
    BY EmptySeq DEF Last
  <1> HIDE DEF n, new
  <1>3. \A k \in 1 .. n + 1 : WellFormed(new[k])
    <2>1. \A k \in 1 .. n + 1 : k \in 1 .. n \/ k = n + 1
      BY <1>1
    <2> QED
      BY <1>1, <2>1 DEF Good
  <1>4. ASSUME NEW k \in 1 .. n PROVE Neighbours(new[k], new[k + 1])
    <2>1. CASE k = n
      BY <1>1, <1>2, <2>1
    <2>2. CASE k # n
      <3>1. k \in 1 .. n - 1 /\ k + 1 \in 1 .. n
        BY <1>1, <2>2
      <3>2. Neighbours(list[k], list[k + 1])
        BY <3>1 DEF Good, n
      <3> QED
        BY <1>1, <3>1, <3>2
    <2> QED
      BY <2>1, <2>2
  <1> QED
    BY <1>1, <1>3, <1>4 DEF Good, new

\* What is left of a good list, at either end, is good.
LEMMA GoodPart ==
  ASSUME NEW list \in Seq(Message), Good(list), NEW part \in Seq(Message), NEW d \in Nat,
         Len(part) + d <= Len(list), \A k \in 1 .. Len(part) : part[k] = list[k + d]
  PROVE  Good(part)
  <1>1. /\ Len(list) \in Nat /\ DOMAIN list = 1 .. Len(list)
        /\ Len(part) \in Nat /\ DOMAIN part = 1 .. Len(part)
    BY LenProperties
  <1>2. ASSUME NEW k \in 1 .. Len(part) PROVE WellFormed(part[k])
    <2>1. k + d \in DOMAIN list
      BY <1>1
    <2> QED
      BY <2>1 DEF Good
  <1>3. ASSUME NEW k \in 1 .. Len(part) - 1 PROVE Neighbours(part[k], part[k + 1])
    <2>1. k + d \in 1 .. Len(list) - 1 /\ k \in 1 .. Len(part) /\ k + 1 \in 1 .. Len(part)
          /\ (k + 1) + d = (k + d) + 1
      BY <1>1
    <2>2. part[k] = list[k + d] /\ part[k + 1] = list[(k + d) + 1]
      BY <2>1
    <2> QED
      BY <2>1, <2>2 DEF Good
  <1> QED
    BY <1>1, <1>2, <1>3 DEF Good

\* A good list without its last message is good.
LEMMA GoodFront ==
  ASSUME NEW list \in Seq(Message), Good(list), list # <<>>
  PROVE  Good(Front(list)) /\ Front(list) \in Seq(Message)
  <1>1. /\ Front(list) \in Seq(Message) /\ Len(Front(list)) = Len(list) - 1
        /\ Len(list) \in Nat \ {0}
        /\ \A k \in 1 .. Len(list) - 1 : Front(list)[k] = list[k]
    BY FrontIs
  <1> DEFINE part == Front(list)
  <1>2. part \in Seq(Message) /\ Len(part) + 0 <= Len(list) /\ 0 \in Nat
    BY <1>1
  <1>3. \A k \in 1 .. Len(part) : part[k] = list[k + 0]
    BY <1>1
  <1> HIDE DEF part
  <1>4. Good(part)
    BY ONLY <1>2, <1>3, Good(list), list \in Seq(Message), GoodPart
  <1> QED
    BY <1>1, <1>4 DEF part

-----------------------------------------------------------------------------
(* What the three folds of the model go through, message by message.        *)

Acc == [list : Seq(Message), pending : Nat]
Acc0 == [list |-> <<>>, pending |-> 0]

\* What a translated list is made of.
Sent == Message \cup {ToolMessage(n) : n \in Nat}
SentAcc == [list : Seq(Sent), pending : Nat]

Summary == <<Text("user"), Text("assistant")>>

\* The parts of a message.
LEMMA MessageParts ==
  ASSUME NEW m \in Message
  PROVE  /\ m.batch \in Nat /\ m.note \in BOOLEAN /\ m.role \in {"user", "assistant"}
         /\ m.kind \in {"text", "image", "calls", "answers"}
         /\ [m EXCEPT !.batch = 0] \in Message
  <1>1. MaxTurns * MaxIterations \in Nat
    BY TranscriptAssumption
  <1> QED
    BY <1>1 DEF Message

\* The cases of sanitize_messages.
LEMMA SanitizeStepIs ==
  ASSUME NEW acc, NEW m \in Message
  PROVE  /\ m.kind = "calls" =>
                SanitizeStep(acc, m) = [list |-> Append(acc.list, m), pending |-> m.batch]
         /\ m.kind = "answers" /\ m.batch = acc.pending =>
                SanitizeStep(acc, m) = [list |-> Append(acc.list, m), pending |-> 0]
         /\ m.kind = "answers" /\ m.batch # acc.pending =>
                SanitizeStep(acc, m) =
                   [acc EXCEPT !.list = IF m.note THEN Append(@, [m EXCEPT !.batch = 0]) ELSE @]
         /\ m.kind \notin {"calls", "answers"} =>
                SanitizeStep(acc, m) = [list |-> Append(acc.list, m), pending |-> 0]
  BY DEF SanitizeStep

\* A step of it makes a list of messages of one.
LEMMA SanitizeStepTyped ==
  ASSUME NEW acc \in Acc, NEW m \in Message
  PROVE  SanitizeStep(acc, m) \in Acc
  <1>1. acc.list \in Seq(Message) /\ acc.pending \in Nat
    BY DEF Acc
  <1>2. \A x \in Message : Append(acc.list, x) \in Seq(Message)
    BY <1>1, AppendProperties
  <1>3. m.batch \in Nat /\ [m EXCEPT !.batch = 0] \in Message /\ m.note \in BOOLEAN
    BY MessageParts
  <1> DEFINE kept == IF m.note THEN Append(acc.list, [m EXCEPT !.batch = 0]) ELSE acc.list
  <1>4. kept \in Seq(Message)
    BY <1>1, <1>2, <1>3
  <1>5. [acc EXCEPT !.list = kept] \in Acc
    BY <1>4 DEF Acc
  <1>6. \A x \in Message, b \in Nat : [list |-> Append(acc.list, x), pending |-> b] \in Acc
    BY <1>2 DEF Acc
  <1> QED
    BY <1>3, <1>5, <1>6, SanitizeStepIs

\* sanitize_messages, message by message.
LEMMA SanitizeFolds ==
  ASSUME NEW list \in Seq(Message)
  PROVE  \E F : /\ F \in [0 .. Len(list) -> Acc] /\ F[0] = Acc0
                /\ F[Len(list)] = FoldLeft(SanitizeStep, Acc0, list)
                /\ \A k \in 0 .. Len(list) - 1 : F[k + 1] = SanitizeStep(F[k], list[k + 1])
  <1> DEFINE n == Len(list)
             step == [p \in Acc \X (1 .. n) |-> SanitizeStep(p[1], list[p[2]])]
             Rec(h) == h = [s \in SUBSET (1 .. n) |->
                              IF s = {} THEN Acc0 ELSE SanitizeStep(h[s \ {Max(s)}], list[Max(s)])]
             it == CHOOSE h : Rec(h)
  <1>1. n \in Nat /\ DOMAIN list = 1 .. n /\ \A i \in 1 .. n : list[i] \in Message
    BY LenProperties
  <1>2. FoldLeft(SanitizeStep, Acc0, list) = it[1 .. n]
    BY <1>1 DEF FoldLeft, MapThenFoldSet
  <1> HIDE DEF n
  <1>3. Acc0 \in Acc
    BY DEF Acc, Acc0
  <1>4. \A v \in Acc, i \in 1 .. n :
           step[<<v, i>>] = SanitizeStep(v, list[i]) /\ SanitizeStep(v, list[i]) \in Acc
    BY <1>1, SanitizeStepTyped
  <1>5. step \in [Acc \X (1 .. n) -> Acc]
    BY <1>4
  <1> HIDE DEF step
  <1>6. Folding(Acc, Acc0, n, step)
    BY <1>1, <1>3, <1>5 DEF Folding
  <1>61. PICK h : Iterates(h, Acc, Acc0, n, step)
    BY ONLY <1>6, IterExists
  <1>7. Rec(h)
    <2>0. h \in [SUBSET (1 .. n) -> Acc]
      BY <1>61 DEF Iterates
    <2>1. ASSUME NEW s \in SUBSET (1 .. n), s # {}
          PROVE  step[<<h[s \ {Max(s)}], Max(s)>>] = SanitizeStep(h[s \ {Max(s)}], list[Max(s)])
      <3>1. Max(s) \in 1 .. n /\ s \ {Max(s)} \in SUBSET (1 .. n)
        BY <1>1, <2>1, MaxIn
      <3>2. h[s \ {Max(s)}] \in Acc
        BY <2>0, <3>1
      <3> QED
        BY <1>4, <3>1, <3>2
    <2>2. \A s \in SUBSET (1 .. n) :
             h[s] = IF s = {} THEN Acc0 ELSE SanitizeStep(h[s \ {Max(s)}], list[Max(s)])
      BY <1>61, <2>1 DEF Iterates
    <2> QED
      BY <2>0, <2>2
  <1>8. Rec(it)
    BY <1>7
  <1> HIDE DEF it
  <1>9. it[{}] = Acc0
    BY <1>8
  <1>10. ASSUME NEW k \in 0 .. n - 1, it[1 .. k] \in Acc
         PROVE  it[1 .. k + 1] = SanitizeStep(it[1 .. k], list[k + 1])
    <2>1. 1 .. k + 1 \in SUBSET (1 .. n)
      BY <1>1
    <2>2. 1 .. k + 1 # {} /\ Max(1 .. k + 1) = k + 1 /\ (1 .. k + 1) \ {k + 1} = 1 .. k
      <3>1. k \in Nat
        BY <1>1
      <3> QED
        BY ONLY <3>1, TakeTop
    <2>3. it[1 .. k + 1] = SanitizeStep(it[(1 .. k + 1) \ {Max(1 .. k + 1)}], list[Max(1 .. k + 1)])
      BY <1>8, <2>1, <2>2
    <2> QED
      BY <2>2, <2>3
  <1>11. \A k \in 0 .. n - 1 : it[1 .. k] \in Acc => it[1 .. k + 1] = step[<<it[1 .. k], k + 1>>]
    BY <1>1, <1>4, <1>10
  <1>14. Iterated(it, Acc, Acc0, n, step)
    BY <1>9, <1>11 DEF Iterated
  <1>12. PICK F : GoesThrough(F, Acc, Acc0, n, step) /\ ComesTo(F, it, n)
    BY ONLY <1>6, <1>14, FoldPrefixes
  <1>13. \A k \in 0 .. n - 1 : F[k + 1] = SanitizeStep(F[k], list[k + 1])
    <2>1. ASSUME NEW k \in 0 .. n - 1 PROVE F[k] \in Acc /\ k + 1 \in 1 .. n
      BY <1>1, <1>12 DEF GoesThrough
    <2> QED
      BY <1>4, <1>12, <2>1 DEF GoesThrough
  <1> QED
    BY <1>2, <1>12, <1>13 DEF n, GoesThrough, ComesTo

\* A step of compact_messages makes a list of messages of one.
LEMMA JoinTyped ==
  ASSUME NEW list \in Seq(Message), NEW m \in Message
  PROVE  Join(list, m) \in Seq(Message)
  <1>1. Text(m.role) \in Message
    BY MessageParts, Shapes
  <1>2. Append(list, m) \in Seq(Message)
    BY AppendProperties
  <1>3. list # <<>> => Append(Front(list), Text(m.role)) \in Seq(Message)
    BY <1>1, FrontIs, AppendProperties
  <1> QED
    BY <1>2, <1>3 DEF Join

\* compact_messages, message by message.
LEMMA JoinFolds ==
  ASSUME NEW list \in Seq(Message)
  PROVE  \E F : /\ F \in [0 .. Len(list) -> Seq(Message)] /\ F[0] = Summary
                /\ F[Len(list)] = FoldLeft(Join, Summary, list)
                /\ \A k \in 0 .. Len(list) - 1 : F[k + 1] = Join(F[k], list[k + 1])
  <1> DEFINE n == Len(list)
             step == [p \in Seq(Message) \X (1 .. n) |-> Join(p[1], list[p[2]])]
             Rec(h) == h = [s \in SUBSET (1 .. n) |->
                              IF s = {} THEN Summary ELSE Join(h[s \ {Max(s)}], list[Max(s)])]
             it == CHOOSE h : Rec(h)
  <1>1. n \in Nat /\ DOMAIN list = 1 .. n /\ \A i \in 1 .. n : list[i] \in Message
    BY LenProperties
  <1>2. FoldLeft(Join, Summary, list) = it[1 .. n]
    BY <1>1 DEF FoldLeft, MapThenFoldSet
  <1> HIDE DEF n
  <1>3. Summary \in Seq(Message)
    BY Shapes DEF Summary
  <1>4. \A v \in Seq(Message), i \in 1 .. n :
           step[<<v, i>>] = Join(v, list[i]) /\ Join(v, list[i]) \in Seq(Message)
    BY <1>1, JoinTyped
  <1>5. step \in [Seq(Message) \X (1 .. n) -> Seq(Message)]
    BY <1>4
  <1> HIDE DEF step
  <1>6. Folding(Seq(Message), Summary, n, step)
    BY <1>1, <1>3, <1>5 DEF Folding
  <1>61. PICK h : Iterates(h, Seq(Message), Summary, n, step)
    BY ONLY <1>6, IterExists
  <1>7. Rec(h)
    <2>0. h \in [SUBSET (1 .. n) -> Seq(Message)]
      BY <1>61 DEF Iterates
    <2>1. ASSUME NEW s \in SUBSET (1 .. n), s # {}
          PROVE  step[<<h[s \ {Max(s)}], Max(s)>>] = Join(h[s \ {Max(s)}], list[Max(s)])
      <3>1. Max(s) \in 1 .. n /\ s \ {Max(s)} \in SUBSET (1 .. n)
        BY <1>1, <2>1, MaxIn
      <3>2. h[s \ {Max(s)}] \in Seq(Message)
        BY <2>0, <3>1
      <3> QED
        BY <1>4, <3>1, <3>2
    <2>2. \A s \in SUBSET (1 .. n) :
             h[s] = IF s = {} THEN Summary ELSE Join(h[s \ {Max(s)}], list[Max(s)])
      BY <1>61, <2>1 DEF Iterates
    <2> QED
      BY <2>0, <2>2
  <1>8. Rec(it)
    BY <1>7
  <1> HIDE DEF it
  <1>9. it[{}] = Summary
    BY <1>8
  <1>10. ASSUME NEW k \in 0 .. n - 1, it[1 .. k] \in Seq(Message)
         PROVE  it[1 .. k + 1] = Join(it[1 .. k], list[k + 1])
    <2>1. 1 .. k + 1 \in SUBSET (1 .. n)
      BY <1>1
    <2>2. 1 .. k + 1 # {} /\ Max(1 .. k + 1) = k + 1 /\ (1 .. k + 1) \ {k + 1} = 1 .. k
      <3>1. k \in Nat
        BY <1>1
      <3> QED
        BY ONLY <3>1, TakeTop
    <2>3. it[1 .. k + 1] = Join(it[(1 .. k + 1) \ {Max(1 .. k + 1)}], list[Max(1 .. k + 1)])
      BY <1>8, <2>1, <2>2
    <2> QED
      BY <2>2, <2>3
  <1>11. \A k \in 0 .. n - 1 :
            it[1 .. k] \in Seq(Message) => it[1 .. k + 1] = step[<<it[1 .. k], k + 1>>]
    BY <1>1, <1>4, <1>10
  <1>14. Iterated(it, Seq(Message), Summary, n, step)
    BY <1>9, <1>11 DEF Iterated
  <1>12. PICK F : GoesThrough(F, Seq(Message), Summary, n, step) /\ ComesTo(F, it, n)
    BY ONLY <1>6, <1>14, FoldPrefixes
  <1>13. \A k \in 0 .. n - 1 : F[k + 1] = Join(F[k], list[k + 1])
    <2>1. ASSUME NEW k \in 0 .. n - 1 PROVE F[k] \in Seq(Message) /\ k + 1 \in 1 .. n
      BY <1>1, <1>12 DEF GoesThrough
    <2> QED
      BY <1>4, <1>12, <2>1 DEF GoesThrough
  <1> QED
    BY <1>2, <1>12, <1>13 DEF n, GoesThrough, ComesTo

\* The cases of translate_messages_to_oai.
LEMMA TranslateStepIs ==
  ASSUME NEW acc, NEW m \in Message
  PROVE  /\ m.kind # "answers" =>
                TranslateStep(acc, m) = [list |-> Append(acc.list, m), pending |-> m.batch]
         /\ m.kind = "answers" =>
                LET tool == IF m.batch = acc.pending /\ m.batch # 0
                            THEN <<ToolMessage(m.batch)>> ELSE <<>>
                    text == IF m.note THEN <<Text("user")>> ELSE <<>>
                IN  TranslateStep(acc, m) = [list |-> acc.list \o tool \o text, pending |-> 0]
  BY DEF TranslateStep

\* A step of it makes a list of what may be sent of one.
LEMMA TranslateStepTyped ==
  ASSUME NEW acc \in SentAcc, NEW m \in Message
  PROVE  TranslateStep(acc, m) \in SentAcc
  <1>1. acc.list \in Seq(Sent) /\ acc.pending \in Nat
    BY DEF SentAcc
  <1>2. m \in Sent /\ m.batch \in Nat /\ ToolMessage(m.batch) \in Sent /\ Text("user") \in Sent
    BY MessageParts, Shapes DEF Sent
  <1>3. Append(acc.list, m) \in Seq(Sent)
    BY <1>1, <1>2, AppendProperties
  <1> DEFINE tool == IF m.batch = acc.pending /\ m.batch # 0 THEN <<ToolMessage(m.batch)>> ELSE <<>>
             text == IF m.note THEN <<Text("user")>> ELSE <<>>
  <1>4. tool \in Seq(Sent) /\ text \in Seq(Sent)
    BY <1>2
  <1> HIDE DEF tool, text
  <1>5. acc.list \o tool \in Seq(Sent)
    BY <1>1, <1>4, ConcatProperties
  <1>6. (acc.list \o tool) \o text \in Seq(Sent)
    BY <1>4, <1>5, ConcatProperties
  <1> QED
    BY <1>2, <1>3, <1>6 DEF TranslateStep, SentAcc, tool, text

\* translate_messages_to_oai, message by message.
LEMMA TranslateFolds ==
  ASSUME NEW list \in Seq(Message)
  PROVE  \E F : /\ F \in [0 .. Len(list) -> SentAcc] /\ F[0] = Acc0
                /\ F[Len(list)] = FoldLeft(TranslateStep, Acc0, list)
                /\ \A k \in 0 .. Len(list) - 1 : F[k + 1] = TranslateStep(F[k], list[k + 1])
  <1> DEFINE n == Len(list)
             step == [p \in SentAcc \X (1 .. n) |-> TranslateStep(p[1], list[p[2]])]
             Rec(h) == h = [s \in SUBSET (1 .. n) |->
                              IF s = {} THEN Acc0 ELSE TranslateStep(h[s \ {Max(s)}], list[Max(s)])]
             it == CHOOSE h : Rec(h)
  <1>1. n \in Nat /\ DOMAIN list = 1 .. n /\ \A i \in 1 .. n : list[i] \in Message
    BY LenProperties
  <1>2. FoldLeft(TranslateStep, Acc0, list) = it[1 .. n]
    BY <1>1 DEF FoldLeft, MapThenFoldSet
  <1> HIDE DEF n
  <1>3. Acc0 \in SentAcc
    BY DEF SentAcc, Acc0
  <1>4. \A v \in SentAcc, i \in 1 .. n :
           step[<<v, i>>] = TranslateStep(v, list[i]) /\ TranslateStep(v, list[i]) \in SentAcc
    BY <1>1, TranslateStepTyped
  <1>5. step \in [SentAcc \X (1 .. n) -> SentAcc]
    BY <1>4
  <1> HIDE DEF step
  <1>6. Folding(SentAcc, Acc0, n, step)
    BY <1>1, <1>3, <1>5 DEF Folding
  <1>61. PICK h : Iterates(h, SentAcc, Acc0, n, step)
    BY ONLY <1>6, IterExists
  <1>7. Rec(h)
    <2>0. h \in [SUBSET (1 .. n) -> SentAcc]
      BY <1>61 DEF Iterates
    <2>1. ASSUME NEW s \in SUBSET (1 .. n), s # {}
          PROVE  step[<<h[s \ {Max(s)}], Max(s)>>] = TranslateStep(h[s \ {Max(s)}], list[Max(s)])
      <3>1. Max(s) \in 1 .. n /\ s \ {Max(s)} \in SUBSET (1 .. n)
        BY <1>1, <2>1, MaxIn
      <3>2. h[s \ {Max(s)}] \in SentAcc
        BY <2>0, <3>1
      <3> QED
        BY <1>4, <3>1, <3>2
    <2>2. \A s \in SUBSET (1 .. n) :
             h[s] = IF s = {} THEN Acc0 ELSE TranslateStep(h[s \ {Max(s)}], list[Max(s)])
      BY <1>61, <2>1 DEF Iterates
    <2> QED
      BY <2>0, <2>2
  <1>8. Rec(it)
    BY <1>7
  <1> HIDE DEF it
  <1>9. it[{}] = Acc0
    BY <1>8
  <1>10. ASSUME NEW k \in 0 .. n - 1, it[1 .. k] \in SentAcc
         PROVE  it[1 .. k + 1] = TranslateStep(it[1 .. k], list[k + 1])
    <2>1. 1 .. k + 1 \in SUBSET (1 .. n)
      BY <1>1
    <2>2. 1 .. k + 1 # {} /\ Max(1 .. k + 1) = k + 1 /\ (1 .. k + 1) \ {k + 1} = 1 .. k
      <3>1. k \in Nat
        BY <1>1
      <3> QED
        BY ONLY <3>1, TakeTop
    <2>3. it[1 .. k + 1] =
             TranslateStep(it[(1 .. k + 1) \ {Max(1 .. k + 1)}], list[Max(1 .. k + 1)])
      BY <1>8, <2>1, <2>2
    <2> QED
      BY <2>2, <2>3
  <1>11. \A k \in 0 .. n - 1 :
            it[1 .. k] \in SentAcc => it[1 .. k + 1] = step[<<it[1 .. k], k + 1>>]
    BY <1>1, <1>4, <1>10
  <1>14. Iterated(it, SentAcc, Acc0, n, step)
    BY <1>9, <1>11 DEF Iterated
  <1>12. PICK F : GoesThrough(F, SentAcc, Acc0, n, step) /\ ComesTo(F, it, n)
    BY ONLY <1>6, <1>14, FoldPrefixes
  <1>13. \A k \in 0 .. n - 1 : F[k + 1] = TranslateStep(F[k], list[k + 1])
    <2>1. ASSUME NEW k \in 0 .. n - 1 PROVE F[k] \in SentAcc /\ k + 1 \in 1 .. n
      BY <1>1, <1>12 DEF GoesThrough
    <2> QED
      BY <1>4, <1>12, <2>1 DEF GoesThrough
  <1> QED
    BY <1>2, <1>12, <1>13 DEF n, GoesThrough, ComesTo

-----------------------------------------------------------------------------
(* Compaction.                                                              *)

\* The recent messages of a list that is longer than what is kept.
LEMMA RecentIs ==
  ASSUME NEW list \in Seq(Message), Good(list), Len(list) > KeepRecent
  PROVE  /\ Recent(list) \in Seq(Message) /\ Good(Recent(list))
         /\ Len(Recent(list)) = KeepRecent /\ KeepRecent \in Nat \ {0}
         /\ list # <<>> /\ Recent(list) # <<>>
         /\ Recent(list)[KeepRecent] = Last(list) /\ Last(Recent(list)) = Last(list)
  <1> DEFINE n == Len(list)
             d == n - KeepRecent
             part == SubSeq(list, d + 1, n)
  <1>1. n \in Nat /\ KeepRecent \in Nat \ {0} /\ d \in Nat /\ n = d + KeepRecent
    BY LenProperties, TranscriptAssumption
  <1>2. \A i \in 1 .. n : list[i] \in Message
    BY LenProperties
  <1>3. Recent(list) = part
    BY DEF Recent
  <1>4. \A i \in d + 1 .. n : list[i] \in Message
    BY <1>1, <1>2
  <1>5. d + 1 \in Int /\ n \in Int
    BY <1>1
  <1>6. list # <<>> /\ Last(list) = list[n]
    BY <1>1, EmptySeq DEF Last
  <1> HIDE DEF d
  <1>7. /\ part \in Seq(Message)
        /\ Len(part) = IF d + 1 <= n THEN n - (d + 1) + 1 ELSE 0
        /\ \A i \in 1 .. n - (d + 1) + 1 : part[i] = list[(d + 1) + i - 1]
    BY <1>4, <1>5, SubSeqProperties
  <1>71. n = Len(list)
    OBVIOUS
  <1> HIDE DEF n, part
  <1>8. Len(part) = KeepRecent
    BY <1>1, <1>7
  <1>9. ASSUME NEW i \in 1 .. Len(part) PROVE part[i] = list[i + d]
    <2>1. i \in 1 .. n - (d + 1) + 1 /\ (d + 1) + i - 1 = i + d
      BY <1>1, <1>8
    <2> QED
      BY <1>7, <2>1
  <1>10. Good(part)
    <2>1. Len(part) + d <= Len(list) /\ part \in Seq(Message) /\ d \in Nat
      BY <1>1, <1>7, <1>71, <1>8
    <2> QED
      BY ONLY <1>9, <2>1, list \in Seq(Message), Good(list), GoodPart
  <1>11. part[KeepRecent] = list[n] /\ part # <<>>
    <2>1. KeepRecent \in 1 .. Len(part) /\ KeepRecent + d = n
      BY <1>1, <1>8
    <2>2. part # <<>>
      BY <1>1, <1>8, EmptySeq
    <2> QED
      BY <1>9, <2>1, <2>2
  <1> QED
    BY <1>1, <1>3, <1>6, <1>7, <1>8, <1>10, <1>11 DEF Last

\* What the fold over recent messages has joined after k of them.  No answers are
\* ever joined into a text, so none loses its call.
Joined(acc, recent, k) ==
    /\ Len(acc) >= 2 /\ Good(acc) /\ acc[1] = Text("user")
    /\ \A i \in 1 .. Len(acc) - 1 : acc[i].role # acc[i + 1].role
    /\ k = 0 => Last(acc) = Text("assistant")
    /\ k > 0 => /\ Last(acc) \in {recent[k], Text(recent[k].role)}
                /\ recent[k].kind = "answers" => Last(acc) = recent[k]

\* Before the first message there is the summary and its answer.
LEMMA SummaryJoined ==
  ASSUME NEW recent
  PROVE  Joined(Summary, recent, 0) /\ Summary \in Seq(Message)
  <1>1. /\ Text("user") \in Message /\ Text("assistant") \in Message
        /\ WellFormed(Text("user")) /\ WellFormed(Text("assistant"))
        /\ Text("user").role = "user" /\ Text("assistant").role = "assistant"
        /\ Text("user").kind = "text" /\ Text("assistant").kind = "text"
    BY Shapes
  <1>2. Neighbours(Text("user"), Text("assistant"))
    BY <1>1 DEF Neighbours
  <1>3. /\ Summary \in Seq(Message) /\ Len(Summary) = 2 /\ DOMAIN Summary = 1 .. 2
        /\ Summary[1] = Text("user") /\ Summary[2] = Text("assistant")
    BY <1>1 DEF Summary
  <1>4. \A i \in 1 .. 2 - 1 : i = 1 /\ i + 1 = 2
    OBVIOUS
  <1>5. \A i \in 1 .. 2 : i = 1 \/ i = 2
    OBVIOUS
  <1>6. Good(Summary)
    BY <1>1, <1>2, <1>3, <1>4, <1>5 DEF Good
  <1>7. \A i \in 1 .. Len(Summary) - 1 : Summary[i].role # Summary[i + 1].role
    BY <1>1, <1>3, <1>4
  <1>8. Last(Summary) = Text("assistant")
    BY <1>3 DEF Last
  <1> QED
    BY <1>3, <1>6, <1>7, <1>8 DEF Joined

\* A message is joined with one of its role, or appended to one it suits.
LEMMA JoinStep ==
  ASSUME NEW recent \in Seq(Message), Good(recent), NEW k \in 0 .. Len(recent) - 1,
         NEW acc \in Seq(Message), Joined(acc, recent, k)
  PROVE  Joined(Join(acc, recent[k + 1]), recent, k + 1)
  <1> DEFINE m == recent[k + 1]
             n == Len(acc)
             last == Last(acc)
  <1>1. /\ Len(recent) \in Nat /\ DOMAIN recent = 1 .. Len(recent)
        /\ k + 1 \in 1 .. Len(recent) /\ k \in Nat
    BY LenProperties
  <1>2. m \in Message /\ WellFormed(m) /\ m.role \in {"user", "assistant"}
    <2>1. m \in Message /\ WellFormed(m)
      BY <1>1 DEF Good
    <2> QED
      BY <2>1, MessageParts
  <1>3. n \in Nat /\ n >= 2 /\ last = acc[n] /\ acc # <<>> /\ DOMAIN acc = 1 .. n
    BY LenProperties, EmptySeq DEF Joined, Last
  <1>4. last \in Message /\ WellFormed(last)
    <2>1. n \in 1 .. n
      BY <1>3
    <2> QED
      BY <1>3, <2>1 DEF Joined, Good
  <1>5. k > 0 => /\ Neighbours(recent[k], m) /\ last \in {recent[k], Text(recent[k].role)}
                 /\ recent[k].kind = "answers" => last = recent[k]
                 /\ recent[k] \in Message /\ last.role = recent[k].role
    <2>1. ASSUME k > 0 PROVE k \in 1 .. Len(recent) - 1 /\ k \in 1 .. Len(recent)
      BY <1>1, <2>1
    <2>2. ASSUME k > 0 PROVE recent[k] \in Message /\ Text(recent[k].role).role = recent[k].role
      <3>1. recent[k] \in Message
        BY <1>1, <2>1, <2>2
      <3>2. recent[k].role \in {"user", "assistant"}
        BY <3>1, MessageParts
      <3> QED
        BY <3>1, <3>2, Shapes
    <2> QED
      BY <2>1, <2>2 DEF Joined, Good
  <1>6. k = 0 => last = Text("assistant")
    BY DEF Joined
  <1>7. k = 0 \/ k > 0
    BY <1>1
  <1>8. Text("assistant").role = "assistant" /\ Text("assistant").kind = "text"
    BY Shapes
  <1>9. m.kind = "answers" => last.role = "assistant" /\ m.role = "user"
    BY <1>2, <1>5, <1>6, <1>7, <1>8, Kinds DEF Neighbours
  <1> HIDE DEF m, last
  <1>10. CASE last.role = m.role
    <2> DEFINE front == Front(acc)
               text == Text(m.role)
               new == Append(front, text)
    <2>1. m.kind # "answers"
      BY <1>9, <1>10
    <2>2. /\ front \in Seq(Message) /\ Len(front) = n - 1 /\ Good(front)
          /\ \A i \in 1 .. n - 1 : front[i] = acc[i]
      <3>1. Good(acc)
        BY DEF Joined
      <3> QED
        BY <1>3, <3>1, FrontIs, GoodFront
    <2>3. text \in Message /\ WellFormed(text) /\ text.role = m.role /\ text.kind = "text"
      BY <1>2, Shapes
    <2>4. Join(acc, m) = new
      BY <1>3, <1>10 DEF Join, last
    <2> HIDE DEF front, text
    <2>5. /\ n - 1 \in 1 .. n - 1 /\ (n - 1) + 1 = n /\ front # <<>> /\ Last(front) = acc[n - 1]
          /\ n - 1 \in 1 .. n
      BY <1>3, <2>2, EmptySeq DEF Last
    <2>6. acc[n - 1].role # last.role /\ Neighbours(acc[n - 1], last)
          /\ acc[n - 1] \in Message /\ WellFormed(acc[n - 1])
      BY <1>3, <2>5 DEF Joined, Good
    <2>7. ~Approvals => acc[n - 1].kind # "calls"
      <3>1. ASSUME ~Approvals, acc[n - 1].kind = "calls" PROVE FALSE
        <4>1. last.kind = "answers"
          BY <2>6, <3>1 DEF Neighbours
        <4>2. k > 0 /\ last = recent[k]
          <5>1. k # 0
            BY <1>6, <1>8, <4>1
          <5>2. Text(recent[k].role).kind = "text"
            BY <1>5, <1>7, <5>1, MessageParts, Shapes
          <5> QED
            BY <1>5, <1>7, <4>1, <5>1, <5>2
        <4>3. m.role = "assistant" /\ last.role = "user"
          BY <1>4, <1>5, <3>1, <4>1, <4>2, Kinds DEF Neighbours
        <4> QED
          BY <1>10, <4>3
      <3> QED
        BY <3>1
    <2>8. ~Approvals /\ acc[n - 1].kind = "answers" => text.role = "assistant"
      BY <1>2, <1>10, <2>3, <2>6, Kinds
    <2>9. Neighbours(Last(front), text)
      BY <2>3, <2>5, <2>7, <2>8 DEF Neighbours
    <2>10. Good(new) /\ new \in Seq(Message)
      BY <2>2, <2>3, <2>9, GoodAppend
    <2>11. /\ Len(new) = n /\ \A i \in 1 .. n - 1 : new[i] = acc[i]
           /\ new[n] = text /\ Last(new) = text
      <3>1. /\ Len(new) = Len(front) + 1 /\ \A i \in 1 .. Len(front) : new[i] = front[i]
            /\ new[Len(front) + 1] = text /\ Last(new) = text
        BY <2>2, <2>3, AppendIs
      <3> HIDE DEF new, n
      <3> QED
        BY <1>3, <2>2, <2>5, <3>1
    <2> HIDE DEF new, n
    <2>12. ASSUME NEW i \in 1 .. Len(new) - 1 PROVE new[i].role # new[i + 1].role
      <3>1. CASE i = n - 1
        BY <1>10, <2>3, <2>5, <2>6, <2>11, <3>1
      <3>2. CASE i # n - 1
        <4>1. i \in 1 .. n - 1 /\ i + 1 \in 1 .. n - 1
          BY <1>3, <2>11, <3>2
        <4> QED
          BY <2>11, <4>1 DEF Joined, n
      <3> QED
        BY <3>1, <3>2
    <2>13. new[1] = Text("user")
      BY <1>3, <2>11 DEF Joined
    <2> QED
      BY <1>1, <1>3, <2>1, <2>4, <2>10, <2>11, <2>12, <2>13 DEF Joined, m, text
  <1>11. CASE last.role # m.role
    <2> DEFINE new == Append(acc, m)
    <2>1. Join(acc, m) = new
      BY <1>11 DEF Join, last
    <2>2. Neighbours(last, m)
      BY <1>5, <1>6, <1>7, <1>8, <1>9, <1>2, <1>11, Shapes, MessageParts DEF Neighbours
    <2>3. Good(new)
      BY <1>2, <1>3, <2>2, GoodAppend DEF Joined, last
    <2>4. /\ Len(new) = n + 1 /\ \A i \in 1 .. n : new[i] = acc[i]
          /\ new[n + 1] = m /\ Last(new) = m
      BY <1>2, AppendIs
    <2> HIDE DEF new, n
    <2>5. ASSUME NEW i \in 1 .. Len(new) - 1 PROVE new[i].role # new[i + 1].role
      <3>1. CASE i = n
        BY <1>3, <1>11, <2>4, <3>1
      <3>2. CASE i # n
        <4>1. i \in 1 .. n - 1 /\ i \in 1 .. n /\ i + 1 \in 1 .. n
          BY <1>3, <2>4, <3>2
        <4> QED
          BY <2>4, <4>1 DEF Joined, n
      <3> QED
        BY <3>1, <3>2
    <2>6. new[1] = Text("user") /\ Len(new) >= 2
      BY <1>3, <2>4 DEF Joined
    <2> QED
      BY <1>1, <2>1, <2>3, <2>4, <2>5, <2>6 DEF Joined, m
  <1> QED
    BY <1>10, <1>11 DEF m

\* A compacted list begins and ends with the user, and keeps a question at the end.
LEMMA CompactedIs ==
  ASSUME NEW list \in Seq(Message), Good(list), Len(list) > KeepRecent
  PROVE  /\ Compacted(list) \in Seq(Message) /\ Good(Compacted(list)) /\ Compacted(list) # <<>>
         /\ UserFirst(Compacted(list)) /\ Last(Compacted(list)).role = "user"
         /\ Last(list) \in {Text("user"), Picture} =>
                Last(Compacted(list)) \in {Text("user"), Picture}
  <1> DEFINE recent == Recent(list)
             r == Len(recent)
             joined == FoldLeft(Join, Summary, recent)
             n == Len(joined)
  <1>1. /\ recent \in Seq(Message) /\ Good(recent) /\ r \in Nat \ {0}
        /\ recent[r] = Last(list)
    BY RecentIs
  <1> HIDE DEF recent, joined
  <1>2. PICK F : /\ F \in [0 .. r -> Seq(Message)] /\ F[0] = Summary /\ F[r] = joined
                 /\ \A k \in 0 .. r - 1 : F[k + 1] = Join(F[k], recent[k + 1])
    BY <1>1, JoinFolds DEF joined
  <1> DEFINE S == {k \in 0 .. r : Joined(F[k], recent, k)}
  <1>3. 0 \in S
    BY <1>1, <1>2, SummaryJoined
  <1>4. ASSUME NEW k \in 0 .. r - 1, k \in S PROVE k + 1 \in S
    <2>1. F[k] \in Seq(Message) /\ Joined(F[k], recent, k) /\ k + 1 \in 0 .. r
      BY <1>1, <1>2, <1>4
    <2>2. Joined(Join(F[k], recent[k + 1]), recent, k + 1)
      BY <1>1, <2>1, JoinStep
    <2> QED
      BY <1>2, <2>1, <2>2
  <1>5. Joined(joined, recent, r) /\ joined \in Seq(Message)
    <2> HIDE DEF S
    <2>1. 0 .. r \subseteq S
      BY <1>1, <1>3, <1>4, InductUpTo
    <2>2. r \in S
      BY <1>1, <2>1
    <2> QED
      BY <1>1, <1>2, <2>2 DEF S
  <1>6. Compacted(list) = EndWithUser(joined)
    BY DEF Compacted, joined, recent, Summary
  <1>7. /\ n \in Nat /\ n >= 2 /\ Good(joined) /\ joined[1] = Text("user") /\ joined # <<>>
        /\ Last(joined) = joined[n] /\ DOMAIN joined = 1 .. n
    BY <1>5, LenProperties, EmptySeq DEF Joined, Last
  <1>8. ASSUME NEW i \in 1 .. n PROVE joined[i].role \in {"user", "assistant"}
    <2>1. joined[i] \in Message
      BY <1>5, <1>7
    <2> QED
      BY <2>1, MessageParts
  <1>9. Last(joined) \in {recent[r], Text(recent[r].role)}
    BY <1>1, <1>5 DEF Joined
  <1>10. Text("user").role = "user" /\ Text("user").kind = "text" /\ Picture.role = "user"
    BY Shapes
  <1>11. CASE Last(joined).role = "assistant"
    <2>1. /\ Front(joined) \in Seq(Message) /\ Good(Front(joined))
          /\ Len(Front(joined)) = n - 1 /\ \A i \in 1 .. n - 1 : Front(joined)[i] = joined[i]
      BY <1>5, <1>7, FrontIs, GoodFront
    <2>2. Compacted(list) = Front(joined)
      BY <1>6, <1>7, <1>11 DEF EndWithUser
    <2>3. /\ 1 \in 1 .. n - 1 /\ n - 1 \in 1 .. n - 1 /\ n - 1 \in 1 .. n /\ (n - 1) + 1 = n
          /\ Front(joined) # <<>>
      BY <1>7, <2>1, EmptySeq
    <2>4. Last(Front(joined)) = joined[n - 1]
      BY <2>1, <2>3 DEF Last
    <2>5. joined[n - 1].role # joined[n].role
      BY <1>5, <2>3 DEF Joined
    <2>6. joined[n - 1].role = "user"
      BY <1>7, <1>8, <1>11, <2>3, <2>5
    <2>7. Last(list) \notin {Text("user"), Picture}
      BY <1>1, <1>9, <1>10, <1>11
    <2> QED
      BY <1>7, <1>10, <2>1, <2>2, <2>3, <2>4, <2>6, <2>7 DEF UserFirst
  <1>12. CASE Last(joined).role # "assistant"
    <2>1. Compacted(list) = joined
      BY <1>6, <1>12 DEF EndWithUser
    <2>2. Last(joined).role = "user"
      BY <1>7, <1>8, <1>12
    <2>3. Last(list) \in {Text("user"), Picture} => Last(joined) \in {Text("user"), Picture}
      BY <1>1, <1>9, <1>10
    <2> QED
      BY <1>5, <1>7, <1>10, <2>1, <2>2, <2>3 DEF UserFirst
  <1> QED
    BY <1>11, <1>12

\* What a turn begins with is a list like the ones that are saved, but for its end.
Starts(list, isLate) ==
    /\ list \in Seq(Message) /\ Good(list) /\ list # <<>> /\ (~cut => UserFirst(list))
    /\ Last(list).kind # "calls"
    /\ Last(list) \in {Text("user"), Picture} \/ isLate

\* Whether it is compacted, cut short or neither, the model is asked about it.
LEMMA CompactStarts ==
  ASSUME TranscriptTypeOK, NEW list, NEW isLate \in BOOLEAN, Starts(list, isLate), Compact(list)
  PROVE  /\ messages' \in Seq(Message) /\ Good(messages') /\ messages' # <<>>
         /\ cut' \in BOOLEAN /\ (cut => cut') /\ (~cut' => UserFirst(messages'))
         /\ Last(messages').kind # "calls"
         /\ Answerable(messages') \/ isLate
  <1>1. /\ Text("user").role = "user" /\ Text("user").kind = "text"
        /\ Picture.role = "user" /\ Picture.kind = "image"
    BY Shapes
  <1>2. ASSUME NEW l \in Seq(Message), l # <<>>, Last(l) \in {Text("user"), Picture}
        PROVE  Answerable(l)
    <2>1. Last(l) = l[Len(l)]
      BY DEF Last
    <2> QED
      BY <1>1, <1>2, <2>1 DEF Answerable
  <1>3. CASE messages' = list /\ UNCHANGED cut
    BY <1>2, <1>3 DEF Starts, TranscriptTypeOK
  <1>4. CASE ~(Len(list) <= MaxSession \/ Len(list) <= KeepRecent)
    <2>1. list \in Seq(Message) /\ Good(list) /\ Len(list) > KeepRecent
      <3>1. Len(list) \in Nat /\ KeepRecent \in Nat
        BY LenProperties, TranscriptAssumption DEF Starts
      <3> QED
        BY <1>4, <3>1 DEF Starts
    <2>2. CASE messages' = Compacted(list) /\ UNCHANGED cut
      <3>1. messages' \in Seq(Message) /\ messages' # <<>>
        BY <2>1, <2>2, CompactedIs
      <3>2. Last(messages').role = "user" /\ UserFirst(messages') /\ Good(messages')
        BY <2>1, <2>2, CompactedIs
      <3>3. Last(messages').kind # "calls"
        <4>1. Len(messages') \in Nat \ {0} /\ Last(messages') = messages'[Len(messages')]
              /\ DOMAIN messages' = 1 .. Len(messages')
          BY <3>1, LenProperties, EmptySeq DEF Last
        <4>2. Last(messages') \in Message /\ WellFormed(Last(messages'))
          BY <3>1, <3>2, <4>1 DEF Good
        <4> QED
          BY <3>2, <4>2, Kinds
      <3>4. Answerable(messages') \/ isLate
        <4>1. Last(list) \in {Text("user"), Picture} =>
                 Last(messages') \in {Text("user"), Picture}
          BY <2>1, <2>2, CompactedIs
        <4> QED
          BY <1>2, <3>1, <4>1 DEF Starts
      <3> QED
        BY <2>2, <3>1, <3>2, <3>3, <3>4 DEF TranscriptTypeOK
    <2>3. CASE messages' = Recent(list) /\ cut' = TRUE
      <3>1. /\ messages' \in Seq(Message) /\ messages' # <<>> /\ Good(messages')
            /\ Last(messages') = Last(list)
        BY <2>1, <2>3, RecentIs
      <3> QED
        BY <1>2, <2>3, <3>1 DEF Starts
    <2> QED
      BY <1>4, <2>2, <2>3 DEF Compact
  <1> QED
    BY <1>3, <1>4 DEF Compact

-----------------------------------------------------------------------------
(* The steps of a turn.                                                     *)

\* A text of the assistant may follow anything but calls, a text or a picture of the
\* user anything but calls and answers where approvals leave them.
LEMMA Suits ==
  ASSUME NEW m \in Message, WellFormed(m)
  PROVE  /\ m.kind # "calls" => Neighbours(m, Text("assistant"))
         /\ m.kind # "calls" => \A n : Neighbours(m, Calls(n))
         /\ m.kind \notin {"calls", "answers"} \/ (Approvals /\ m.kind # "calls") =>
                Neighbours(m, Text("user")) /\ Neighbours(m, Picture)
         /\ \A n, note : m = Calls(n) => Neighbours(m, Answers(n, note))
         /\ Neighbours(m, Text("user")) => Neighbours(m, Picture)
  BY Shapes DEF Neighbours

\* Appending leaves the beginning as it is.
LEMMA AppendFirst ==
  ASSUME NEW list \in Seq(Message), list # <<>>, NEW m \in Message, UserFirst(list)
  PROVE  UserFirst(Append(list, m))
  <1>1. Len(list) \in Nat /\ Len(list) # 0
    BY LenProperties, EmptySeq
  <1>2. Append(list, m)[1] = list[1]
    BY <1>1, AppendIs
  <1> QED
    BY <1>2 DEF UserFirst

\* The last message of a good list.
LEMMA LastIs ==
  ASSUME NEW list \in Seq(Message), list # <<>>, Good(list)
  PROVE  /\ Len(list) \in Nat \ {0} /\ Last(list) = list[Len(list)]
         /\ Last(list) \in Message /\ WellFormed(Last(list))
  <1>1. Len(list) \in Nat \ {0} /\ DOMAIN list = 1 .. Len(list)
    BY LenProperties, EmptySeq
  <1>2. Len(list) \in DOMAIN list
    BY <1>1
  <1>3. list[Len(list)] \in Message /\ WellFormed(list[Len(list)])
    BY <1>1, <1>2 DEF Good
  <1> QED
    BY <1>1, <1>3 DEF Last

\* What is in progress may be answered by the user, and by the assistant.
LEMMA Say ==
  ASSUME NEW list \in Seq(Message), Good(list), NEW m \in Message, WellFormed(m),
         list # <<>> => Neighbours(Last(list), m) /\ (~cut => UserFirst(list)),
         list = <<>> => m \in {Text("user"), Picture}
  PROVE  /\ Append(list, m) \in Seq(Message) /\ Good(Append(list, m))
         /\ Append(list, m) # <<>> /\ Last(Append(list, m)) = m
         /\ ~cut => UserFirst(Append(list, m))
  <1>1. Append(list, m) \in Seq(Message) /\ Good(Append(list, m))
    BY GoodAppend
  <1>2. Append(list, m) # <<>> /\ Last(Append(list, m)) = m
    BY AppendIs
  <1>3. CASE list = <<>>
    <2>1. Append(list, m)[1] = m
      BY <1>3
    <2>2. m.role = "user" /\ m.kind \in {"text", "image"}
      BY <1>3, Shapes
    <2> QED
      BY <1>1, <1>2, <2>1, <2>2 DEF UserFirst
  <1>4. CASE list # <<>>
    BY <1>1, <1>2, <1>4, AppendFirst
  <1> QED
    BY <1>3, <1>4

\* The turns of a chat: without a session, with one, with a prompt, and with a picture.
LEMMA SavedStarts ==
  ASSUME TranscriptInv, saved # <<>>
  PROVE  Starts(saved, TRUE) /\ Neighbours(Last(saved), Text("user"))
  <1>1. saved \in Seq(Message) /\ Good(saved) /\ (~cut => UserFirst(saved))
        /\ (Last(saved) = Text("assistant") \/ (Approvals /\ Last(saved).kind = "answers"))
    BY DEF TranscriptInv, TranscriptTypeOK, SavedOK, SessionIsCapped
  <1>2. Last(saved) \in Message /\ WellFormed(Last(saved))
    BY <1>1, LastIs
  <1>3. Last(saved).kind \in {"text", "answers"}
    BY <1>1, Shapes
  <1>4. Neighbours(Last(saved), Text("user"))
    <2>1. Last(saved).kind \notin {"calls", "answers"} \/ (Approvals /\ Last(saved).kind # "calls")
      BY <1>1, Shapes
    <2> QED
      BY <1>2, <2>1, Suits
  <1> QED
    BY <1>1, <1>3, <1>4 DEF Starts

\* A list of three is one to which two have been appended.
LEMMA AppendTwice ==
  ASSUME NEW a, NEW b
  PROVE  Append(Append(<<a>>, b), a) = <<a, b, a>>
  <1> DEFINE S == {a, b}
             two == Append(<<a>>, b)
             left == Append(two, a)
             right == <<a, b, a>>
  <1>1. <<a>> \in Seq(S) /\ Len(<<a>>) = 1 /\ <<a>>[1] = a /\ a \in S /\ b \in S
    OBVIOUS
  <1>2. two \in Seq(S) /\ Len(two) = 1 + 1 /\ two[1] = a /\ two[1 + 1] = b
    <2>1. 1 \in 1 .. Len(<<a>>)
      BY <1>1
    <2> QED
      BY <1>1, <2>1, AppendIs
  <1> HIDE DEF two
  <1>3. left \in Seq(S) /\ Len(left) = 3 /\ left[1] = a /\ left[2] = b /\ left[3] = a
    <2>1. 1 \in 1 .. Len(two) /\ 2 \in 1 .. Len(two) /\ Len(two) = 2
      BY <1>2
    <2>2. /\ left \in Seq(S) /\ Len(left) = Len(two) + 1 /\ left[Len(two) + 1] = a
          /\ \A k \in 1 .. Len(two) : left[k] = two[k]
      <3>1. two \in Seq(S) /\ a \in S
        BY <1>1, <1>2
      <3> QED
        BY ONLY <3>1, AppendIs DEF left
    <2> HIDE DEF left
    <2>3. left[1] = two[1] /\ left[2] = two[2] /\ left[2 + 1] = a /\ Len(left) = 2 + 1
      BY <2>1, <2>2
    <2> QED
      BY <1>2, <2>2, <2>3
  <1>4. right \in Seq(S) /\ Len(right) = 3 /\ right[1] = a /\ right[2] = b /\ right[3] = a
    BY <1>1
  <1> HIDE DEF left, right
  <1>5. \A i \in 1 .. 3 : i = 1 \/ i = 2 \/ i = 3
    OBVIOUS
  <1>6. \A i \in 1 .. 3 : left[i] = right[i]
    BY <1>3, <1>4, <1>5
  <1>7. left = right
    BY <1>3, <1>4, <1>6, SeqEqual
  <1> QED
    BY <1>7 DEF left, right, two

\* A turn resumes the session with a text of the user at the end.
LEMMA ResumedStarts ==
  ASSUME TranscriptInv, NEW list \in Resumed
  PROVE  Starts(list, FALSE) /\ Last(list) = Text("user")
  <1>0. /\ Text("user") \in Message /\ WellFormed(Text("user")) /\ Text("user").kind = "text"
        /\ Text("assistant") \in Message /\ WellFormed(Text("assistant"))
        /\ Text("assistant").kind = "text"
    BY Shapes
  <1>1. CASE saved = <<>>
    <2> DEFINE one == Append(<<>>, Text("user"))
               two == Append(one, Text("assistant"))
               three == Append(two, Text("user"))
    <2>1. <<>> \in Seq(Message) /\ Good(<<>>)
      BY DEF Good
    <2>2. /\ one \in Seq(Message) /\ Good(one) /\ one # <<>> /\ Last(one) = Text("user")
          /\ ~cut => UserFirst(one)
      BY <1>0, <2>1, Say
    <2>3. Neighbours(Text("user"), Text("assistant"))
      BY <1>0, Suits
    <2>4. Neighbours(Text("assistant"), Text("user"))
      BY <1>0, Suits
    <2>5. one = <<Text("user")>> /\ three = <<Text("user"), Text("assistant"), Text("user")>>
      <3>1. one = <<Text("user")>>
        OBVIOUS
      <3> HIDE DEF one
      <3> QED
        BY <3>1, AppendTwice
    <2> HIDE DEF one
    <2>6. /\ two \in Seq(Message) /\ Good(two) /\ two # <<>> /\ Last(two) = Text("assistant")
          /\ ~cut => UserFirst(two)
      BY <1>0, <2>2, <2>3, Say
    <2> HIDE DEF two
    <2>7. /\ three \in Seq(Message) /\ Good(three) /\ three # <<>> /\ Last(three) = Text("user")
          /\ ~cut => UserFirst(three)
      BY <1>0, <2>4, <2>6, Say
    <2> HIDE DEF three
    <2>8. list = one \/ list = three
      BY <1>1, <2>5 DEF Resumed, Histories
    <2> QED
      BY <1>0, <2>2, <2>7, <2>8 DEF Starts
  <1>2. CASE saved # <<>>
    <2>1. list = AddUser(saved)
      BY <1>2 DEF Resumed
    <2>2. Starts(saved, TRUE) /\ Neighbours(Last(saved), Text("user"))
      BY <1>2, SavedStarts
    <2>3. CASE Last(saved) = Text("user")
      BY <1>2, <2>1, <2>2, <2>3 DEF Starts, AddUser
    <2>4. CASE Last(saved) # Text("user")
      <3> DEFINE new == Append(saved, Text("user"))
      <3>1. list = new
        BY <2>1, <2>4 DEF AddUser
      <3>2. saved \in Seq(Message) /\ Good(saved) /\ (~cut => UserFirst(saved))
        BY <2>2 DEF Starts
      <3>3. /\ new \in Seq(Message) /\ Good(new) /\ new # <<>> /\ Last(new) = Text("user")
            /\ ~cut => UserFirst(new)
        BY <1>0, <1>2, <2>2, <3>2, Say
      <3> HIDE DEF new
      <3> QED
        BY <1>0, <3>1, <3>3 DEF Starts
    <2> QED
      BY <2>3, <2>4
  <1> QED
    BY <1>1, <1>2

\* A prompt of the scheduler is a text of the user at the end.
LEMMA PromptedStarts ==
  ASSUME TranscriptInv, NEW list \in Prompted
  PROVE  Starts(list, FALSE)
  <1>0. Text("user") \in Message /\ WellFormed(Text("user")) /\ Text("user").kind = "text"
    BY Shapes
  <1>1. PICK old \in Resumed \cup ({saved} \ {<<>>}) : list = Append(old, Text("user"))
    BY DEF Prompted
  <1>2. Neighbours(Text("user"), Text("user"))
    BY <1>0, Suits
  <1>3. Starts(old, TRUE) /\ Neighbours(Last(old), Text("user"))
    <2>1. CASE old \in Resumed
      BY <1>2, <2>1, ResumedStarts DEF Starts
    <2>2. CASE old \in {saved} \ {<<>>}
      BY <2>2, SavedStarts
    <2> QED
      BY <1>1, <2>1, <2>2
  <1>4. old \in Seq(Message) /\ Good(old) /\ old # <<>> /\ (~cut => UserFirst(old))
    BY <1>3 DEF Starts
  <1>5. /\ list \in Seq(Message) /\ Good(list) /\ list # <<>> /\ Last(list) = Text("user")
        /\ ~cut => UserFirst(list)
    BY <1>0, <1>1, <1>3, <1>4, Say
  <1> QED
    BY <1>0, <1>5 DEF Starts

\* A picture takes the place of a message at the end, if a picture may follow
\* what is before it.
LEMMA PictureStarts ==
  ASSUME TranscriptInv, NEW isLate \in BOOLEAN, NEW old, Starts(old, isLate),
         Last(old) = Text("user") \/ Approvals
  PROVE  Starts(Append(Front(old), Picture), FALSE)
  <1>0. Picture \in Message /\ WellFormed(Picture) /\ Picture.kind = "image"
    BY Shapes
  <1> DEFINE front == Front(old)
             n == Len(old)
             list == Append(front, Picture)
  <1>3. old \in Seq(Message) /\ Good(old) /\ old # <<>> /\ (~cut => UserFirst(old))
    BY DEF Starts
  <1>4. /\ front \in Seq(Message) /\ Good(front) /\ Len(front) = n - 1 /\ n \in Nat \ {0}
        /\ \A k \in 1 .. n - 1 : front[k] = old[k]
    BY <1>3, FrontIs, GoodFront
  <1>5. old[n] = Last(old)
    BY <1>3, LastIs
  <1> HIDE DEF front
  <1>6. ASSUME front # <<>> PROVE Neighbours(Last(front), Picture) /\ (~cut => UserFirst(front))
    <2>1. Len(front) # 0
      BY <1>4, <1>6, EmptySeq
    <2>2. n - 1 \in 1 .. n - 1 /\ 1 \in 1 .. n - 1 /\ (n - 1) + 1 = n
      BY <1>4, <2>1
    <2>3. Last(front) = old[n - 1] /\ Last(front) \in Message /\ WellFormed(Last(front))
      BY <1>4, <1>6, <2>2, LastIs
    <2>4. Neighbours(Last(front), Picture)
      <3>1. CASE Last(old) = Text("user")
        <4>1. Neighbours(old[n - 1], Text("user"))
          BY <1>3, <1>5, <2>2, <3>1 DEF Good
        <4> QED
          BY <2>3, <4>1, Suits
      <3>2. CASE Approvals
        BY <1>0, <3>2 DEF Neighbours
      <3> QED
        BY <3>1, <3>2
    <2> QED
      BY <1>3, <1>4, <2>2, <2>4 DEF UserFirst
  <1>7. /\ list \in Seq(Message) /\ Good(list) /\ list # <<>> /\ Last(list) = Picture
        /\ ~cut => UserFirst(list)
    BY <1>0, <1>4, <1>6, Say
  <1> HIDE DEF list
  <1>8. Starts(list, FALSE)
    BY <1>0, <1>7 DEF Starts
  <1> QED
    BY <1>8 DEF list, front

\* A new message with an image: the text that has been added last becomes one.
LEMMA PicturedStarts ==
  ASSUME TranscriptInv, NEW list \in Pictured
  PROVE  Starts(list, FALSE)
  <1>1. PICK old \in Resumed : list = WithImage(old)
    BY DEF Pictured
  <1>2. Starts(old, FALSE) /\ Last(old) = Text("user")
    BY ResumedStarts
  <1>3. list = Append(Front(old), Picture)
    BY <1>1, <1>2, Shapes DEF WithImage
  <1> QED
    BY <1>2, <1>3, PictureStarts

\* An image without a new message: the session as it is, or with the answers at
\* its end gone.
LEMMA LateStarts ==
  ASSUME TranscriptInv, saved # <<>>, NEW list \in {saved, WithImage(saved)}
  PROVE  Starts(list, TRUE)
  <1>1. Starts(saved, TRUE)
    BY SavedStarts
  <1>2. Last(saved) = Text("assistant") \/ Approvals
    BY DEF TranscriptInv, SavedOK, SessionIsCapped
  <1>3. CASE list = saved
    BY <1>1, <1>3
  <1>4. CASE list # saved
    <2>1. list = Append(Front(saved), Picture) /\ Last(saved).role = "user"
      BY <1>4 DEF WithImage
    <2>2. Approvals
      BY <1>2, <2>1, Shapes
    <2>3. Starts(list, FALSE)
      BY <1>1, <2>1, <2>2, PictureStarts
    <2> QED
      BY <2>3 DEF Starts
  <1> QED
    BY <1>3, <1>4

-----------------------------------------------------------------------------
(* The inductive invariant.                                                 *)

\* A list that may go on: the model is asked, or the turn is capped.
LEMMA Continues ==
  ASSUME TranscriptInv, stage # "idle", NEW list \in Seq(Message), Good(list), list # <<>>,
         ~cut => UserFirst(list), Last(list).kind # "calls", Answerable(list),
         Continue(list), guarded' \in BOOLEAN, UNCHANGED <<turnNo, cut, late>>
  PROVE  TranscriptInv'
  <1>1. /\ saved \in Seq(Message) /\ turnNo \in 0 .. MaxTurns /\ cut \in BOOLEAN /\ late \in BOOLEAN
        /\ turnNo >= 1 /\ iteration < MaxIterations /\ iteration \in Nat
        /\ MaxIterations \in Nat /\ SavedOK
    BY TranscriptAssumption DEF TranscriptInv, TranscriptTypeOK, TurnOK
  <1>2. iteration' = iteration + 1 /\ iteration' \in 0 .. MaxIterations
    BY <1>1 DEF Continue
  <1>3. CASE iteration' < MaxIterations
    <2>1. stage' = "loop" /\ messages' = list /\ saved' = saved
      BY <1>3 DEF Continue
    <2>2. TranscriptTypeOK'
      BY <1>1, <1>2, <2>1 DEF TranscriptTypeOK
    <2>3. SavedOK'
      BY <1>1, <2>1 DEF SavedOK, SessionIsCapped
    <2>4. TurnOK'
      BY <1>1, <1>3, <2>1 DEF TurnOK
    <2> QED
      BY <2>2, <2>3, <2>4 DEF TranscriptInv
  <1>4. CASE ~(iteration' < MaxIterations)
    <2> DEFINE capped == Append(list, Text("assistant"))
    <2>1. stage' = "idle" /\ messages' = <<>> /\ saved' = capped
      BY <1>4 DEF Continue, EndTurn
    <2>2. /\ capped \in Seq(Message) /\ Good(capped) /\ capped # <<>>
          /\ Last(capped) = Text("assistant") /\ (~cut => UserFirst(capped))
      <3>1. Text("assistant") \in Message /\ WellFormed(Text("assistant"))
        BY Shapes
      <3>2. Last(list) \in Message /\ WellFormed(Last(list))
        BY LastIs
      <3>3. Neighbours(Last(list), Text("assistant"))
        BY <3>2, Suits
      <3> QED
        BY <3>1, <3>3, Say
    <2> HIDE DEF capped
    <2>3. TranscriptTypeOK'
      BY <1>1, <1>2, <2>1, <2>2 DEF TranscriptTypeOK
    <2>4. SavedOK'
      BY <1>1, <2>1, <2>2 DEF SavedOK, SessionIsCapped
    <2>5. TurnOK'
      <3>1. Good(<<>>)
        BY DEF Good
      <3> QED
        BY <2>1, <3>1 DEF TurnOK
    <2> QED
      BY <2>3, <2>4, <2>5 DEF TranscriptInv
  <1> QED
    BY <1>3, <1>4

\* A list that is saved at the end of a turn.
LEMMA Ends ==
  ASSUME TranscriptInv, NEW list \in Seq(Message), Good(list),
         list # <<>> => /\ ~cut => UserFirst(list)
                        /\ \/ Last(list) = Text("assistant")
                           \/ Approvals /\ Last(list).kind = "answers",
         EndTurn(list), guarded' \in BOOLEAN, UNCHANGED <<turnNo, iteration, cut, late>>
  PROVE  TranscriptInv'
  <1>1. stage' = "idle" /\ messages' = <<>> /\ saved' = list
    BY DEF EndTurn
  <1>2. TranscriptTypeOK'
    BY <1>1 DEF TranscriptInv, TranscriptTypeOK
  <1>3. SavedOK'
    BY <1>1 DEF SavedOK, SessionIsCapped
  <1>4. Good(<<>>)
    BY DEF Good
  <1>5. TurnOK'
    BY <1>1, <1>4 DEF TurnOK
  <1> QED
    BY <1>2, <1>3, <1>5 DEF TranscriptInv

\* The number of a batch of calls: turns and iterations are both bounded.
LEMMA BatchNumber ==
  ASSUME NEW t \in 1 .. MaxTurns, NEW i \in 0 .. MaxIterations - 1
  PROVE  (t - 1) * MaxIterations + i + 1 \in 1 .. MaxTurns * MaxIterations
  <1>1. MaxTurns \in Nat /\ MaxIterations \in Nat \ {0}
    BY TranscriptAssumption
  <1> DEFINE a == (t - 1) * MaxIterations
             b == (MaxTurns - t) * MaxIterations
  <1>2. a \in Nat /\ b \in Nat
    BY <1>1
  <1>3. MaxTurns * MaxIterations = a + MaxIterations + b
    BY <1>1
  <1> HIDE DEF a, b
  <1>4. a + i + 1 \in 1 .. (a + MaxIterations + b)
    BY <1>1, <1>2
  <1> QED
    BY <1>3, <1>4 DEF a

\* A turn begins with a list that is good, whatever has become of the session.
LEMMA BeginTurnInv ==
  ASSUME TranscriptInv, BeginTurn
  PROVE  TranscriptInv'
  <1>1. \E isLate \in BOOLEAN : \E list : Starts(list, isLate) /\ Compact(list) /\ late' = isLate
    <2>1. CASE late' = FALSE /\ \E list \in Resumed \cup Prompted \cup Pictured : Compact(list)
      <3>1. PICK list \in Resumed \cup Prompted \cup Pictured : Compact(list)
        BY <2>1
      <3>2. Starts(list, FALSE)
        BY <3>1, ResumedStarts, PromptedStarts, PicturedStarts
      <3> QED
        BY <2>1, <3>1, <3>2
    <2>2. CASE late' = TRUE /\ saved # <<>> /\ \E list \in {saved, WithImage(saved)} : Compact(list)
      <3>1. PICK list \in {saved, WithImage(saved)} : Compact(list)
        BY <2>2
      <3>2. Starts(list, TRUE)
        BY <2>2, LateStarts
      <3> QED
        BY <2>2, <3>1, <3>2
    <2> QED
      BY <2>1, <2>2 DEF BeginTurn
  <1>11. PICK isLate \in BOOLEAN : \E list : Starts(list, isLate) /\ Compact(list) /\ late' = isLate
    BY <1>1
  <1>2. PICK list : Starts(list, isLate) /\ Compact(list) /\ late' = isLate
    BY <1>11
  <1>3. TranscriptTypeOK /\ SavedOK
    BY DEF TranscriptInv
  <1>4. /\ messages' \in Seq(Message) /\ Good(messages') /\ messages' # <<>>
        /\ cut' \in BOOLEAN /\ (cut => cut') /\ (~cut' => UserFirst(messages'))
        /\ Last(messages').kind # "calls" /\ (Answerable(messages') \/ late')
    BY <1>2, <1>3, CompactStarts
  <1>5. /\ stage' = "loop" /\ turnNo' = turnNo + 1 /\ turnNo < MaxTurns
        /\ iteration' = 0 /\ guarded' = FALSE /\ saved' = saved
    BY DEF BeginTurn
  <1>6. 0 \in 0 .. MaxIterations /\ 0 < MaxIterations /\ turnNo' \in 0 .. MaxTurns /\ turnNo' >= 1
    BY <1>3, <1>5, TranscriptAssumption DEF TranscriptTypeOK
  <1>7. TranscriptTypeOK'
    BY <1>2, <1>3, <1>4, <1>5, <1>6 DEF TranscriptTypeOK
  <1>8. SavedOK'
    BY <1>3, <1>4, <1>5 DEF SavedOK, SessionIsCapped
  <1>9. TurnOK'
    BY <1>4, <1>5, <1>6 DEF TurnOK
  <1> QED
    BY <1>7, <1>8, <1>9 DEF TranscriptInv

\* The calls of a reply get a number of their own.
LEMMA AskForToolsInv ==
  ASSUME TranscriptInv, AskForTools
  PROVE  TranscriptInv'
  <1> DEFINE b == (turnNo - 1) * MaxIterations + iteration + 1
  <1>1. /\ stage = "loop" /\ messages' = Append(messages, Calls(b)) /\ stage' = "tools"
        /\ UNCHANGED <<saved, turnNo, iteration, guarded, cut, late>>
    BY DEF AskForTools
  <1>2. /\ TranscriptTypeOK /\ SavedOK /\ TurnOK /\ messages \in Seq(Message) /\ messages # <<>>
        /\ Good(messages) /\ Last(messages).kind # "calls" /\ (~cut => UserFirst(messages))
        /\ turnNo >= 1 /\ iteration < MaxIterations
    BY <1>1 DEF TranscriptInv, TranscriptTypeOK, TurnOK
  <1>3. turnNo \in 1 .. MaxTurns /\ iteration \in 0 .. MaxIterations - 1
    BY <1>2, TranscriptAssumption DEF TranscriptTypeOK
  <1>4. b \in 1 .. MaxTurns * MaxIterations
    BY <1>3, BatchNumber
  <1> HIDE DEF b
  <1>5. Calls(b) \in Message /\ WellFormed(Calls(b)) /\ Calls(b).kind = "calls"
    BY <1>4, BatchShapes, Shapes
  <1>6. Neighbours(Last(messages), Calls(b))
    <2>1. Last(messages) \in Message /\ WellFormed(Last(messages))
      BY <1>2, LastIs
    <2> QED
      BY <1>2, <2>1, Suits
  <1>7. /\ messages' \in Seq(Message) /\ Good(messages') /\ messages' # <<>>
        /\ Last(messages') = Calls(b) /\ (~cut => UserFirst(messages'))
    BY <1>1, <1>2, <1>5, <1>6, Say
  <1>8. TranscriptTypeOK'
    BY <1>1, <1>2, <1>7 DEF TranscriptTypeOK
  <1>9. SavedOK'
    BY <1>1, <1>2 DEF SavedOK, SessionIsCapped
  <1>10. TurnOK'
    BY <1>1, <1>2, <1>5, <1>7 DEF TurnOK
  <1> QED
    BY <1>8, <1>9, <1>10 DEF TranscriptInv

\* The answers follow their calls.
LEMMA AnswerCallsInv ==
  ASSUME TranscriptInv, NEW note \in BOOLEAN, AnswerCalls(note)
  PROVE  TranscriptInv'
  <1> DEFINE n == Len(messages)
             b == Last(messages).batch
             answered == Append(messages, Answers(b, note))
  <1>1. /\ TranscriptTypeOK /\ TurnOK /\ messages \in Seq(Message) /\ Good(messages)
        /\ stage = "tools" /\ messages # <<>> /\ Last(messages).kind = "calls"
        /\ ~cut => UserFirst(messages)
    BY DEF TranscriptInv, TranscriptTypeOK, TurnOK, AnswerCalls
  <1>2. n \in Nat \ {0} /\ Last(messages) = messages[n] /\ Last(messages) \in Message
        /\ WellFormed(Last(messages))
    BY <1>1, LastIs
  <1>3. Last(messages) = Calls(b) /\ b # 0
    BY <1>1, <1>2 DEF WellFormed
  <1>4. b \in 1 .. MaxTurns * MaxIterations
    <2>1. MaxTurns * MaxIterations \in Nat
      BY TranscriptAssumption
    <2>2. b \in 0 .. MaxTurns * MaxIterations
      BY <1>2 DEF Message
    <2> QED
      BY <1>3, <2>1, <2>2
  <1> HIDE DEF b
  <1>5. /\ Answers(b, note) \in Message /\ WellFormed(Answers(b, note))
        /\ Answers(b, note).kind = "answers" /\ Answers(b, note).role = "user"
        /\ Answers(b, note).batch = b
    BY <1>4, BatchShapes, Shapes
  <1>6. Neighbours(Last(messages), Answers(b, note))
    BY <1>2, <1>3, Suits
  <1>7. /\ answered \in Seq(Message) /\ Good(answered) /\ answered # <<>>
        /\ Last(answered) = Answers(b, note) /\ (~cut => UserFirst(answered))
    BY <1>1, <1>5, <1>6, Say
  <1>8. Len(answered) = n + 1 /\ answered[n] = messages[n] /\ answered[n + 1] = Answers(b, note)
    <2>1. n \in 1 .. n
      BY <1>2
    <2>2. messages \in Seq(Message) /\ Answers(b, note) \in Message
      BY <1>1, <1>5
    <2> QED
      BY <2>1, <2>2, AppendIs
  <1> HIDE DEF answered, n
  <1>9. Answerable(answered)
    <2>1. n + 1 > 1 /\ (n + 1) - 1 = n
      BY <1>2
    <2> QED
      BY <1>2, <1>3, <1>5, <1>8, <2>1 DEF Answerable
  <1>10. /\ Continue(answered) \/ (Approvals /\ EndTurn(answered) /\ iteration' = iteration)
         /\ UNCHANGED <<turnNo, guarded, cut, late>>
    BY DEF AnswerCalls, answered, b
  <1>11. guarded' \in BOOLEAN
    BY <1>1, <1>10 DEF TranscriptTypeOK
  <1>12. CASE Continue(answered)
    BY <1>1, <1>5, <1>7, <1>9, <1>10, <1>11, <1>12, Continues
  <1>13. CASE Approvals /\ EndTurn(answered) /\ iteration' = iteration
    BY <1>5, <1>7, <1>10, <1>11, <1>13, Ends
  <1> QED
    BY <1>10, <1>12, <1>13

\* Two messages are appended one by one.
LEMMA AppendTwo ==
  ASSUME NEW list \in Seq(Message), NEW x \in Message, NEW y \in Message
  PROVE  list \o <<x, y>> = Append(Append(list, x), y)
  <1> DEFINE n == Len(list)
             left == list \o <<x, y>>
             one == Append(list, x)
             right == Append(one, y)
  <1>1. <<x, y>> \in Seq(Message) /\ Len(<<x, y>>) = 2 /\ <<x, y>>[1] = x /\ <<x, y>>[2] = y
    OBVIOUS
  <1>2. n \in Nat
    BY LenProperties
  <1>3. /\ left \in Seq(Message) /\ Len(left) = n + 2
        /\ \A i \in 1 .. n + 2 : left[i] = IF i <= n THEN list[i] ELSE <<x, y>>[i - n]
    BY <1>1, ConcatProperties
  <1>4. /\ one \in Seq(Message) /\ Len(one) = n + 1 /\ one[n + 1] = x
        /\ \A k \in 1 .. n : one[k] = list[k]
    BY AppendIs
  <1> HIDE DEF one
  <1>5. /\ right \in Seq(Message) /\ Len(right) = Len(one) + 1 /\ right[Len(one) + 1] = y
        /\ \A k \in 1 .. Len(one) : right[k] = one[k]
    <2> HIDE DEF n
    <2>1. one \in Seq(Message)
      BY <1>4
    <2>2. ASSUME NEW l \in Seq(Message)
          PROVE  /\ Append(l, y) \in Seq(Message) /\ Len(Append(l, y)) = Len(l) + 1
                 /\ Append(l, y)[Len(l) + 1] = y
                 /\ \A k \in 1 .. Len(l) : Append(l, y)[k] = l[k]
      BY AppendIs
    <2> QED
      BY <2>1, <2>2, Zenon
  <1> HIDE DEF left, right, n
  <1>6. ASSUME NEW i \in 1 .. n + 2 PROVE left[i] = right[i]
    <2>1. CASE i \in 1 .. n
      <3>1. i \in 1 .. Len(one) /\ i <= n
        BY <1>2, <1>4, <2>1
      <3>2. left[i] = list[i]
        BY <1>3, <3>1
      <3>3. right[i] = one[i]
        BY <1>5, <3>1
      <3> QED
        BY <1>4, <2>1, <3>2, <3>3
    <2>2. CASE i = n + 1
      <3>1. left[i] = <<x, y>>[1]
        BY <1>2, <1>3, <2>2
      <3>2. right[i] = x
        BY <1>2, <1>4, <1>5, <2>2
      <3> QED
        BY <1>1, <3>1, <3>2
    <2>3. CASE i = n + 2
      <3>1. left[i] = <<x, y>>[2]
        BY <1>2, <1>3, <2>3
      <3>2. right[i] = y
        BY <1>2, <1>4, <1>5, <2>3
      <3> QED
        BY <1>1, <3>1, <3>2
    <2> QED
      BY <1>2, <2>1, <2>2, <2>3
  <1>7. left = right
    <2>1. Len(right) = n + 2
      BY <1>2, <1>4, <1>5
    <2> QED
      BY <1>3, <1>5, <1>6, <2>1, SeqEqual
  <1> QED
    BY <1>7 DEF left, right, one

\* Two texts at the end of the list: a reply, and what the user answers.
LEMMA SayTwice ==
  ASSUME TranscriptInv, stage = "loop"
  PROVE  LET two == messages \o <<Text("assistant"), Text("user")>> IN
         /\ two \in Seq(Message) /\ Good(two) /\ two # <<>> /\ (~cut => UserFirst(two))
         /\ Last(two).kind # "calls" /\ Answerable(two)
         /\ Append(messages, Text("assistant")) \in Seq(Message)
         /\ Good(Append(messages, Text("assistant")))
         /\ ~cut => UserFirst(Append(messages, Text("assistant")))
         /\ Last(Append(messages, Text("assistant"))) = Text("assistant")
  <1> DEFINE one == Append(messages, Text("assistant"))
             two == Append(one, Text("user"))
  <1>1. /\ messages \in Seq(Message) /\ messages # <<>> /\ Good(messages)
        /\ Last(messages).kind # "calls" /\ (~cut => UserFirst(messages))
    BY DEF TranscriptInv, TranscriptTypeOK, TurnOK
  <1>2. /\ Text("user") \in Message /\ WellFormed(Text("user")) /\ Text("user").kind = "text"
        /\ Text("assistant") \in Message /\ WellFormed(Text("assistant"))
        /\ Text("assistant").kind = "text" /\ Text("user").role = "user"
    BY Shapes
  <1>3. Neighbours(Last(messages), Text("assistant")) /\ Neighbours(Text("assistant"), Text("user"))
    <2>1. Last(messages) \in Message /\ WellFormed(Last(messages))
      BY <1>1, LastIs
    <2> QED
      BY <1>1, <1>2, <2>1, Suits
  <1>4. messages \o <<Text("assistant"), Text("user")>> = two
    <2>1. \A m, x, y : m \in Seq(Message) /\ x \in Message /\ y \in Message
                         => m \o <<x, y>> = Append(Append(m, x), y)
      BY AppendTwo
    <2> QED
      BY <1>1, <1>2, <2>1
  <1> HIDE DEF one
  <1>5. /\ one \in Seq(Message) /\ Good(one) /\ one # <<>>
        /\ Last(one) = Text("assistant") /\ (~cut => UserFirst(one))
    BY <1>1, <1>2, <1>3, Say DEF one
  <1> HIDE DEF two
  <1>6. /\ two \in Seq(Message) /\ Good(two) /\ two # <<>>
        /\ Last(two) = Text("user") /\ (~cut => UserFirst(two))
    BY <1>2, <1>3, <1>5, Say DEF two
  <1>7. Answerable(two)
    <2>1. two[Len(two)] = Text("user")
      BY <1>6, LastIs
    <2> QED
      BY <1>2, <2>1 DEF Answerable
  <1> QED
    BY <1>2, <1>4, <1>5, <1>6, <1>7 DEF one

\* The inductive invariant.
LEMMA TranscriptStep ==
  ASSUME TranscriptInv, [TranscriptNext]_transcriptVars
  PROVE  TranscriptInv'
  <1>0. {guarded, cut, late} \subseteq BOOLEAN
    BY DEF TranscriptInv, TranscriptTypeOK
  <1>1. CASE BeginTurn
    BY <1>1, BeginTurnInv
  <1>2. CASE Reply
    <2>1. stage = "loop" /\ EndTurn(Append(messages, Text("assistant")))
          /\ UNCHANGED <<turnNo, iteration, guarded, cut, late>>
      BY <1>2 DEF Reply
    <2> DEFINE one == Append(messages, Text("assistant"))
    <2>2. /\ one \in Seq(Message) /\ Good(one) /\ (~cut => UserFirst(one))
          /\ Last(one) = Text("assistant")
      BY <2>1, SayTwice
    <2> HIDE DEF one
    <2> QED
      BY <1>0, <2>1, <2>2, Ends DEF one
  <1>3. CASE GuardEmptyReply \/ InjectAfterReply
    <2> DEFINE two == messages \o <<Text("assistant"), Text("user")>>
    <2>1. stage = "loop" /\ Continue(two) /\ UNCHANGED <<turnNo, cut, late>> /\ guarded' \in BOOLEAN
      BY <1>0, <1>3 DEF GuardEmptyReply, InjectAfterReply
    <2>2. /\ two \in Seq(Message) /\ Good(two) /\ two # <<>> /\ (~cut => UserFirst(two))
          /\ Last(two).kind # "calls" /\ Answerable(two)
      BY <2>1, SayTwice
    <2> HIDE DEF two
    <2> QED
      BY <2>1, <2>2, Continues
  <1>4. CASE AskForTools
    BY <1>4, AskForToolsInv
  <1>5. CASE \E note \in BOOLEAN : AnswerCalls(note)
    BY <1>5, AnswerCallsInv
  <1>6. CASE LoseTurn
    <2>1. /\ saved \in Seq(Message) /\ Good(saved)
          /\ saved # <<>> => /\ ~cut => UserFirst(saved)
                             /\ \/ Last(saved) = Text("assistant")
                                \/ Approvals /\ Last(saved).kind = "answers"
      BY DEF TranscriptInv, TranscriptTypeOK, SavedOK, SessionIsCapped
    <2>2. EndTurn(saved) /\ guarded' \in BOOLEAN /\ UNCHANGED <<turnNo, iteration, cut, late>>
      BY <1>0, <1>6 DEF LoseTurn
    <2> QED
      BY <2>1, <2>2, Ends
  <1>7. CASE ClearSession
    <2>1. Good(<<>>) /\ <<>> \in Seq(Message)
      BY DEF Good
    <2> QED
      BY <1>7, <2>1
         DEF ClearSession, TranscriptInv, TranscriptTypeOK, SavedOK, TurnOK, SessionIsCapped
  <1>8. CASE UNCHANGED transcriptVars
    BY <1>8 DEF transcriptVars, TranscriptInv, TranscriptTypeOK, SavedOK, TurnOK, SessionIsCapped
  <1> QED
    BY <1>1, <1>2, <1>3, <1>4, <1>5, <1>6, <1>7, <1>8 DEF TranscriptNext

\* There is nothing to begin with.
LEMMA TranscriptInitInv ==
  TranscriptInit => TranscriptInv
  <1>1. Good(<<>>) /\ <<>> \in Seq(Message)
    BY DEF Good
  <1>2. 0 \in 0 .. MaxTurns /\ 0 \in 0 .. MaxIterations
    BY TranscriptAssumption
  <1> QED
    BY <1>1, <1>2
       DEF TranscriptInit, TranscriptInv, TranscriptTypeOK, SavedOK, TurnOK, SessionIsCapped

\* Every list of a chat is made of whole messages that suit their neighbours, and a
\* turn is asked about one that ends with the user.
THEOREM TranscriptInvariant == TranscriptSpec => []TranscriptInv
  BY TranscriptInitInv, TranscriptStep, PTL DEF TranscriptSpec

-----------------------------------------------------------------------------
(* What is sent.                                                            *)

\* Answers have their calls before them, and calls their answers behind them; the
\* calls at the end may still be open.
Backed(list) ==
    \A i \in 1 .. Len(list) :
        list[i].kind = "answers" /\ list[i].batch # 0 => i > 1 /\ list[i - 1] = Calls(list[i].batch)

Covered(list, open) ==
    \A i \in 1 .. Len(list) :
        list[i].kind = "calls" => Followed(list, i, list[i].batch) \/ (open /\ i = Len(list))

\* Answers may be appended after their calls, and whatever is no answer after no calls.
LEMMA BackedAppend ==
  ASSUME NEW M, NEW list \in Seq(M), NEW m \in M, Backed(list),
         m.kind = "answers" /\ m.batch # 0 => list # <<>> /\ Last(list) = Calls(m.batch)
  PROVE  Backed(Append(list, m))
  <1> DEFINE n == Len(list)
             new == Append(list, m)
  <1>1. /\ n \in Nat /\ Len(new) = n + 1 /\ new[n + 1] = m
        /\ \A i \in 1 .. n : new[i] = list[i]
    BY AppendIs
  <1>2. list # <<>> => Last(list) = list[n] /\ n # 0
    BY EmptySeq DEF Last
  <1> HIDE DEF new, n
  <1>3. ASSUME NEW i \in 1 .. n + 1, new[i].kind = "answers", new[i].batch # 0
        PROVE  i > 1 /\ new[i - 1] = Calls(new[i].batch)
    <2>1. CASE i = n + 1
      <3>1. m.kind = "answers" /\ m.batch # 0
        BY <1>1, <1>3, <2>1
      <3>2. n \in 1 .. n /\ list[n] = Calls(m.batch) /\ (n + 1) - 1 = n /\ n + 1 > 1
        BY <1>1, <1>2, <3>1
      <3> QED
        BY <1>1, <2>1, <3>2
    <2>2. CASE i # n + 1
      <3>1. i \in 1 .. n /\ new[i] = list[i]
        BY <1>1, <2>2
      <3>2. i > 1 /\ list[i - 1] = Calls(list[i].batch)
        BY <1>3, <3>1 DEF Backed, n
      <3>3. i - 1 \in 1 .. n
        BY <1>1, <3>1, <3>2
      <3> QED
        BY <1>1, <3>1, <3>2, <3>3
    <2> QED
      BY <2>1, <2>2
  <1> QED
    BY <1>1, <1>3 DEF Backed, new

\* Calls at the end stay open until the next message, which has to answer them.
LEMMA CoveredAppend ==
  ASSUME NEW M, NEW list \in Seq(M), NEW m \in M, NEW open \in BOOLEAN, Covered(list, open),
         open /\ list # <<>> /\ Last(list).kind = "calls"
            => m.kind = "answers" /\ m.batch = Last(list).batch
  PROVE  Covered(Append(list, m), m.kind = "calls")
  <1> DEFINE n == Len(list)
             new == Append(list, m)
  <1>1. /\ n \in Nat /\ Len(new) = n + 1 /\ new[n + 1] = m
        /\ \A i \in 1 .. n : new[i] = list[i]
    BY AppendIs
  <1>2. n # 0 => list # <<>> /\ Last(list) = list[n]
    BY EmptySeq DEF Last
  <1> HIDE DEF new, n
  <1>3. ASSUME NEW i \in 1 .. n + 1, new[i].kind = "calls"
        PROVE  Followed(new, i, new[i].batch) \/ (m.kind = "calls" /\ i = n + 1)
    <2>1. CASE i = n + 1
      BY <1>1, <1>3, <2>1
    <2>2. CASE i # n + 1
      <3>1. i \in 1 .. n /\ new[i] = list[i] /\ i < n + 1 /\ n # 0
        BY <1>1, <2>2
      <3>2. Followed(list, i, list[i].batch) \/ (open /\ i = n)
        BY <1>3, <3>1 DEF Covered, n
      <3>3. CASE Followed(list, i, list[i].batch)
        <4>1. i < n /\ list[i + 1].kind = "answers" /\ list[i + 1].batch = list[i].batch
          BY <3>3 DEF Followed, n
        <4>2. i + 1 \in 1 .. n
          BY <1>1, <3>1, <4>1
        <4>3. new[i + 1] = list[i + 1]
          BY <1>1, <4>2
        <4> QED
          BY <1>1, <3>1, <4>1, <4>3 DEF Followed
      <3>4. CASE open /\ i = n
        <4>1. m.kind = "answers" /\ m.batch = list[n].batch
          BY <1>2, <1>3, <3>1, <3>4
        <4> QED
          BY <1>1, <3>1, <3>4, <4>1 DEF Followed
      <3> QED
        BY <3>2, <3>3, <3>4
    <2> QED
      BY <2>1, <2>2
  <1> QED
    BY <1>1, <1>3 DEF Covered, new

\* Whether the last message of a prefix makes calls, and what is pending then.
Asks(list, k) == k > 0 /\ list[k].kind = "calls"

Pending(list, k) == IF Asks(list, k) THEN list[k].batch ELSE 0

\* What a message has to do with the one before it.
LEMMA NextMessage ==
  ASSUME NEW list \in Seq(Message), Good(list), NEW k \in 0 .. Len(list) - 1
  PROVE  LET m == list[k + 1] IN
         /\ m \in Message /\ WellFormed(m) /\ k + 1 \in 1 .. Len(list)
         /\ k + 1 > 0 /\ (k + 1) - 1 = k
         /\ k \in Nat
         /\ Asks(list, k) => /\ list[k] = Calls(list[k].batch) /\ list[k].batch \in Nat \ {0}
                             /\ k \in 1 .. Len(list)
                             /\ m.kind = "answers" => m.batch = list[k].batch
                             /\ ~Approvals => m.kind = "answers"
         /\ m.kind = "answers" => /\ m.batch \in Nat \ {0}
                                  /\ Asks(list, k) <=> m.batch = Pending(list, k)
  <1> DEFINE m == list[k + 1]
  <1>1. Len(list) \in Nat /\ DOMAIN list = 1 .. Len(list) /\ k + 1 \in 1 .. Len(list) /\ k \in Nat
    BY LenProperties
  <1>2. m \in Message /\ WellFormed(m)
    BY <1>1 DEF Good
  <1>3. ASSUME Asks(list, k)
        PROVE  /\ list[k] = Calls(list[k].batch) /\ list[k].batch \in Nat \ {0}
               /\ k \in 1 .. Len(list) /\ Neighbours(list[k], m) /\ list[k].kind = "calls"
    <2>1. k \in 1 .. Len(list) /\ k \in 1 .. Len(list) - 1 /\ list[k].kind = "calls"
      BY <1>1, <1>3 DEF Asks
    <2>2. list[k] \in Message /\ WellFormed(list[k]) /\ Neighbours(list[k], m)
      BY <1>1, <2>1 DEF Good
    <2>3. list[k] = Calls(list[k].batch)
      BY <2>1, <2>2 DEF WellFormed
    <2>4. list[k].batch \in Nat \ {0}
      BY <2>1, <2>2, Kinds
    <2> QED
      BY <2>1, <2>2, <2>3, <2>4
  <1>4. m.kind = "answers" => m.batch \in Nat \ {0}
    BY <1>2, Kinds
  <1> HIDE DEF m
  <1>5. Asks(list, k) => /\ m.kind = "answers" => m.batch = list[k].batch
                         /\ ~Approvals => m.kind = "answers"
    BY <1>3 DEF Neighbours
  <1>6. m.kind = "answers" => (Asks(list, k) <=> m.batch = Pending(list, k))
    BY <1>3, <1>4, <1>5 DEF Pending
  <1> QED
    BY <1>1, <1>2, <1>3, <1>4, <1>5, <1>6 DEF m

\* What sanitize_messages has made of the first k messages.  A message stays unless it
\* has answers whose calls are gone.
Stays(list, k) == list[k].kind = "answers" => k > 1 /\ list[k - 1] = Calls(list[k].batch)

Sane(acc, list, k) ==
    /\ acc \in Acc /\ acc.pending = Pending(list, k) /\ (k = 0 => acc.list = <<>>)
    /\ k > 0 /\ Stays(list, k) => acc.list # <<>> /\ Last(acc.list) = list[k]
    /\ Backed(acc.list) /\ (~Approvals => Covered(acc.list, Asks(list, k)))
    /\ k > 0 /\ UserFirst(list) => acc.list # <<>> /\ acc.list[1].role = "user"

\* sanitize_messages keeps what it has found of calls and answers.
LEMMA SaneStep ==
  ASSUME NEW list \in Seq(Message), Good(list), NEW k \in 0 .. Len(list) - 1,
         NEW acc, Sane(acc, list, k)
  PROVE  Sane(SanitizeStep(acc, list[k + 1]), list, k + 1)
  <1> DEFINE m == list[k + 1]
             new == SanitizeStep(acc, m)
             j == k + 1
  <1>0. SUFFICES Sane(new, list, j)
    OBVIOUS
  <1>1. /\ m \in Message /\ WellFormed(m) /\ j \in 1 .. Len(list) /\ j > 0 /\ j - 1 = k /\ k \in Nat
        /\ Asks(list, k) => /\ list[k] = Calls(list[k].batch) /\ list[k].batch \in Nat \ {0}
                            /\ m.kind = "answers" => m.batch = list[k].batch
                            /\ ~Approvals => m.kind = "answers"
        /\ m.kind = "answers" => /\ m.batch \in Nat \ {0}
                                 /\ Asks(list, k) <=> m.batch = Pending(list, k)
    BY NextMessage
  <1>2. /\ acc \in Acc /\ acc.pending = Pending(list, k) /\ Backed(acc.list)
        /\ acc.list \in Seq(Message)
        /\ ~Approvals => Covered(acc.list, Asks(list, k))
        /\ k > 0 /\ UserFirst(list) => acc.list # <<>> /\ acc.list[1].role = "user"
    BY DEF Sane, Acc
  <1>3. Asks(list, k) => acc.list # <<>> /\ Last(acc.list) = list[k]
    BY DEF Sane, Asks, Stays
  <1>4. Asks(list, k) \in BOOLEAN
    BY DEF Asks
  <1>5. new \in Acc
    BY <1>1, <1>2, SanitizeStepTyped
  <1>51. list[j] = m /\ k + 1 = j
    OBVIOUS
  <1> HIDE DEF m, j
  <1>6. ASSUME NEW x \in Message,
               x.kind # "answers" \/ x.batch = 0 \/ (x.batch = m.batch /\ Asks(list, k)),
               x = m \/ ~Asks(list, k), x.kind = m.kind,
               m.kind = "answers" => x.role = "user",
               m.kind # "answers" => x = m
        PROVE  LET a == Append(acc.list, x) IN
               /\ a # <<>> /\ Last(a) = x /\ Backed(a)
               /\ ~Approvals => Covered(a, m.kind = "calls")
               /\ UserFirst(list) => a[1].role = "user"
    <2> DEFINE a == Append(acc.list, x)
    <2>1. a # <<>> /\ Last(a) = x
      BY <1>2, AppendIs
    <2>2. Backed(a)
      <3>1. x.kind = "answers" /\ x.batch # 0 => acc.list # <<>> /\ Last(acc.list) = Calls(x.batch)
        BY <1>1, <1>3, <1>6
      <3> QED
        BY <1>2, <3>1, BackedAppend
    <2>3. ~Approvals => Covered(a, m.kind = "calls")
      <3>1. ~Approvals /\ Asks(list, k) => x.kind = "answers" /\ x.batch = Last(acc.list).batch
        BY <1>1, <1>3, <1>6
      <3> QED
        BY <1>2, <1>4, <1>6, <3>1, CoveredAppend
    <2>4. ASSUME UserFirst(list) PROVE a[1].role = "user"
      <3>1. CASE k > 0
        <4>1. acc.list # <<>> /\ acc.list[1].role = "user" /\ Len(acc.list) \in Nat \ {0}
          BY <1>2, <2>4, <3>1, LenProperties, EmptySeq
        <4>2. 1 \in 1 .. Len(acc.list)
          BY <4>1
        <4>3. a[1] = acc.list[1]
          BY <1>2, <4>2, AppendIs
        <4> QED
          BY <4>1, <4>3
      <3>2. CASE k = 0
        <4>1. m.role = "user" /\ m.kind \in {"text", "image"} /\ x = m
          BY <1>51, <1>6, <2>4, <3>2 DEF UserFirst
        <4>2. acc.list = <<>> /\ Len(<<>>) = 0 /\ a[Len(acc.list) + 1] = x
          BY <1>2, <3>2, AppendIs DEF Sane
        <4> QED
          BY <4>1, <4>2
      <3> QED
        BY <1>1, <3>1, <3>2
    <2> QED
      BY <2>1, <2>2, <2>3, <2>4
  <1>7. Stays(list, j) /\ m.kind = "answers" => Asks(list, k) /\ list[k] = Calls(m.batch)
    BY <1>1, <1>51, Shapes DEF Stays, Asks
  <1>8. Asks(list, j) = (m.kind = "calls")
    BY <1>1, <1>51 DEF Asks
  <1>82. Covered(new.list, m.kind = "calls") = Covered(new.list, Asks(list, j))
    BY <1>8, Zenon
  <1>81. Pending(list, j) = IF m.kind = "calls" THEN m.batch ELSE 0
    BY <1>8, <1>51 DEF Pending
  <1>9. j # 0
    BY <1>1
  <1>10. ASSUME new.list = Append(acc.list, m),
                new.pending = IF m.kind = "calls" THEN m.batch ELSE 0,
                m.kind = "answers" => m.batch = acc.pending
         PROVE  Sane(new, list, j)
    <2>1. m.kind = "answers" => Asks(list, k) /\ m.role = "user"
      BY <1>1, <1>2, <1>10, Kinds
    <2>2. /\ new.list # <<>> /\ Last(new.list) = m /\ Backed(new.list)
          /\ ~Approvals => Covered(new.list, m.kind = "calls")
          /\ UserFirst(list) => new.list[1].role = "user"
      BY <1>1, <1>6, <1>10, <2>1
    <2>3. /\ new.pending = Pending(list, j)
          /\ UserFirst(list) => new.list # <<>> /\ new.list[1].role = "user"
          /\ ~Approvals => Covered(new.list, Asks(list, j))
      BY <1>10, <1>81, <1>82, <2>2
    <2> HIDE DEF new
    <2> QED
      BY <1>5, <1>51, <1>9, <2>2, <2>3 DEF Sane
  <1>11. CASE m.kind # "answers" \/ m.batch = acc.pending
    <2>1. new = [list |-> Append(acc.list, m), pending |-> IF m.kind = "calls" THEN m.batch ELSE 0]
      <3>1. m.kind \in {"text", "image", "calls", "answers"}
        BY <1>1, MessageParts
      <3> QED
        BY <1>1, <1>11, <3>1, SanitizeStepIs
    <2>2. /\ new.list = Append(acc.list, m)
          /\ new.pending = IF m.kind = "calls" THEN m.batch ELSE 0
      BY <2>1
    <2>3. m.kind = "answers" => m.batch = acc.pending
      BY <1>11
    <2> HIDE DEF new
    <2> QED
      BY <1>10, <2>2, <2>3, Zenon
  <1>12. CASE m.kind = "answers" /\ m.batch # acc.pending
    <2> DEFINE x == [m EXCEPT !.batch = 0]
    <2>1. new = [acc EXCEPT !.list = IF m.note THEN Append(@, x) ELSE @]
      BY <1>1, <1>12, SanitizeStepIs
    <2>2. ~Asks(list, k) /\ m.role = "user" /\ acc.pending = 0 /\ ~Stays(list, j)
      BY <1>1, <1>2, <1>7, <1>12, Kinds DEF Pending
    <2>3. k = 0 => ~UserFirst(list)
      BY <1>51, <1>12 DEF UserFirst
    <2>4. new.pending = 0
      BY <1>2, <2>1, <2>2 DEF Acc
    <2>5. CASE m.note
      <3>1. new.list = Append(acc.list, x)
        BY <1>2, <2>1, <2>5 DEF Acc
      <3>2. /\ x \in Message /\ x.kind = "answers" /\ x.batch = 0 /\ x.role = "user"
        BY <1>1, <1>12, <2>2, MessageParts DEF Message
      <3>3. /\ new.list # <<>> /\ Backed(new.list)
            /\ ~Approvals => Covered(new.list, FALSE)
            /\ UserFirst(list) => new.list[1].role = "user"
        BY <1>6, <1>12, <2>2, <3>1, <3>2
      <3>4. Covered(new.list, FALSE) => Covered(new.list, Asks(list, j))
        BY DEF Covered
      <3>5. Pending(list, j) = 0
        BY <1>81, <1>12
      <3> HIDE DEF new
      <3> QED
        BY <1>5, <1>9, <2>2, <2>4, <3>3, <3>4, <3>5 DEF Sane
    <2>6. CASE ~m.note
      <3>1. new.list = acc.list
        BY <1>2, <2>1, <2>6 DEF Acc
      <3>2. Pending(list, j) = 0
        BY <1>81, <1>12
      <3>3. Covered(acc.list, Asks(list, k)) => Covered(acc.list, Asks(list, j))
        BY <2>2 DEF Covered
      <3>4. UserFirst(list) => k > 0
        BY <1>1, <2>3
      <3> HIDE DEF new
      <3> QED
        BY <1>2, <1>5, <1>9, <2>2, <2>4, <3>1, <3>2, <3>3, <3>4 DEF Sane
    <2> QED
      BY <2>5, <2>6
  <1> QED
    BY <1>11, <1>12

\* The same of the whole list.
LEMMA SanitizedIs ==
  ASSUME NEW list \in Seq(Message), Good(list)
  PROVE  \E acc : Sane(acc, list, Len(list)) /\ Sanitized(list) = acc.list
  <1> DEFINE n == Len(list)
  <1>1. n \in Nat
    BY LenProperties
  <1>2. PICK F : /\ F \in [0 .. n -> Acc] /\ F[0] = Acc0
                 /\ F[n] = FoldLeft(SanitizeStep, Acc0, list)
                 /\ \A k \in 0 .. n - 1 : F[k + 1] = SanitizeStep(F[k], list[k + 1])
    BY SanitizeFolds
  <1> DEFINE S == {k \in 0 .. n : Sane(F[k], list, k)}
  <1>3. 0 \in S
    <2>1. Acc0 \in Acc /\ Acc0.list = <<>> /\ Acc0.pending = 0 /\ ~(0 > 0)
      BY DEF Acc, Acc0
    <2>2. Backed(<<>>) /\ \A open : Covered(<<>>, open)
      BY DEF Backed, Covered
    <2>3. Sane(Acc0, list, 0)
      BY <2>1, <2>2 DEF Sane, Pending, Asks
    <2> QED
      BY <1>1, <1>2, <2>3
  <1>4. ASSUME NEW k \in 0 .. n - 1, k \in S PROVE k + 1 \in S
    <2>1. k + 1 \in 0 .. n /\ Sane(F[k], list, k)
      BY <1>1, <1>4
    <2>2. Sane(SanitizeStep(F[k], list[k + 1]), list, k + 1)
      BY <2>1, SaneStep
    <2> QED
      BY <1>2, <2>1, <2>2
  <1> HIDE DEF S
  <1>5. 0 .. n \subseteq S
    BY <1>1, <1>3, <1>4, InductUpTo
  <1>6. Sane(F[n], list, n)
    BY <1>1, <1>5 DEF S
  <1> QED
    BY <1>2, <1>6 DEF Sanitized, Acc0

\* Counting, one position at a time.
LEMMA CountNext ==
  ASSUME NEW k \in Nat, NEW old \in SUBSET (1 .. k), NEW p \in BOOLEAN, NEW new,
         new = IF p THEN old \cup {k + 1} ELSE old
  PROVE  Cardinality(old) \in Nat /\ Cardinality(new) = Cardinality(old) + IF p THEN 1 ELSE 0
  <1>1. IsFiniteSet(1 .. k)
    BY FS_Interval
  <1>2. IsFiniteSet(old)
    BY <1>1, FS_Subset
  <1>3. Cardinality(old) \in Nat
    BY <1>2, FS_CardinalityType
  <1>4. k + 1 \notin old
    OBVIOUS
  <1>5. Cardinality(old \cup {k + 1}) = Cardinality(old) + 1
    BY <1>2, <1>4, FS_AddElement
  <1> QED
    BY <1>3, <1>5

Hits(list, x) == {i \in 1 .. Len(list) : list[i] = x}

\* A list has one more x if x is appended.
LEMMA HitsAppend ==
  ASSUME NEW M, NEW list \in Seq(M), NEW m \in M, NEW x
  PROVE  /\ Cardinality(Hits(list, x)) \in Nat
         /\ Cardinality(Hits(Append(list, m), x)) =
                Cardinality(Hits(list, x)) + IF m = x THEN 1 ELSE 0
  <1> DEFINE n == Len(list)
             longer == Append(list, m)
             old == Hits(list, x)
             new == Hits(longer, x)
             p == m = x
  <1>1. /\ n \in Nat /\ Len(longer) = n + 1 /\ longer[n + 1] = m
        /\ \A i \in 1 .. n : longer[i] = list[i]
    BY AppendIs
  <1> HIDE DEF n, longer
  <1>2. old = {i \in 1 .. n : list[i] = x} /\ new = {i \in 1 .. n + 1 : longer[i] = x}
    BY <1>1 DEF Hits, n
  <1>3. new = IF p THEN old \cup {n + 1} ELSE old
    <2>1. \A i : i \in 1 .. n + 1 <=> i \in 1 .. n \/ i = n + 1
      BY <1>1
    <2> QED
      BY <1>1, <1>2, <2>1
  <1>4. old \in SUBSET (1 .. n) /\ p \in BOOLEAN
    BY <1>2
  <1> HIDE DEF old, new, p
  <1>5. Cardinality(old) \in Nat /\ Cardinality(new) = Cardinality(old) + IF p THEN 1 ELSE 0
    BY <1>1, <1>3, <1>4, CountNext
  <1> QED
    BY <1>5 DEF old, new, p, longer

\* Of the first k messages, those that are texts of the user, and those with a note.
Told(list, k) == {i \in 1 .. k : list[i].note}
Says(list, k) == {i \in 1 .. k : list[i] = Text("user")}

\* One message more is one text or note more, or none.
LEMMA ToldNext ==
  ASSUME NEW list \in Seq(Message), NEW k \in 0 .. Len(list) - 1
  PROVE  /\ Cardinality(Told(list, k)) \in Nat /\ Cardinality(Says(list, k)) \in Nat
         /\ Cardinality(Told(list, k + 1)) =
                Cardinality(Told(list, k)) + IF list[k + 1].note THEN 1 ELSE 0
         /\ Cardinality(Says(list, k + 1)) =
                Cardinality(Says(list, k)) + IF list[k + 1] = Text("user") THEN 1 ELSE 0
  <1>1. k \in Nat /\ list[k + 1] \in Message
    <2>1. Len(list) \in Nat /\ k + 1 \in 1 .. Len(list)
      BY LenProperties
    <2> QED
      BY <2>1
  <1>2. list[k + 1].note \in BOOLEAN
    BY <1>1, MessageParts
  <1>3. \A i : i \in 1 .. k + 1 <=> i \in 1 .. k \/ i = k + 1
    BY <1>1
  <1> DEFINE p == list[k + 1].note
             q == list[k + 1] = Text("user")
  <1>4. Told(list, k + 1) = IF p THEN Told(list, k) \cup {k + 1} ELSE Told(list, k)
    BY <1>3 DEF Told
  <1>5. Says(list, k + 1) = IF q THEN Says(list, k) \cup {k + 1} ELSE Says(list, k)
    BY <1>3 DEF Says
  <1>6. /\ Told(list, k) \in SUBSET (1 .. k) /\ Says(list, k) \in SUBSET (1 .. k)
        /\ p \in BOOLEAN /\ q \in BOOLEAN
    BY <1>2 DEF Told, Says
  <1> HIDE DEF p, q
  <1>7. /\ Cardinality(Told(list, k)) \in Nat
        /\ Cardinality(Told(list, k + 1)) = Cardinality(Told(list, k)) + IF p THEN 1 ELSE 0
    BY <1>1, <1>4, <1>6, CountNext
  <1>8. /\ Cardinality(Says(list, k)) \in Nat
        /\ Cardinality(Says(list, k + 1)) = Cardinality(Says(list, k)) + IF q THEN 1 ELSE 0
    BY <1>1, <1>5, <1>6, CountNext
  <1> QED
    BY <1>7, <1>8 DEF p, q

\* What translate_messages_to_oai has made of the first k messages.
Conveyed(acc, list, k) ==
    /\ acc \in SentAcc /\ acc.pending = Pending(list, k)
    /\ Asks(list, k) => acc.list # <<>> /\ Last(acc.list) = list[k]
    /\ Backed(acc.list) /\ (~Approvals => Covered(acc.list, Asks(list, k)))
    /\ Cardinality(Told(list, k)) + Cardinality(Says(list, k)) =
           Cardinality(Hits(acc.list, Text("user")))

\* Answers are a message of the role tool, and a text if there is a note.
LEMMA TranslateAnswers ==
  ASSUME NEW acc \in SentAcc, NEW m \in Message, m.kind = "answers"
  PROVE  LET tool == IF m.batch = acc.pending /\ m.batch # 0
                     THEN Append(acc.list, ToolMessage(m.batch)) ELSE acc.list
         IN  TranslateStep(acc, m) =
                [list |-> IF m.note THEN Append(tool, Text("user")) ELSE tool, pending |-> 0]
  <1>1. acc.list \in Seq(Sent) /\ acc.pending \in Nat
    BY DEF SentAcc
  <1>2. ToolMessage(m.batch) \in Sent /\ Text("user") \in Sent
    BY MessageParts, Shapes DEF Sent
  <1>3. ASSUME NEW list \in Seq(Sent), NEW x \in Sent
        PROVE  /\ list \o <<x>> = Append(list, x) /\ Append(list, x) \in Seq(Sent)
               /\ list \o <<>> = list
    <2>1. <<x>> \in Seq(Sent) /\ Len(<<x>>) = 1 /\ <<x>>[1] = x
      OBVIOUS
    <2> DEFINE left == list \o <<x>>
               right == Append(list, x)
               n == Len(list)
    <2>2. /\ left \in Seq(Sent) /\ Len(left) = n + 1
          /\ \A i \in 1 .. n + 1 : left[i] = IF i <= n THEN list[i] ELSE <<x>>[i - n]
      BY <2>1, ConcatProperties
    <2>3. /\ right \in Seq(Sent) /\ Len(right) = n + 1 /\ right[n + 1] = x /\ n \in Nat
          /\ \A k \in 1 .. n : right[k] = list[k]
      BY AppendIs
    <2> HIDE DEF left, right, n
    <2>4. ASSUME NEW i \in 1 .. n + 1 PROVE left[i] = right[i]
      <3>1. CASE i = n + 1
        <4>1. ~(i <= n) /\ i - n = 1
          BY <2>3, <3>1
        <4>2. left[i] = <<x>>[1]
          BY <2>2, <4>1
        <4> QED
          BY <2>1, <2>3, <3>1, <4>2
      <3>2. CASE i # n + 1
        <4>1. i \in 1 .. n /\ i <= n
          BY <2>3, <3>2
        <4> QED
          BY <2>2, <2>3, <4>1
      <3> QED
        BY <3>1, <3>2
    <2>5. left = right
      BY <2>2, <2>3, <2>4, SeqEqual
    <2>6. list \o <<>> = list
      BY ConcatEmptySeq
    <2> QED
      BY <2>3, <2>5, <2>6 DEF left, right
  <1> DEFINE tool == IF m.batch = acc.pending /\ m.batch # 0 THEN <<ToolMessage(m.batch)>> ELSE <<>>
             text == IF m.note THEN <<Text("user")>> ELSE <<>>
             one == IF m.batch = acc.pending /\ m.batch # 0
                    THEN Append(acc.list, ToolMessage(m.batch)) ELSE acc.list
             two == IF m.note THEN Append(one, Text("user")) ELSE one
  <1>4. acc.list \o tool = one /\ one \in Seq(Sent)
    BY <1>1, <1>2, <1>3
  <1> HIDE DEF one, tool
  <1>5. one \o text = two
    BY <1>2, <1>3, <1>4
  <1> HIDE DEF text, two
  <1>6. TranslateStep(acc, m) = [list |-> (acc.list \o tool) \o text, pending |-> 0]
    BY TranslateStepIs DEF tool, text
  <1>7. TranslateStep(acc, m) = [list |-> two, pending |-> 0]
    BY <1>4, <1>5, <1>6
  <1> QED
    BY <1>7 DEF one, two

\* translate_messages_to_oai keeps the same, and loses no text and no note.
LEMMA RenderedStep ==
  ASSUME NEW list \in Seq(Message), Good(list), NEW k \in 0 .. Len(list) - 1,
         NEW acc, Conveyed(acc, list, k)
  PROVE  Conveyed(TranslateStep(acc, list[k + 1]), list, k + 1)
  <1> DEFINE m == list[k + 1]
             new == TranslateStep(acc, m)
             j == k + 1
             user == Text("user")
             count(l) == Cardinality(Hits(l, user))
             before == Cardinality(Told(list, k)) + Cardinality(Says(list, k))
             after == Cardinality(Told(list, j)) + Cardinality(Says(list, j))
  <1>0. SUFFICES Conveyed(new, list, j)
    OBVIOUS
  <1>1. /\ m \in Message /\ WellFormed(m) /\ j \in 1 .. Len(list) /\ j > 0 /\ k \in Nat
        /\ Asks(list, k) => /\ list[k] = Calls(list[k].batch) /\ list[k].batch \in Nat \ {0}
                            /\ m.kind = "answers" => m.batch = list[k].batch
                            /\ ~Approvals => m.kind = "answers"
        /\ m.kind = "answers" => /\ m.batch \in Nat \ {0}
                                 /\ Asks(list, k) <=> m.batch = Pending(list, k)
    BY NextMessage
  <1>2. /\ acc \in SentAcc /\ acc.pending = Pending(list, k) /\ Backed(acc.list)
        /\ acc.list \in Seq(Sent) /\ before = count(acc.list)
        /\ ~Approvals => Covered(acc.list, Asks(list, k))
        /\ Asks(list, k) => acc.list # <<>> /\ Last(acc.list) = list[k]
    BY DEF Conveyed, SentAcc
  <1>3. /\ before \in Nat
        /\ after = before + (IF m.note THEN 1 ELSE 0) + (IF m = user THEN 1 ELSE 0)
    <2>1. /\ Cardinality(Told(list, k)) \in Nat /\ Cardinality(Says(list, k)) \in Nat
          /\ Cardinality(Told(list, j)) = Cardinality(Told(list, k)) + IF m.note THEN 1 ELSE 0
          /\ Cardinality(Says(list, j)) = Cardinality(Says(list, k)) + IF m = user THEN 1 ELSE 0
      BY ToldNext
    <2> HIDE DEF m, j, user
    <2> QED
      BY <2>1
  <1>4. Asks(list, k) \in BOOLEAN
    BY DEF Asks
  <1>5. new \in SentAcc
    BY <1>1, <1>2, TranslateStepTyped
  <1>6. ASSUME NEW l \in Seq(Sent), NEW x \in Sent
        PROVE  /\ Append(l, x) \in Seq(Sent) /\ Append(l, x) # <<>> /\ Last(Append(l, x)) = x
               /\ count(Append(l, x)) = count(l) + IF x = user THEN 1 ELSE 0
    BY AppendIs, HitsAppend
  <1>7. list[j] = m
    OBVIOUS
  <1> HIDE DEF m, j, count, before, after
  <1>8. /\ Asks(list, j) = (m.kind = "calls")
        /\ Pending(list, j) = IF m.kind = "calls" THEN m.batch ELSE 0
    BY <1>1, <1>7 DEF Asks, Pending
  <1>9. m \in Sent /\ user \in Sent /\ user.kind = "text" /\ user.note = FALSE
    BY <1>1, Shapes DEF Sent
  <1> HIDE DEF user
  <1>10. ASSUME new.pending = Pending(list, j), Backed(new.list),
                ~Approvals => Covered(new.list, m.kind = "calls"),
                after = count(new.list),
                m.kind = "calls" => new.list # <<>> /\ Last(new.list) = m
         PROVE  Conveyed(new, list, j)
    <2>1. ~Approvals => Covered(new.list, Asks(list, j))
      BY <1>8, <1>10
    <2>2. Asks(list, j) => new.list # <<>> /\ Last(new.list) = list[j]
      BY <1>7, <1>8, <1>10
    <2> HIDE DEF new
    <2> QED
      BY <1>5, <1>10, <2>1, <2>2 DEF Conveyed, after, count, user
  <1>11. CASE m.kind # "answers"
    <2> DEFINE l == Append(acc.list, m)
    <2>1. new = [list |-> l, pending |-> m.batch]
      BY <1>1, <1>11, TranslateStepIs
    <2>2. m.note = FALSE /\ m.batch = IF m.kind = "calls" THEN m.batch ELSE 0
      BY <1>1, <1>11, Kinds
    <2>3. Backed(l)
      BY <1>2, <1>9, <1>11, BackedAppend
    <2>4. ~Approvals => Covered(l, m.kind = "calls")
      BY <1>1, <1>2, <1>4, <1>9, <1>11, CoveredAppend
    <2>5. count(l) = after
      BY <1>2, <1>3, <1>6, <1>9, <2>2
    <2>6. l # <<>> /\ Last(l) = m
      BY <1>2, <1>6, <1>9
    <2>7. new.list = l /\ new.pending = m.batch
      BY <2>1
    <2> HIDE DEF l, new
    <2> QED
      BY <1>8, <1>10, <2>2, <2>3, <2>4, <2>5, <2>6, <2>7
  <1>12. CASE m.kind = "answers"
    <2> DEFINE matched == m.batch = acc.pending /\ m.batch # 0
               t == ToolMessage(m.batch)
               one == IF matched THEN Append(acc.list, t) ELSE acc.list
               two == IF m.note THEN Append(one, user) ELSE one
    <2>1. new = [list |-> two, pending |-> 0]
      BY <1>1, <1>2, <1>12, TranslateAnswers DEF user
    <2>2. /\ t \in Sent /\ t.kind = "answers" /\ t.batch = m.batch /\ t # user
          /\ matched <=> Asks(list, k)
      <3>1. t \in Sent /\ t.kind = "answers" /\ t.batch = m.batch
        BY <1>1, <1>12 DEF ToolMessage, Sent
      <3> QED
        BY <1>1, <1>2, <1>9, <1>12, <3>1
    <2>3. m.note \in BOOLEAN /\ m # user
      BY <1>1, <1>9, <1>12, MessageParts
    <2> HIDE DEF t, matched
    <2>4. /\ one \in Seq(Sent) /\ Backed(one) /\ (~Approvals => Covered(one, FALSE))
          /\ count(one) = before
      <3>1. CASE matched
        <4>1. one = Append(acc.list, t)
          BY <3>1
        <4>2. Backed(one)
          BY <1>1, <1>2, <1>12, <2>2, <3>1, <4>1, BackedAppend
        <4>3. ~Approvals => Covered(one, t.kind = "calls")
          BY <1>1, <1>2, <1>4, <1>12, <2>2, <3>1, <4>1, CoveredAppend
        <4>4. ~Approvals => Covered(one, FALSE)
          BY <2>2, <4>3 DEF Covered
        <4>5. one \in Seq(Sent) /\ count(one) = before
          BY <1>2, <1>3, <1>6, <2>2, <4>1
        <4> QED
          BY <4>2, <4>4, <4>5
      <3>2. CASE ~matched
        <4>1. Covered(acc.list, Asks(list, k)) => Covered(acc.list, FALSE)
          BY <2>2, <3>2 DEF Covered
        <4> QED
          BY <1>2, <3>2, <4>1
      <3> QED
        BY <3>1, <3>2
    <2> HIDE DEF one
    <2>5. /\ Backed(two) /\ (~Approvals => Covered(two, FALSE)) /\ count(two) = after
      <3>1. CASE m.note
        <4>1. two = Append(one, user)
          BY <3>1
        <4>2. Backed(two)
          BY <1>9, <2>4, <4>1, BackedAppend
        <4>3. ~Approvals => Covered(two, user.kind = "calls")
          BY <1>9, <2>4, <4>1, CoveredAppend
        <4>4. ~Approvals => Covered(two, FALSE)
          BY <1>9, <4>3 DEF Covered
        <4>5. count(two) = after
          BY <1>3, <1>6, <1>9, <2>3, <2>4, <3>1, <4>1
        <4> QED
          BY <4>2, <4>4, <4>5
      <3>2. CASE ~m.note
        <4>1. two = one
          BY <3>2
        <4>2. before = after
          BY <1>3, <2>3, <3>2
        <4> QED
          BY <2>4, <4>1, <4>2
      <3> QED
        BY <2>3, <3>1, <3>2
    <2>6. new.list = two /\ new.pending = 0
      BY <2>1
    <2>7. ~Approvals => Covered(two, m.kind = "calls")
      BY <1>12, <2>5 DEF Covered
    <2> HIDE DEF two, new
    <2> QED
      BY <1>8, <1>10, <1>12, <2>5, <2>6, <2>7
  <1> QED
    BY <1>11, <1>12

\* The same of the whole list.
LEMMA TranslatedIs ==
  ASSUME NEW list \in Seq(Message), Good(list)
  PROVE  \E acc : Conveyed(acc, list, Len(list)) /\ Translated(list) = acc.list
  <1> DEFINE n == Len(list)
  <1>1. n \in Nat
    BY LenProperties
  <1>2. PICK F : /\ F \in [0 .. n -> SentAcc] /\ F[0] = Acc0
                 /\ F[n] = FoldLeft(TranslateStep, Acc0, list)
                 /\ \A k \in 0 .. n - 1 : F[k + 1] = TranslateStep(F[k], list[k + 1])
    BY TranslateFolds
  <1> DEFINE S == {k \in 0 .. n : Conveyed(F[k], list, k)}
  <1>3. 0 \in S
    <2>1. Acc0 \in SentAcc /\ Acc0.list = <<>> /\ Acc0.pending = 0 /\ ~(0 > 0)
      BY DEF SentAcc, Acc0
    <2>2. Backed(<<>>) /\ \A open : Covered(<<>>, open)
      BY DEF Backed, Covered
    <2>3. Told(list, 0) = {} /\ Says(list, 0) = {} /\ Hits(<<>>, Text("user")) = {}
      BY DEF Told, Says, Hits
    <2>4. Cardinality({}) = 0
      BY FS_EmptySet
    <2>5. Asks(list, 0) = FALSE /\ Pending(list, 0) = 0
      BY <2>1 DEF Asks, Pending
    <2>6. Cardinality(Told(list, 0)) + Cardinality(Says(list, 0)) =
             Cardinality(Hits(Acc0.list, Text("user")))
      <3>1. Cardinality(Told(list, 0)) = 0 /\ Cardinality(Says(list, 0)) = 0
        BY <2>3, <2>4, Zenon
      <3>2. Cardinality(Hits(Acc0.list, Text("user"))) = 0
        BY <2>1, <2>3, <2>4, Zenon
      <3> QED
        BY <3>1, <3>2
    <2>7. Conveyed(Acc0, list, 0)
      BY <2>1, <2>2, <2>5, <2>6 DEF Conveyed
    <2> QED
      BY <1>1, <1>2, <2>7
  <1>4. ASSUME NEW k \in 0 .. n - 1, k \in S PROVE k + 1 \in S
    <2>1. k + 1 \in 0 .. n /\ Conveyed(F[k], list, k)
      BY <1>1, <1>4
    <2>2. Conveyed(TranslateStep(F[k], list[k + 1]), list, k + 1)
      BY <2>1, RenderedStep
    <2> QED
      BY <1>2, <2>1, <2>2
  <1> HIDE DEF S
  <1>5. 0 .. n \subseteq S
    BY <1>1, <1>3, <1>4, InductUpTo
  <1>6. Conveyed(F[n], list, n)
    BY <1>1, <1>5 DEF S
  <1> QED
    BY <1>2, <1>6 DEF Translated, Acc0

-----------------------------------------------------------------------------
(* The lists that are sent.                                                 *)

\* Each part of what makes a list sendable follows from the list's shape.
LEMMA Sendable ==
  ASSUME TranscriptInv
  PROVE  /\ AnswersFollowCalls /\ NotesReachModel /\ BeginsWithUser /\ EndsWithUser
         /\ SessionIsCapped
         /\ ~Approvals => CallsAnswered
  <1>1. SessionIsCapped
    BY DEF TranscriptInv, SavedOK
  <1>2. CASE stage # "loop"
    BY <1>1, <1>2
       DEF AnswersFollowCalls, NotesReachModel, BeginsWithUser, EndsWithUser, CallsAnswered
  <1>3. CASE stage = "loop"
    <2> DEFINE n == Len(messages)
    <2>1. /\ messages \in Seq(Message) /\ Good(messages) /\ messages # <<>>
          /\ ~cut => UserFirst(messages)
          /\ Last(messages).kind # "calls"
          /\ Answerable(messages) \/ (late /\ iteration = 0)
      BY <1>3 DEF TranscriptInv, TranscriptTypeOK, TurnOK
    <2>2. PICK sane : Sane(sane, messages, n) /\ Sanitized(messages) = sane.list
      BY <2>1, SanitizedIs
    <2>3. PICK rendered : Conveyed(rendered, messages, n) /\ Translated(messages) = rendered.list
      BY <2>1, TranslatedIs
    <2> DEFINE s == Sanitized(messages)
               t == Translated(messages)
    <2>4. n \in Nat \ {0} /\ Last(messages) = messages[n] /\ DOMAIN messages = 1 .. n
      BY <2>1, LastIs, LenProperties
    <2>5. Asks(messages, n) = FALSE
      BY <2>1, <2>4 DEF Asks
    <2>6. s \in Seq(Message) /\ t \in Seq(Sent)
      BY <2>2, <2>3 DEF Sane, Conveyed, Acc, SentAcc
    <2>7. /\ Len(s) \in Nat /\ DOMAIN s = 1 .. Len(s) /\ Len(t) \in Nat /\ DOMAIN t = 1 .. Len(t)
      BY <2>6, LenProperties
    <2>8. Backed(s) /\ Backed(t)
      BY <2>2, <2>3 DEF Sane, Conveyed
    <2>9. ~Approvals => Covered(s, FALSE) /\ Covered(t, FALSE)
      BY <2>2, <2>3, <2>5 DEF Sane, Conveyed
    <2>10. ~cut => s # <<>> /\ s[1].role = "user"
      BY <2>1, <2>2, <2>4 DEF Sane
    <2>11. ASSUME Answerable(messages) PROVE Last(s).role = "user"
      <3>1. messages[n].role = "user" /\ Stays(messages, n)
        BY <2>11 DEF Answerable, Stays
      <3>2. Last(s) = messages[n]
        BY <2>2, <2>4, <3>1 DEF Sane
      <3> QED
        BY <3>1, <3>2
    <2>12. Cardinality(Told(messages, n)) + Cardinality(Says(messages, n)) =
              Cardinality(Hits(t, Text("user")))
      BY <2>3 DEF Conveyed
    <2>13. NotesReachModel
      <3>1. /\ Number(messages, LAMBDA m : m.note) = Cardinality(Told(messages, n))
            /\ Number(messages, LAMBDA m : m = Text("user")) = Cardinality(Says(messages, n))
            /\ Number(Translated(messages), LAMBDA m : m = Text("user")) =
                  Cardinality(Hits(t, Text("user")))
        BY <2>4, <2>7 DEF Number, Told, Says, Hits
      <3>2. Cardinality(Hits(t, Text("user"))) \in Nat
        <4>1. Text("user") \in Sent
          BY Shapes DEF Sent
        <4> QED
          BY <2>6, <4>1, HitsAppend
      <3> QED
        BY <2>12, <3>1, <3>2 DEF NotesReachModel
    <2> HIDE DEF s, t, n
    <2>14. AnswersFollowCalls
      BY <2>7, <2>8 DEF AnswersFollowCalls, Backed, s, t
    <2>15. ~Approvals => CallsAnswered
      BY <2>7, <2>9 DEF CallsAnswered, Covered, s, t
    <2>16. BeginsWithUser
      BY <2>10 DEF BeginsWithUser, s
    <2>17. EndsWithUser
      BY <2>1, <2>11 DEF EndsWithUser, s
    <2> QED
      BY <1>1, <2>13, <2>14, <2>15, <2>16, <2>17
  <1> QED
    BY <1>2, <1>3

\* Where no call waits for the user's approval, every list that is sent is one that a
\* provider accepts, whatever has been compacted, lost or injected.
THEOREM TranscriptSendable ==
  ASSUME ~Approvals
  PROVE  TranscriptSpec => []ListsAreSendable
  <1>1. TranscriptInv => ListsAreSendable
    BY Sendable DEF ListsAreSendable
  <1> QED
    BY <1>1, TranscriptInvariant, PTL

\* With approvals too, all of that but for the answers that a compaction may cost.
THEOREM TranscriptSendableWithApprovals ==
  TranscriptSpec =>
    [](AnswersFollowCalls /\ NotesReachModel /\ BeginsWithUser /\ EndsWithUser /\ SessionIsCapped)
  <1>1. TranscriptInv => AnswersFollowCalls /\ NotesReachModel /\ BeginsWithUser /\ EndsWithUser
                         /\ SessionIsCapped
    BY Sendable
  <1> QED
    BY <1>1, TranscriptInvariant, PTL

-----------------------------------------------------------------------------
(* The guards, from what has been executed.                                 *)

\* The tools that are called.
Tools == Range(ToolOf)

\* Calls that have been executed, and what a batch goes through.
RanCall == [call : Call, out : Outcome, said : Warning, reply : Nat, place : Nat]
Seen == [result : Content \cup {"none"}, times : Nat]
Guard == [keys : Seq(Call), same : [Call -> Seen], fails : [Tools -> Nat], ran : Seq(RanCall)]

\* The breaker's keys are, one by one and in order, executed calls that it counts, and
\* it has missed none but those before the first.
KeysOf(keys, list) ==
    /\ Len(keys) <= RepeatWindow
    /\ \E p \in [1 .. Len(keys) -> 1 .. Len(list)] :
          /\ \A a, b \in 1 .. Len(keys) : a < b => p[a] < p[b]
          /\ \A a \in 1 .. Len(keys) : list[p[a]].call = keys[a] /\ ~IsExempt(keys[a])
          /\ \A i \in 1 .. Len(list) :
                \/ IsExempt(list[i].call)
                \/ \E a \in 1 .. Len(keys) : p[a] = i
                \/ Len(keys) = RepeatWindow /\ i < p[1]

\* The counters are those of the history.
SameOf(same, list) ==
    \A c \in Call :
       /\ ToolOf[c] \notin Idempotent => same[c] = Nothing
       /\ same[c] = Nothing \/ same[c].result \in Outcome \ {"error"}
       /\ ToolOf[c] \in Idempotent =>
             \A out \in Outcome \ {"error"} :
                /\ same[c].result = out =>
                      same[c].times = Cardinality(ReturnsOf(c, out, list, Len(list)))
                /\ same[c].result # out => ReturnsOf(c, out, list, Len(list)) = {}

FailsOf(fails, list) ==
    \A t \in Tools : fails[t] = Cardinality(FailingOf(t, list, Len(list)))

\* The warnings are those that were due.
WarnedOf(list) == \A n \in 1 .. Len(list) : IsWarnedRight(list, n)

\* Every summary is what would be made of the history.
SoundGuard(g) ==
    /\ g \in Guard
    /\ KeysOf(g.keys, g.ran) /\ SameOf(g.same, g.ran) /\ FailsOf(g.fails, g.ran) /\ WarnedOf(g.ran)

\* What is assumed of the limits.
LEMMA GuardConstants ==
  /\ RepeatWindow \in Nat \ {0} /\ Limit \in Nat \ {0} /\ MaxStreak \in Nat \ {0}
  /\ MaxBatch \in Nat \ {0} /\ MaxAsked \in Nat \ {0} /\ FailureWarn \in Nat
  /\ SameResultWarn \in Nat
  /\ \A c \in Call : ToolOf[c] \in Tools
  BY LoopGuardsAssumption DEF Tools, Range

\* The list with one call more.
LEMMA AppendRan ==
  ASSUME NEW list \in Seq(RanCall), NEW x \in RanCall
  PROVE  /\ Append(list, x) \in Seq(RanCall) /\ Len(list) \in Nat
         /\ Len(Append(list, x)) = Len(list) + 1
         /\ \A i \in 1 .. Len(list) : Append(list, x)[i] = list[i] /\ list[i] \in RanCall
         /\ Append(list, x)[Len(list) + 1] = x
  BY AppendProperties, LenProperties, ElementOfSeq

\* Sets of calls that are counted are finite.
LEMMA CountedFinite ==
  ASSUME NEW list, NEW n \in Nat
  PROVE  /\ \A t : /\ IsFiniteSet(FailingOf(t, list, n)) /\ FailingOf(t, list, n) \subseteq 1 .. n
                   /\ Cardinality(FailingOf(t, list, n)) \in 0 .. n
         /\ \A c, out : /\ IsFiniteSet(ReturnsOf(c, out, list, n))
                        /\ ReturnsOf(c, out, list, n) \subseteq 1 .. n
                        /\ Cardinality(ReturnsOf(c, out, list, n)) \in 0 .. n
  <1>1. IsFiniteSet(1 .. n) /\ Cardinality(1 .. n) = n
    BY FS_Interval
  <1>2. ASSUME NEW s \in SUBSET (1 .. n)
        PROVE  IsFiniteSet(s) /\ Cardinality(s) \in 0 .. n
    <2>1. IsFiniteSet(s) /\ Cardinality(s) <= n
      BY <1>1, FS_Subset
    <2> QED
      BY <2>1, FS_CardinalityType
  <1>3. \A t : FailingOf(t, list, n) \in SUBSET (1 .. n)
    BY DEF FailingOf
  <1>4. \A c, out : ReturnsOf(c, out, list, n) \in SUBSET (1 .. n)
    BY DEF ReturnsOf
  <1> HIDE DEF FailingOf, ReturnsOf
  <1> QED
    BY <1>2, <1>3, <1>4

\* One position more in a set of positions up to n.
LEMMA OneMore ==
  ASSUME NEW n \in Nat, NEW s, s \subseteq 1 .. n, IsFiniteSet(s)
  PROVE  Cardinality(s \cup {n + 1}) = Cardinality(s) + 1
  <1>1. n + 1 \notin s
    OBVIOUS
  <1> QED
    BY <1>1, FS_AddElement

\* A call more of a tool: one failure more, or none any longer.
LEMMA FailingAppend ==
  ASSUME NEW list \in Seq(RanCall), NEW x \in RanCall, NEW t
  PROVE  LET n == Len(list)
             now == Append(list, x)
         IN  /\ \A m \in 0 .. n : FailingOf(t, now, m) = FailingOf(t, list, m)
             /\ ToolOf[x.call] # t => FailingOf(t, now, n + 1) = FailingOf(t, list, n)
             /\ ToolOf[x.call] = t /\ x.out = "error" =>
                   Cardinality(FailingOf(t, now, n + 1)) =
                      Cardinality(FailingOf(t, list, n)) + 1
             /\ ToolOf[x.call] = t /\ x.out # "error" => FailingOf(t, now, n + 1) = {}
  <1> DEFINE n == Len(list)
             now == Append(list, x)
  <1>1. n \in Nat /\ now[n + 1] = x /\ \A i \in 1 .. n : now[i] = list[i]
    BY AppendRan
  <1> HIDE DEF n, now
  <1>2. \A m \in 0 .. n : FailingOf(t, now, m) = FailingOf(t, list, m)
    BY <1>1 DEF FailingOf
  <1>3. ToolOf[x.call] # t => FailingOf(t, now, n + 1) = FailingOf(t, list, n)
    BY <1>1 DEF FailingOf
  <1>4. ASSUME ToolOf[x.call] = t /\ x.out = "error"
        PROVE  Cardinality(FailingOf(t, now, n + 1)) = Cardinality(FailingOf(t, list, n)) + 1
    <2>1. FailingOf(t, now, n + 1) = FailingOf(t, list, n) \cup {n + 1}
      BY <1>1, <1>4 DEF FailingOf
    <2>2. FailingOf(t, list, n) \subseteq 1 .. n /\ IsFiniteSet(FailingOf(t, list, n))
      BY <1>1, CountedFinite
    <2> HIDE DEF FailingOf
    <2> QED
      BY <1>1, <2>1, <2>2, OneMore
  <1>5. ToolOf[x.call] = t /\ x.out # "error" => FailingOf(t, now, n + 1) = {}
    BY <1>1 DEF FailingOf
  <1> QED
    BY <1>2, <1>3, <1>4, <1>5 DEF n, now

\* A call once more: one return more of what it returns, none of anything else.
LEMMA ReturnsAppend ==
  ASSUME NEW list \in Seq(RanCall), NEW x \in RanCall, NEW c, NEW out
  PROVE  LET n == Len(list)
             now == Append(list, x)
         IN  /\ x.call # c => ReturnsOf(c, out, now, n + 1) = ReturnsOf(c, out, list, n)
             /\ x.call = c /\ x.out = out =>
                   Cardinality(ReturnsOf(c, out, now, n + 1)) =
                      Cardinality(ReturnsOf(c, out, list, n)) + 1
             /\ x.call = c /\ x.out # out => ReturnsOf(c, out, now, n + 1) = {}
  <1> DEFINE n == Len(list)
             now == Append(list, x)
  <1>1. n \in Nat /\ now[n + 1] = x /\ \A i \in 1 .. n : now[i] = list[i]
    BY AppendRan
  <1> HIDE DEF n, now
  <1>3. x.call # c => ReturnsOf(c, out, now, n + 1) = ReturnsOf(c, out, list, n)
    BY <1>1 DEF ReturnsOf
  <1>4. ASSUME x.call = c /\ x.out = out
        PROVE  Cardinality(ReturnsOf(c, out, now, n + 1))
                  = Cardinality(ReturnsOf(c, out, list, n)) + 1
    <2>1. ReturnsOf(c, out, now, n + 1) = ReturnsOf(c, out, list, n) \cup {n + 1}
      BY <1>1, <1>4 DEF ReturnsOf
    <2>2. ReturnsOf(c, out, list, n) \subseteq 1 .. n /\ IsFiniteSet(ReturnsOf(c, out, list, n))
      BY <1>1, CountedFinite
    <2> HIDE DEF ReturnsOf
    <2> QED
      BY <1>1, <2>1, <2>2, OneMore
  <1>5. x.call = c /\ x.out # out => ReturnsOf(c, out, now, n + 1) = {}
    BY <1>1 DEF ReturnsOf
  <1> QED
    BY <1>3, <1>4, <1>5 DEF n, now

\* What came before is as it was.
LEMMA ReturnsBefore ==
  ASSUME NEW list \in Seq(RanCall), NEW x \in RanCall, NEW c, NEW out, NEW m \in 0 .. Len(list)
  PROVE  ReturnsOf(c, out, Append(list, x), m) = ReturnsOf(c, out, list, m)
  <1> DEFINE n == Len(list)
             now == Append(list, x)
  <1>1. n \in Nat /\ now[n + 1] = x /\ \A i \in 1 .. n : now[i] = list[i]
    BY AppendRan
  <1>2. m \in 0 .. n
    OBVIOUS
  <1> HIDE DEF n, now
  <1>3. ReturnsOf(c, out, now, m) = ReturnsOf(c, out, list, m)
    BY <1>1, <1>2 DEF ReturnsOf
  <1> QED
    BY <1>3 DEF now

\* The breaker's window moves on.
LEMMA KeysFull ==
  ASSUME NEW keys \in Seq(Call), NEW list \in Seq(RanCall), NEW x \in RanCall,
         KeysOf(keys, list), ~IsExempt(x.call), Len(keys) >= RepeatWindow
  PROVE  KeysOf(Append(Tail(keys), x.call), Append(list, x))
  <1> DEFINE n == Len(list)
             now == Append(list, x)
             w == Len(keys)
             next == Append(Tail(keys), x.call)
  <1>0. RepeatWindow \in Nat \ {0} /\ Len(keys) \in Nat /\ Len(keys) <= RepeatWindow
    BY GuardConstants, LenProperties DEF KeysOf
  <1>1. w = RepeatWindow /\ w \in Nat \ {0}
    BY <1>0
  <1>2. x.call \in Call
    BY DEF RanCall
  <1>3. Tail(keys) \in Seq(Call) /\ Len(Tail(keys)) = w - 1
        /\ \A a \in 1 .. w - 1 : Tail(keys)[a] = keys[a + 1]
    <2>1. keys # <<>>
      BY <1>1, EmptySeq
    <2> QED
      BY <2>1, HeadTailProperties
  <1>4. Len(next) = w /\ next[w] = x.call /\ \A a \in 1 .. w - 1 : next[a] = keys[a + 1]
    BY <1>1, <1>2, <1>3, AppendProperties
  <1>5. n \in Nat /\ Len(now) = n + 1 /\ now[n + 1] = x /\ \A i \in 1 .. n : now[i] = list[i]
    BY AppendRan
  <1>6. PICK p \in [1 .. w -> 1 .. n] :
          /\ \A a, b \in 1 .. w : a < b => p[a] < p[b]
          /\ \A a \in 1 .. w : list[p[a]].call = keys[a] /\ ~IsExempt(keys[a])
          /\ \A i \in 1 .. n :
                \/ IsExempt(list[i].call)
                \/ \E a \in 1 .. w : p[a] = i
                \/ w = RepeatWindow /\ i < p[1]
    BY DEF KeysOf
  <1> DEFINE q == [a \in 1 .. w |-> IF a = w THEN n + 1 ELSE p[a + 1]]
  <1> HIDE DEF n, now, w, next
  <1>7. q \in [1 .. w -> 1 .. n + 1]
    BY <1>1, <1>5, <1>6
  <1>8. \A a, b \in 1 .. w : a < b => q[a] < q[b]
    <2>1. ASSUME NEW a \in 1 .. w, NEW b \in 1 .. w, a < b PROVE q[a] < q[b]
      <3>1. a # w /\ a + 1 \in 1 .. w /\ p[a + 1] \in 1 .. n
        BY <1>1, <1>6, <2>1
      <3>2. CASE b = w
        BY <1>5, <3>1, <3>2
      <3>3. CASE b # w
        <4>1. b + 1 \in 1 .. w /\ a + 1 < b + 1
          BY <1>1, <2>1, <3>3
        <4> QED
          BY <1>6, <3>1, <3>3, <4>1
      <3> QED
        BY <3>2, <3>3
    <2> QED
      BY <2>1
  <1>9. \A a \in 1 .. w : now[q[a]].call = next[a] /\ ~IsExempt(next[a])
    <2>1. ASSUME NEW a \in 1 .. w, a # w PROVE now[q[a]].call = next[a] /\ ~IsExempt(next[a])
      <3>1. a + 1 \in 1 .. w /\ a \in 1 .. w - 1
        BY <1>1, <2>1
      <3>2. p[a + 1] \in 1 .. n /\ q[a] = p[a + 1]
        BY <1>6, <2>1, <3>1
      <3>3. now[q[a]] = list[p[a + 1]] /\ next[a] = keys[a + 1]
        BY <1>4, <1>5, <3>1, <3>2
      <3> QED
        BY <1>6, <3>1, <3>3
    <2>2. w \in 1 .. w /\ now[q[w]].call = next[w] /\ ~IsExempt(next[w])
      BY <1>1, <1>4, <1>5
    <2> QED
      BY <2>1, <2>2
  <1>10. ASSUME NEW i \in 1 .. n + 1
         PROVE  \/ IsExempt(now[i].call)
                \/ \E a \in 1 .. w : q[a] = i
                \/ w = RepeatWindow /\ i < q[1]
    <2>1. CASE i = n + 1
      BY <1>1, <2>1
    <2>2. CASE i # n + 1 /\ ~IsExempt(list[i].call)
      <3>1. i \in 1 .. n
        BY <1>5, <2>2
      <3>2. 1 \in 1 .. w /\ p[1] \in 1 .. n
        BY <1>1, <1>6
      <3>3. p[1] < q[1]
        <4>1. CASE w = 1
          BY <1>5, <3>2, <4>1
        <4>2. CASE w # 1
          <5>1. 2 \in 1 .. w /\ q[1] = p[2]
            BY <1>1, <4>2
          <5> QED
            BY <1>6, <3>2, <5>1
        <4> QED
          BY <4>1, <4>2
      <3>4. q[1] \in 1 .. n + 1
        BY <1>7, <3>2
      <3>5. CASE i < p[1]
        BY <1>1, <1>5, <3>2, <3>3, <3>4, <3>5
      <3>6. ASSUME NEW a \in 1 .. w, p[a] = i
            PROVE  i < q[1] \/ \E b \in 1 .. w : q[b] = i
        <4>1. CASE a = 1
          BY <3>3, <3>6, <4>1
        <4>2. CASE a # 1
          <5>1. a - 1 \in 1 .. w /\ a - 1 # w /\ (a - 1) + 1 = a
            BY <1>1, <4>2
          <5>2. q[a - 1] = i
            BY <3>6, <5>1
          <5> QED
            BY <5>1, <5>2
        <4> QED
          BY <4>1, <4>2
      <3> QED
        BY <1>1, <1>6, <2>2, <3>1, <3>5, <3>6
    <2>3. CASE i # n + 1 /\ IsExempt(list[i].call)
      BY <1>5, <2>3
    <2> QED
      BY <2>1, <2>2, <2>3
  <1> HIDE DEF q
  <1>11. KeysOf(next, now)
    <2>1. Len(next) = w /\ Len(now) = n + 1 /\ w <= RepeatWindow
      BY <1>1, <1>4, <1>5
    <2>2. \A i \in 1 .. n + 1 :
             \/ IsExempt(now[i].call)
             \/ \E a \in 1 .. w : q[a] = i
             \/ w = RepeatWindow /\ i < q[1]
      BY <1>10
    <2>3. q \in [1 .. Len(next) -> 1 .. Len(now)]
      BY <1>7, <2>1
    <2>4. \A a, b \in 1 .. Len(next) : a < b => q[a] < q[b]
      BY <1>8, <2>1
    <2>5. \A a \in 1 .. Len(next) : now[q[a]].call = next[a] /\ ~IsExempt(next[a])
      BY <1>9, <2>1
    <2>6. \A i \in 1 .. Len(now) :
             \/ IsExempt(now[i].call)
             \/ \E a \in 1 .. Len(next) : q[a] = i
             \/ Len(next) = RepeatWindow /\ i < q[1]
      BY <2>1, <2>2
    <2>7. Len(next) <= RepeatWindow
      BY <2>1
    <2> QED
      BY ONLY <2>3, <2>4, <2>5, <2>6, <2>7, Zenon DEF KeysOf
  <1> QED
    BY <1>11 DEF next, now

\* A call more, into a window that is not full.
LEMMA KeysNotFull ==
  ASSUME NEW keys \in Seq(Call), NEW list \in Seq(RanCall), NEW x \in RanCall,
         KeysOf(keys, list), ~IsExempt(x.call), ~(Len(keys) >= RepeatWindow)
  PROVE  KeysOf(Append(keys, x.call), Append(list, x))
  <1> DEFINE n == Len(list)
             now == Append(list, x)
             w == Len(keys)
             next == Append(keys, x.call)
  <1>1. RepeatWindow \in Nat \ {0} /\ w \in Nat /\ w < RepeatWindow
    BY GuardConstants, LenProperties
  <1>2. x.call \in Call
    BY DEF RanCall
  <1>4. Len(next) = w + 1 /\ next[w + 1] = x.call /\ \A a \in 1 .. w : next[a] = keys[a]
    BY <1>1, <1>2, AppendProperties
  <1>5. n \in Nat /\ Len(now) = n + 1 /\ now[n + 1] = x /\ \A i \in 1 .. n : now[i] = list[i]
    BY AppendRan
  <1>6. PICK p \in [1 .. w -> 1 .. n] :
          /\ \A a, b \in 1 .. w : a < b => p[a] < p[b]
          /\ \A a \in 1 .. w : list[p[a]].call = keys[a] /\ ~IsExempt(keys[a])
          /\ \A i \in 1 .. n :
                \/ IsExempt(list[i].call)
                \/ \E a \in 1 .. w : p[a] = i
                \/ w = RepeatWindow /\ i < p[1]
    BY DEF KeysOf
  <1> DEFINE q == [a \in 1 .. w + 1 |-> IF a = w + 1 THEN n + 1 ELSE p[a]]
  <1> HIDE DEF n, now, w, next
  <1>7. q \in [1 .. w + 1 -> 1 .. n + 1]
    BY <1>1, <1>5, <1>6
  <1>8. \A a, b \in 1 .. w + 1 : a < b => q[a] < q[b]
    <2>1. ASSUME NEW a \in 1 .. w + 1, NEW b \in 1 .. w + 1, a < b PROVE q[a] < q[b]
      <3>1. a \in 1 .. w /\ p[a] \in 1 .. n /\ q[a] = p[a]
        BY <1>1, <1>6, <2>1
      <3> QED
        BY <1>1, <1>5, <1>6, <2>1, <3>1
    <2> QED
      BY <2>1
  <1>9. \A a \in 1 .. w + 1 : now[q[a]].call = next[a] /\ ~IsExempt(next[a])
    <2>1. ASSUME NEW a \in 1 .. w PROVE now[q[a]].call = next[a] /\ ~IsExempt(next[a])
      <3>0. a \in 1 .. w + 1 /\ a # w + 1 /\ p[a] \in 1 .. n
        BY <1>1
      <3>1. p[a] \in 1 .. n /\ q[a] = p[a] /\ next[a] = keys[a]
        <4>1. q[a] = p[a]
          BY <3>0
        <4> HIDE DEF q
        <4> QED
          BY <1>4, <3>0, <4>1
      <3>2. now[p[a]] = list[p[a]]
        BY ONLY <1>5, <3>1
      <3>3. now[q[a]].call = keys[a] /\ ~IsExempt(keys[a])
        BY <1>6, <3>1, <3>2
      <3> QED
        BY <3>1, <3>3
    <2>2. now[q[w + 1]].call = next[w + 1] /\ ~IsExempt(next[w + 1])
      <3>1. q[w + 1] = n + 1
        BY <1>1
      <3> QED
        BY <1>4, <1>5, <3>1
    <2>3. \A a \in 1 .. w + 1 : a \in 1 .. w \/ a = w + 1
      BY <1>1
    <2> QED
      BY <2>1, <2>2, <2>3
  <1>10. \A i \in 1 .. n + 1 : IsExempt(now[i].call) \/ \E a \in 1 .. w + 1 : q[a] = i
    <2>1. w + 1 \in 1 .. w + 1 /\ q[w + 1] = n + 1
      BY <1>1
    <2>2. ASSUME NEW i \in 1 .. n, ~IsExempt(list[i].call)
          PROVE  \E a \in 1 .. w + 1 : q[a] = i
      <3>1. PICK a \in 1 .. w : p[a] = i
        BY <1>1, <1>6, <2>2
      <3>2. a \in 1 .. w + 1 /\ q[a] = i
        BY <1>1, <3>1
      <3> QED
        BY <3>2
    <2> QED
      BY <1>5, <2>1, <2>2
  <1> HIDE DEF q
  <1>11. KeysOf(next, now)
    <2>1. Len(next) = w + 1 /\ Len(now) = n + 1 /\ w + 1 <= RepeatWindow
      BY <1>1, <1>4, <1>5
    <2>2. \A i \in 1 .. n + 1 :
             \/ IsExempt(now[i].call)
             \/ \E a \in 1 .. w + 1 : q[a] = i
             \/ w + 1 = RepeatWindow /\ i < q[1]
      BY <1>10
    <2>3. q \in [1 .. Len(next) -> 1 .. Len(now)]
      BY <1>7, <2>1
    <2>4. \A a, b \in 1 .. Len(next) : a < b => q[a] < q[b]
      BY <1>8, <2>1
    <2>5. \A a \in 1 .. Len(next) : now[q[a]].call = next[a] /\ ~IsExempt(next[a])
      BY <1>9, <2>1
    <2>6. \A i \in 1 .. Len(now) :
             \/ IsExempt(now[i].call)
             \/ \E a \in 1 .. Len(next) : q[a] = i
             \/ Len(next) = RepeatWindow /\ i < q[1]
      BY <2>1, <2>2
    <2>7. Len(next) <= RepeatWindow
      BY <2>1
    <2> QED
      BY ONLY <2>3, <2>4, <2>5, <2>6, <2>7, Zenon DEF KeysOf
  <1> QED
    BY <1>11 DEF next, now

\* A call that does not count.
LEMMA KeysExempt ==
  ASSUME NEW keys \in Seq(Call), NEW list \in Seq(RanCall), NEW x \in RanCall,
         KeysOf(keys, list), IsExempt(x.call)
  PROVE  KeysOf(keys, Append(list, x))
  <1> DEFINE n == Len(list)
             now == Append(list, x)
             w == Len(keys)
  <1>1. w \in Nat /\ w <= RepeatWindow
    BY LenProperties DEF KeysOf
  <1>5. n \in Nat /\ Len(now) = n + 1 /\ now[n + 1] = x /\ \A i \in 1 .. n : now[i] = list[i]
    BY AppendRan
  <1>6. PICK p \in [1 .. w -> 1 .. n] :
          /\ \A a, b \in 1 .. w : a < b => p[a] < p[b]
          /\ \A a \in 1 .. w : list[p[a]].call = keys[a] /\ ~IsExempt(keys[a])
          /\ \A i \in 1 .. n :
                \/ IsExempt(list[i].call)
                \/ \E a \in 1 .. w : p[a] = i
                \/ w = RepeatWindow /\ i < p[1]
    BY DEF KeysOf
  <1> HIDE DEF n, now, w
  <1>7. p \in [1 .. w -> 1 .. n + 1] /\ \A a \in 1 .. w : now[p[a]] = list[p[a]]
    BY <1>5, <1>6
  <1>8. \A i \in 1 .. n + 1 :
           \/ IsExempt(now[i].call)
           \/ \E a \in 1 .. w : p[a] = i
           \/ w = RepeatWindow /\ i < p[1]
    BY <1>5, <1>6
  <1>9. KeysOf(keys, now)
    <2>1. /\ \A a, b \in 1 .. w : a < b => p[a] < p[b]
          /\ \A a \in 1 .. w : now[p[a]].call = keys[a] /\ ~IsExempt(keys[a])
      BY <1>6, <1>7
    <2> QED
      BY <1>1, <1>5, <1>7, <1>8, <2>1 DEF KeysOf, w
  <1> QED
    BY <1>9 DEF now

\* The keys stay calls.
LEMMA RememberTyped ==
  ASSUME NEW keys \in Seq(Call), NEW c \in Call
  PROVE  Remember(keys, c) \in Seq(Call)
  <1>1. RepeatWindow \in Nat \ {0} /\ Len(keys) \in Nat
    BY GuardConstants, LenProperties
  <1>2. Append(keys, c) \in Seq(Call)
    BY AppendProperties
  <1>3. ASSUME Len(keys) >= RepeatWindow PROVE Append(Tail(keys), c) \in Seq(Call)
    <2>1. keys # <<>>
      BY <1>1, <1>3, EmptySeq
    <2>2. Tail(keys) \in Seq(Call)
      BY <2>1, HeadTailProperties
    <2> QED
      BY <2>2, AppendProperties
  <1> QED
    BY <1>2, <1>3 DEF Remember

\* The window moves with each call that counts.
LEMMA RememberIs ==
  ASSUME NEW keys \in Seq(Call), NEW list \in Seq(RanCall), NEW x \in RanCall,
         KeysOf(keys, list)
  PROVE  KeysOf(Remember(keys, x.call), Append(list, x))
  BY KeysExempt, KeysFull, KeysNotFull DEF Remember

\* Positions in a list of n, in order.
Places(p, w, n) ==
    /\ w \in Nat /\ n \in Nat /\ p \in [1 .. w -> 1 .. n]
    /\ \A a, b \in 1 .. w : a < b => p[a] < p[b]

PlacesOf(p, s) == {p[a] : a \in s}

\* They are as many as there are of them.
LEMMA ImageSize ==
  ASSUME NEW w, NEW n, NEW p, Places(p, w, n), NEW s \in SUBSET (1 .. w)
  PROVE  /\ IsFiniteSet(PlacesOf(p, s)) /\ IsFiniteSet(s)
         /\ Cardinality(PlacesOf(p, s)) = Cardinality(s)
  <1> DEFINE T == {p[a] : a \in s}
             f == [a \in s |-> p[a]]
  <1>0. w \in Nat /\ n \in Nat /\ p \in [1 .. w -> 1 .. n]
        /\ \A a, b \in 1 .. w : a < b => p[a] < p[b]
    BY DEF Places
  <1>1. IsFiniteSet(s)
    <2>1. IsFiniteSet(1 .. w)
      BY <1>0, FS_Interval
    <2> QED
      BY <2>1, FS_Subset
  <1>2. \A a, b \in s : a # b => p[a] # p[b]
    <2>1. ASSUME NEW a \in 1 .. w, NEW b \in 1 .. w, a # b PROVE p[a] # p[b]
      <3>1. p[a] \in 1 .. n /\ p[b] \in 1 .. n
        BY <1>0
      <3>2. a < b \/ b < a
        BY <1>0, <2>1
      <3> QED
        BY <1>0, <3>1, <3>2
    <2> QED
      BY <2>1
  <1>3. f \in Bijection(s, T)
    BY <1>2 DEF Bijection, Injection, Surjection, IsInjective
  <1>4. ExistsBijection(s, T)
    BY <1>3 DEF ExistsBijection
  <1> HIDE DEF T
  <1>5. IsFiniteSet(T) /\ Cardinality(T) = Cardinality(s)
    BY <1>1, <1>4, FS_Bijection
  <1> QED
    BY <1>1, <1>5 DEF T, PlacesOf

CountedIn(list) == {i \in 1 .. Len(list) : ~IsExempt(list[i].call)}
NewestIn(list) ==
    {i \in CountedIn(list) : Cardinality({j \in CountedIn(list) : j > i}) < RepeatWindow}
NewestOf(c, list) == {i \in NewestIn(list) : list[i].call = c}

\* What the breaker counts is in its window.
LEMMA WindowIs ==
  ASSUME NEW keys \in Seq(Call), NEW list \in Seq(RanCall), KeysOf(keys, list), NEW c
  PROVE  Cardinality(NewestOf(c, list)) = Times(c, keys)
  <1> DEFINE n == Len(list)
             w == Len(keys)
             counted == CountedIn(list)
             newest == NewestIn(list)
  <1>1. n \in Nat /\ w \in Nat /\ w <= RepeatWindow /\ RepeatWindow \in Nat
    BY LenProperties, GuardConstants DEF KeysOf
  <1>2. PICK p \in [1 .. w -> 1 .. n] :
          /\ \A a, b \in 1 .. w : a < b => p[a] < p[b]
          /\ \A a \in 1 .. w : list[p[a]].call = keys[a] /\ ~IsExempt(keys[a])
          /\ \A i \in 1 .. n :
                \/ IsExempt(list[i].call)
                \/ \E a \in 1 .. w : p[a] = i
                \/ w = RepeatWindow /\ i < p[1]
    BY DEF KeysOf
  <1>200. Places(p, w, n)
    BY <1>1, <1>2 DEF Places
  <1>201. ASSUME NEW s \in SUBSET (1 .. w)
          PROVE  /\ IsFiniteSet(PlacesOf(p, s))
                 /\ Cardinality(PlacesOf(p, s)) = Cardinality(s)
    BY <1>200, ImageSize
  <1>20. DOMAIN keys = 1 .. w
    BY LenProperties
  <1>21. counted = {i \in 1 .. n : ~IsExempt(list[i].call)}
    BY DEF CountedIn
  <1>24. newest = {i \in counted : Cardinality({j \in counted : j > i}) < RepeatWindow}
    BY DEF NewestIn
  <1>25. NewestOf(c, list) = {i \in newest : list[i].call = c}
    BY DEF NewestOf
  <1> HIDE DEF n, w, counted, newest
  <1>22. counted \in SUBSET (1 .. n)
    BY <1>21
  <1>23. \A i : IsFiniteSet({j \in counted : j > i})
    <2>1. IsFiniteSet(1 .. n)
      BY <1>1, FS_Interval
    <2>2. \A i : {j \in counted : j > i} \in SUBSET (1 .. n)
      BY <1>22
    <2> QED
      BY <2>1, <2>2, FS_Subset
  <1>3. ASSUME NEW a \in 1 .. w PROVE p[a] \in newest
    <2>1. p[a] \in counted /\ p[a] \in 1 .. n
      BY <1>2, <1>21
    <2>2. {j \in counted : j > p[a]} \subseteq PlacesOf(p, 2 .. w)
      <3>1. ASSUME NEW j \in counted, j > p[a] PROVE \E b \in 2 .. w : p[b] = j
        <4>1. 1 \in 1 .. w /\ p[1] \in 1 .. n /\ j \in 1 .. n
          <5>1. 1 \in 1 .. w /\ j \in 1 .. n
            BY <1>1, <1>22
          <5> QED
            BY <1>2, <5>1
        <4>2. p[1] <= p[a]
          <5>1. CASE a = 1
            BY <2>1, <5>1
          <5>2. CASE a # 1
            <6>1. 1 < a
              BY <1>1, <5>2
            <6> QED
              BY <1>2, <2>1, <4>1, <6>1
          <5> QED
            BY <5>1, <5>2
        <4>3. ~(j < p[1])
          BY <2>1, <3>1, <4>1, <4>2
        <4>4. PICK b \in 1 .. w : p[b] = j
          BY <1>2, <1>21, <4>1, <4>3
        <4>5. b # 1
          BY <2>1, <3>1, <4>1, <4>2, <4>4
        <4>6. b \in 2 .. w
          BY <1>1, <4>4, <4>5
        <4> QED
          BY <4>4, <4>6
      <3> QED
        BY <3>1 DEF PlacesOf
    <2>3. Cardinality(PlacesOf(p, 2 .. w)) = w - 1 /\ IsFiniteSet(PlacesOf(p, 2 .. w))
      <3>1. Cardinality(2 .. w) = w - 1
        <4>1. w \in Nat /\ 1 <= w /\ w \in Int /\ 2 \in Int
          BY <1>1
        <4>2. Cardinality(2 .. w) = IF 2 > w THEN 0 ELSE w - 2 + 1
          BY <4>1, FS_Interval
        <4> QED
          BY <4>1, <4>2
      <3>2. 2 .. w \in SUBSET (1 .. w)
        BY <1>1
      <3> QED
        BY <1>201, <3>1, <3>2
    <2>4. Cardinality({j \in counted : j > p[a]}) <= w - 1
      BY <2>2, <2>3, FS_Subset
    <2>5. Cardinality({j \in counted : j > p[a]}) \in Nat
      BY <1>23, FS_CardinalityType
    <2>6. Cardinality({j \in counted : j > p[a]}) < RepeatWindow
      BY <1>1, <2>4, <2>5
    <2> QED
      BY <1>24, <2>1, <2>6
  <1>4. ASSUME NEW i \in newest PROVE \E a \in 1 .. w : p[a] = i
    <2>1. SUFFICES ASSUME \A a \in 1 .. w : p[a] # i PROVE FALSE
      OBVIOUS
    <2>2. i \in counted /\ i \in 1 .. n /\ Cardinality({j \in counted : j > i}) < RepeatWindow
      BY <1>22, <1>24
    <2>3. w = RepeatWindow /\ i < p[1]
      BY <1>2, <1>21, <2>1, <2>2
    <2>4. PlacesOf(p, 1 .. w) \subseteq {j \in counted : j > i}
      <3>1. ASSUME NEW a \in 1 .. w PROVE p[a] \in counted /\ p[a] > i
        <4>1. p[a] \in counted
          BY <1>2, <1>21
        <4>2. 1 \in 1 .. w /\ p[1] \in 1 .. n /\ p[a] \in 1 .. n
          BY <1>1, <1>2
        <4>3. p[1] <= p[a]
          <5>1. CASE a = 1
            BY <4>2, <5>1
          <5>2. CASE a # 1
            <6>1. 1 < a
              BY <1>1, <5>2
            <6> QED
              BY <1>2, <4>2, <6>1
          <5> QED
            BY <5>1, <5>2
        <4> QED
          BY <2>2, <2>3, <4>1, <4>2, <4>3
      <3> QED
        BY <3>1 DEF PlacesOf
    <2>5. Cardinality(PlacesOf(p, 1 .. w)) = w
      <3>1. Cardinality(1 .. w) = w
        <4>1. Cardinality(1 .. w) = IF 1 > w THEN 0 ELSE w - 1 + 1
          BY <1>1, FS_Interval
        <4> QED
          BY <1>1, <4>1
      <3>2. 1 .. w \in SUBSET (1 .. w)
        OBVIOUS
      <3> QED
        BY <1>201, <3>1, <3>2
    <2>6. Cardinality(PlacesOf(p, 1 .. w)) <= Cardinality({j \in counted : j > i})
      <3>1. IsFiniteSet({j \in counted : j > i})
        BY <1>23
      <3> QED
        BY <2>4, <3>1, FS_Subset
    <2>7. Cardinality({j \in counted : j > i}) \in Nat
      BY <1>23, FS_CardinalityType
    <2> QED
      BY <1>1, <2>2, <2>3, <2>5, <2>6, <2>7
  <1> DEFINE s == {a \in 1 .. w : keys[a] = c}
  <1>5. {i \in newest : list[i].call = c} = PlacesOf(p, s)
    <2>1. ASSUME NEW i \in newest, list[i].call = c PROVE \E a \in s : p[a] = i
      <3>1. PICK a \in 1 .. w : p[a] = i
        BY <1>4
      <3>2. keys[a] = c
        BY <1>2, <2>1, <3>1
      <3> QED
        BY <3>1, <3>2
    <2>2. ASSUME NEW a \in s PROVE p[a] \in newest /\ list[p[a]].call = c
      BY <1>2, <1>3
    <2> HIDE DEF s
    <2>3. \A i : i \in {j \in newest : list[j].call = c} <=> i \in PlacesOf(p, s)
      BY <2>1, <2>2 DEF PlacesOf
    <2> QED
      BY ONLY <2>3
  <1>6. Cardinality(PlacesOf(p, s)) = Cardinality(s)
    <2>1. s \in SUBSET (1 .. w)
      OBVIOUS
    <2> HIDE DEF s
    <2> QED
      BY <1>201, <2>1
  <1>7. Times(c, keys) = Cardinality(s)
    BY <1>20 DEF Times
  <1> QED
    BY <1>5, <1>6, <1>7, <1>25

\* The failures of a tool in a row, after one call more.
LEMMA FailsAfter ==
  ASSUME NEW list \in Seq(RanCall), NEW x \in RanCall, NEW fails \in [Tools -> Nat],
         FailsOf(fails, list), NEW next,
         next = [fails EXCEPT ![ToolOf[x.call]] =
                    IF x.out = "error" THEN fails[ToolOf[x.call]] + 1 ELSE 0]
  PROVE  FailsOf(next, Append(list, x))
  <1> DEFINE n == Len(list)
             now == Append(list, x)
             u == ToolOf[x.call]
  <1>1. n \in Nat /\ Len(now) = n + 1
    BY AppendRan
  <1>2. u \in Tools
    BY GuardConstants DEF RanCall
  <1> HIDE DEF u
  <1>3. next = [fails EXCEPT ![u] = IF x.out = "error" THEN fails[u] + 1 ELSE 0]
    BY DEF u
  <1>5. ASSUME NEW t \in Tools
        PROVE  next[t] = Cardinality(FailingOf(t, now, n + 1))
    <2>1. fails[t] = Cardinality(FailingOf(t, list, n)) /\ fails[t] \in Nat
      BY DEF FailsOf
    <2>2. CASE t # u
      <3>1. FailingOf(t, now, n + 1) = FailingOf(t, list, n)
        BY <2>2, FailingAppend DEF u
      <3> QED
        BY <1>2, <1>3, <2>1, <2>2, <3>1
    <2>3. CASE t = u /\ x.out = "error"
      <3>1. Cardinality(FailingOf(t, now, n + 1)) = Cardinality(FailingOf(t, list, n)) + 1
        BY <2>3, FailingAppend DEF u
      <3> QED
        BY <1>2, <1>3, <2>1, <2>3, <3>1
    <2>4. CASE t = u /\ x.out # "error"
      <3>1. FailingOf(t, now, n + 1) = {}
        BY <2>4, FailingAppend DEF u
      <3> QED
        BY <1>2, <1>3, <2>4, <3>1, FS_EmptySet
    <2> QED
      BY <2>2, <2>3, <2>4
  <1> HIDE DEF now, n
  <1>6. FailsOf(next, now)
    BY <1>1, <1>5 DEF FailsOf
  <1> QED
    BY <1>6 DEF now

\* What is known of the calls that come back with the same, after one call more.
SameAfter(same, x) ==
    IF x.out = "error" THEN [same EXCEPT ![x.call] = Nothing]
    ELSE IF ToolOf[x.call] \notin Idempotent THEN same
    ELSE [same EXCEPT ![x.call] =
             [result |-> x.out,
              times |-> IF same[x.call].result = x.out THEN same[x.call].times + 1 ELSE 1]]

\* It is known of calls.
LEMMA SameAfterTyped ==
  ASSUME NEW x \in RanCall, NEW same \in [Call -> Seen]
  PROVE  SameAfter(same, x) \in [Call -> Seen]
  <1>1. x.call \in Call /\ x.out \in Outcome
    BY DEF RanCall
  <1>2. same[x.call] \in Seen /\ same[x.call].times \in Nat /\ Nothing \in Seen
    BY <1>1 DEF Seen, Nothing
  <1> QED
    BY <1>1, <1>2 DEF SameAfter, Seen, Outcome

\* What is known is what the history says.
LEMMA SameAfterIs ==
  ASSUME NEW list \in Seq(RanCall), NEW x \in RanCall, NEW same \in [Call -> Seen],
         SameOf(same, list)
  PROVE  SameOf(SameAfter(same, x), Append(list, x))
  <1> DEFINE n == Len(list)
             now == Append(list, x)
             d == x.call
             next == SameAfter(same, x)
  <1>1. n \in Nat /\ Len(now) = n + 1
    BY AppendRan
  <1>2. d \in Call /\ x.out \in Outcome
    BY DEF RanCall
  <1>3. same[d] \in Seen /\ same[d].times \in Nat /\ Nothing \in Seen
    BY <1>2 DEF Seen, Nothing
  <1>5. \A c \in Call : c # d => next[c] = same[c]
    BY <1>2 DEF SameAfter
  <1>6. x.out = "error" => next[d] = Nothing
    BY <1>2 DEF SameAfter
  <1>7. x.out # "error" /\ ToolOf[d] \notin Idempotent => next[d] = same[d]
    BY <1>2 DEF SameAfter
  <1>8. x.out # "error" /\ ToolOf[d] \in Idempotent =>
           /\ next[d].result = x.out
           /\ next[d].times = IF same[d].result = x.out THEN same[d].times + 1 ELSE 1
    BY <1>2 DEF SameAfter
  <1> HIDE DEF next
  <1>9. ASSUME NEW c \in Call, ToolOf[c] \notin Idempotent PROVE next[c] = Nothing
    <2>1. same[c] = Nothing
      BY <1>9 DEF SameOf
    <2> QED
      BY <1>5, <1>6, <1>7, <1>9, <2>1
  <1>10. ASSUME NEW c \in Call, ToolOf[c] \in Idempotent, NEW out \in Outcome \ {"error"}
         PROVE  /\ next[c].result = out =>
                      next[c].times = Cardinality(ReturnsOf(c, out, now, n + 1))
                /\ next[c].result # out => ReturnsOf(c, out, now, n + 1) = {}
    <2>1. /\ same[c].result = out => same[c].times = Cardinality(ReturnsOf(c, out, list, n))
          /\ same[c].result # out => ReturnsOf(c, out, list, n) = {}
      BY <1>10 DEF SameOf
    <2>2. CASE c # d
      <3>1. ReturnsOf(c, out, now, n + 1) = ReturnsOf(c, out, list, n)
        BY <2>2, ReturnsAppend
      <3> QED
        BY <1>5, <2>1, <2>2, <3>1
    <2>3. CASE c = d /\ x.out = "error"
      <3>1. ReturnsOf(c, out, now, n + 1) = {}
        BY <1>10, <2>3, ReturnsAppend
      <3>2. next[c].times = 0
        BY <1>6, <2>3 DEF Nothing
      <3> QED
        BY <3>1, <3>2, FS_EmptySet
    <2>4. CASE c = d /\ x.out # "error" /\ x.out # out
      <3>1. ReturnsOf(c, out, now, n + 1) = {}
        BY <2>4, ReturnsAppend
      <3> QED
        BY <1>8, <1>10, <2>4, <3>1
    <2>5. CASE c = d /\ x.out # "error" /\ x.out = out
      <3>1. Cardinality(ReturnsOf(c, out, now, n + 1))
               = Cardinality(ReturnsOf(c, out, list, n)) + 1
        BY <2>5, ReturnsAppend
      <3>3. next[c].result = out
            /\ next[c].times = IF same[c].result = out THEN same[c].times + 1 ELSE 1
        BY <1>8, <1>10, <2>5
      <3>4. same[c].result # out => Cardinality(ReturnsOf(c, out, list, n)) = 0
        BY <2>1, FS_EmptySet
      <3>5. CASE same[c].result = out
        BY <2>1, <3>1, <3>3, <3>5
      <3>6. CASE same[c].result # out
        <4>1. next[c].times = 1 /\ Cardinality(ReturnsOf(c, out, now, n + 1)) = 0 + 1
          BY <3>1, <3>3, <3>4, <3>6
        <4> QED
          BY <3>3, <4>1
      <3> QED
        BY <3>5, <3>6
    <2> QED
      BY <2>2, <2>3, <2>4, <2>5
  <1>12. ASSUME NEW c \in Call
         PROVE  next[c] = Nothing \/ next[c].result \in Outcome \ {"error"}
    <2>1. same[c] = Nothing \/ same[c].result \in Outcome \ {"error"}
      BY DEF SameOf
    <2> QED
      BY <1>2, <1>5, <1>6, <1>7, <1>8, <2>1
  <1> HIDE DEF now, n
  <1>11. SameOf(next, now)
    BY <1>1, <1>9, <1>10, <1>12 DEF SameOf
  <1> QED
    BY <1>11 DEF next, now

\* AfterCall, by its parts.
LEMMA AfterCallIs ==
  ASSUME NEW g \in Guard, NEW x \in RanCall
  PROVE  LET after == AfterCall(g, x.call, x.out)
             t == ToolOf[x.call]
         IN  /\ after.same = SameAfter(g.same, x)
             /\ after.fails = [g.fails EXCEPT ![t] = IF x.out = "error" THEN g.fails[t] + 1 ELSE 0]
             /\ after.said = IF x.out = "error"
                             THEN IF after.fails[t] >= FailureWarn THEN "failing" ELSE "nothing"
                             ELSE IF t \in Idempotent /\ after.same[x.call].times >= SameResultWarn
                                  THEN "repeating" ELSE "nothing"
             /\ after.said \in Warning
  <1>1. x.call \in Call /\ ToolOf[x.call] \in Tools
    BY GuardConstants DEF RanCall
  <1>2. /\ g.same \in [Call -> Seen] /\ g.fails \in [Tools -> Nat]
        /\ g.same[x.call] = [result |-> g.same[x.call].result, times |-> g.same[x.call].times]
    BY <1>1 DEF Guard, Seen
  <1>3. CASE x.out = "error"
    BY <1>1, <1>2, <1>3 DEF AfterCall, SameAfter, Warning
  <1>4. CASE x.out # "error" /\ ToolOf[x.call] \notin Idempotent
    BY <1>1, <1>2, <1>4 DEF AfterCall, SameAfter, Warning
  <1>5. CASE x.out # "error" /\ ToolOf[x.call] \in Idempotent
    BY <1>1, <1>2, <1>5 DEF AfterCall, SameAfter, Warning
  <1> QED
    BY <1>3, <1>4, <1>5

\* A call that is executed.
LEMMA ExecuteStep ==
  ASSUME NEW g \in Guard, NEW x \in RanCall, ~IsCut(x.call)
  PROVE  LET next == Execute(g, x) IN
         \E e \in RanCall :
            /\ e.call = x.call /\ e.out = x.out /\ e.reply = x.reply /\ e.place = x.place
            /\ next = [keys |-> Remember(g.keys, e.call), same |-> SameAfter(g.same, e),
                       fails |-> [g.fails EXCEPT ![ToolOf[e.call]] =
                                     IF e.out = "error" THEN g.fails[ToolOf[e.call]] + 1 ELSE 0],
                       ran |-> Append(g.ran, e)]
            /\ e.said = IF e.out = "error"
                        THEN IF next.fails[ToolOf[e.call]] >= FailureWarn
                              THEN "failing" ELSE "nothing"
                        ELSE IF /\ ToolOf[e.call] \in Idempotent
                                /\ next.same[e.call].times >= SameResultWarn
                             THEN "repeating" ELSE "nothing"
  <1> DEFINE after == AfterCall(g, x.call, x.out)
             e == [x EXCEPT !.said = after.said]
             t == ToolOf[x.call]
  <1>3. /\ after.same = SameAfter(g.same, x)
        /\ after.fails = [g.fails EXCEPT ![t] = IF x.out = "error" THEN g.fails[t] + 1 ELSE 0]
        /\ after.said = IF x.out = "error"
                        THEN IF after.fails[t] >= FailureWarn THEN "failing" ELSE "nothing"
                        ELSE IF t \in Idempotent /\ after.same[x.call].times >= SameResultWarn
                             THEN "repeating" ELSE "nothing"
        /\ after.said \in Warning
    BY AfterCallIs
  <1>5. Execute(g, x) = [keys |-> Remember(g.keys, x.call), same |-> after.same,
                         fails |-> after.fails, ran |-> Append(g.ran, e)]
    BY DEF Execute
  <1> HIDE DEF after
  <1>6. e \in RanCall /\ e.call = x.call /\ e.out = x.out /\ e.said = after.said
        /\ e.reply = x.reply /\ e.place = x.place
    BY <1>3 DEF RanCall
  <1> HIDE DEF e
  <1>7. SameAfter(g.same, e) = SameAfter(g.same, x)
    BY <1>6 DEF SameAfter
  <1> DEFINE next == Execute(g, x)
  <1>8. next.fails = after.fails /\ next.same = after.same
    BY <1>5
  <1>9. next = [keys |-> Remember(g.keys, e.call), same |-> SameAfter(g.same, e),
               fails |-> [g.fails EXCEPT ![ToolOf[e.call]] =
                             IF e.out = "error" THEN g.fails[ToolOf[e.call]] + 1 ELSE 0],
               ran |-> Append(g.ran, e)]
    <2> HIDE DEF next
    <2>1. next = [keys |-> Remember(g.keys, x.call), same |-> after.same,
                 fails |-> after.fails, ran |-> Append(g.ran, e)]
      BY <1>5 DEF next
    <2> QED
      BY <1>3, <1>6, <1>7, <2>1
  <1> HIDE DEF next
  <1>10. e.said = IF e.out = "error"
                  THEN IF next.fails[ToolOf[e.call]] >= FailureWarn
                              THEN "failing" ELSE "nothing"
                  ELSE IF /\ ToolOf[e.call] \in Idempotent
                          /\ next.same[e.call].times >= SameResultWarn
                       THEN "repeating" ELSE "nothing"
    BY <1>3, <1>6, <1>8
  <1> QED
    BY <1>6, <1>9, <1>10 DEF next

\* The summaries stay within their types.
LEMMA ExecuteTyped ==
  ASSUME NEW g \in Guard, NEW x \in RanCall
  PROVE  Execute(g, x) \in Guard
  <1>1. CASE IsCut(x.call)
    BY <1>1 DEF Execute
  <1>2. CASE ~IsCut(x.call)
    <2>1. PICK e \in RanCall :
            Execute(g, x) =
               [keys |-> Remember(g.keys, e.call), same |-> SameAfter(g.same, e),
                fails |-> [g.fails EXCEPT ![ToolOf[e.call]] =
                              IF e.out = "error" THEN g.fails[ToolOf[e.call]] + 1 ELSE 0],
                ran |-> Append(g.ran, e)]
      BY <1>2, ExecuteStep
    <2>2. /\ g.keys \in Seq(Call) /\ g.same \in [Call -> Seen] /\ g.fails \in [Tools -> Nat]
          /\ g.ran \in Seq(RanCall)
      BY DEF Guard
    <2>3. e.call \in Call /\ ToolOf[e.call] \in Tools
      BY GuardConstants DEF RanCall
    <2> DEFINE fails == [g.fails EXCEPT ![ToolOf[e.call]] =
                            IF e.out = "error" THEN g.fails[ToolOf[e.call]] + 1 ELSE 0]
    <2>4. fails \in [Tools -> Nat]
      BY <2>2, <2>3
    <2> HIDE DEF fails
    <2>5. Remember(g.keys, e.call) \in Seq(Call)
      BY <2>2, <2>3, RememberTyped
    <2>6. SameAfter(g.same, e) \in [Call -> Seen]
      BY <2>2, SameAfterTyped
    <2>7. Append(g.ran, e) \in Seq(RanCall)
      BY <2>2, AppendRan
    <2>8. Execute(g, x) = [keys |-> Remember(g.keys, e.call), same |-> SameAfter(g.same, e),
                           fails |-> fails, ran |-> Append(g.ran, e)]
      BY <2>1 DEF fails
    <2> QED
      BY ONLY <2>4, <2>5, <2>6, <2>7, <2>8 DEF Guard
  <1> QED
    BY <1>1, <1>2

\* Its warning is the one that is due.
LEMMA WarnedAppend ==
  ASSUME NEW list \in Seq(RanCall), NEW e \in RanCall, WarnedOf(list),
         IsWarnedRight(Append(list, e), Len(list) + 1)
  PROVE  WarnedOf(Append(list, e))
  <1> DEFINE n == Len(list)
             now == Append(list, e)
  <1>1. /\ n \in Nat /\ Len(now) = n + 1 /\ \A i \in 1 .. n : now[i] = list[i]
    BY AppendRan
  <1>2. ASSUME NEW m \in 1 .. n PROVE IsWarnedRight(now, m)
    <2>1. IsWarnedRight(list, m)
      BY DEF WarnedOf
    <2>2. m \in 0 .. n /\ now[m] = list[m]
      BY <1>1
    <2>3. ASSUME NEW t PROVE FailingOf(t, now, m) = FailingOf(t, list, m)
      <3>1. \A k \in 0 .. n : FailingOf(t, now, k) = FailingOf(t, list, k)
        BY FailingAppend
      <3> HIDE DEF n, now
      <3> QED
        BY <2>2, <3>1
    <2>4. ASSUME NEW c, NEW out PROVE ReturnsOf(c, out, now, m) = ReturnsOf(c, out, list, m)
      BY <2>2, ReturnsBefore
    <2> HIDE DEF now
    <2> QED
      BY <2>1, <2>2, <2>3, <2>4 DEF IsWarnedRight
  <1> HIDE DEF now, n
  <1>3. \A m \in 1 .. n + 1 : m \in 1 .. n \/ m = n + 1
    BY <1>1
  <1>4. IsWarnedRight(now, n + 1)
    BY DEF now, n
  <1>5. WarnedOf(now)
    BY <1>1, <1>2, <1>3, <1>4 DEF WarnedOf
  <1> QED
    BY <1>5 DEF now

\* The summaries stay those of the history.
LEMMA ExecuteSound ==
  ASSUME NEW g, SoundGuard(g), NEW x \in RanCall
  PROVE  SoundGuard(Execute(g, x))
  <1>1. CASE IsCut(x.call)
    BY <1>1 DEF Execute
  <1>2. CASE ~IsCut(x.call)
    <2> DEFINE next == Execute(g, x)
    <2>0. g \in Guard
      BY DEF SoundGuard
    <2>1. PICK e \in RanCall :
            /\ next = [keys |-> Remember(g.keys, e.call), same |-> SameAfter(g.same, e),
                       fails |-> [g.fails EXCEPT ![ToolOf[e.call]] =
                                     IF e.out = "error" THEN g.fails[ToolOf[e.call]] + 1 ELSE 0],
                       ran |-> Append(g.ran, e)]
            /\ e.said = IF e.out = "error"
                        THEN IF next.fails[ToolOf[e.call]] >= FailureWarn
                             THEN "failing" ELSE "nothing"
                        ELSE IF /\ ToolOf[e.call] \in Idempotent
                                /\ next.same[e.call].times >= SameResultWarn
                             THEN "repeating" ELSE "nothing"
      BY <1>2, <2>0, ExecuteStep
    <2>2. next \in Guard
      BY <2>0, ExecuteTyped
    <2> HIDE DEF next
    <2>3. /\ g.keys \in Seq(Call) /\ g.same \in [Call -> Seen] /\ g.fails \in [Tools -> Nat]
          /\ g.ran \in Seq(RanCall)
      BY <2>0 DEF Guard
    <2>4. /\ KeysOf(g.keys, g.ran) /\ SameOf(g.same, g.ran) /\ FailsOf(g.fails, g.ran)
          /\ WarnedOf(g.ran)
      BY DEF SoundGuard
    <2>5. /\ next.keys = Remember(g.keys, e.call) /\ next.same = SameAfter(g.same, e)
          /\ next.fails = [g.fails EXCEPT ![ToolOf[e.call]] =
                              IF e.out = "error" THEN g.fails[ToolOf[e.call]] + 1 ELSE 0]
          /\ next.ran = Append(g.ran, e)
      BY <2>1
    <2>6. KeysOf(next.keys, next.ran)
      BY <2>3, <2>4, <2>5, RememberIs
    <2>7. SameOf(next.same, next.ran)
      BY <2>3, <2>4, <2>5, SameAfterIs
    <2>8. FailsOf(next.fails, next.ran)
      BY <2>3, <2>4, <2>5, FailsAfter
    <2>9. WarnedOf(next.ran)
      <3> DEFINE n == Len(g.ran)
      <3>1. n \in Nat /\ Len(next.ran) = n + 1 /\ next.ran[n + 1] = e
        BY <2>3, <2>5, AppendRan
      <3>2. e.call \in Call /\ e.out \in Outcome /\ ToolOf[e.call] \in Tools
        BY GuardConstants DEF RanCall
      <3> HIDE DEF n
      <3>3. next.fails[ToolOf[e.call]] = Cardinality(FailingOf(ToolOf[e.call], next.ran, n + 1))
        BY <2>8, <3>1, <3>2 DEF FailsOf
      <3>4. ASSUME e.out # "error", ToolOf[e.call] \in Idempotent
            PROVE  next.same[e.call].times
                      = Cardinality(ReturnsOf(e.call, e.out, next.ran, n + 1))
        <4>1. next.same[e.call].result = e.out
          BY <2>3, <2>5, <3>2, <3>4 DEF SameAfter
        <4>2. e.out \in Outcome \ {"error"}
          BY <3>2, <3>4
        <4> QED
          BY <2>7, <3>1, <3>2, <3>4, <4>1, <4>2 DEF SameOf
      <3>5. IsWarnedRight(next.ran, n + 1)
        <4>1. CASE e.out = "error"
          BY <2>1, <3>1, <3>3, <4>1 DEF IsWarnedRight
        <4>2. CASE e.out # "error" /\ ToolOf[e.call] \in Idempotent
          BY <2>1, <3>1, <3>4, <4>2 DEF IsWarnedRight
        <4>3. CASE e.out # "error" /\ ToolOf[e.call] \notin Idempotent
          BY <2>1, <3>1, <4>3 DEF IsWarnedRight
        <4> QED
          BY <4>1, <4>2, <4>3
      <3> QED
        BY <2>3, <2>4, <2>5, <3>5, WarnedAppend DEF n
    <2>10. SoundGuard(next)
      BY <2>2, <2>6, <2>7, <2>8, <2>9 DEF SoundGuard
    <2> QED
      BY <2>10 DEF next
  <1> QED
    BY <1>1, <1>2

\* A batch, call by call.
LEMMA ExecuteFolds ==
  ASSUME NEW first \in Guard, NEW results \in Seq(RanCall)
  PROVE  \E F : /\ F \in [0 .. Len(results) -> Guard] /\ F[0] = first
                /\ F[Len(results)] = ExecuteBatch(first, results)
                /\ \A k \in 0 .. Len(results) - 1 : F[k + 1] = Execute(F[k], results[k + 1])
  <1> DEFINE n == Len(results)
             step == [p \in Guard \X (1 .. n) |-> Execute(p[1], results[p[2]])]
             Rec(h) == h = [s \in SUBSET (1 .. n) |->
                              IF s = {} THEN first ELSE Execute(h[s \ {Max(s)}], results[Max(s)])]
             it == CHOOSE h : Rec(h)
  <1>1. n \in Nat /\ DOMAIN results = 1 .. n /\ \A i \in 1 .. n : results[i] \in RanCall
    BY LenProperties
  <1>2. ExecuteBatch(first, results) = it[1 .. n]
    BY <1>1 DEF ExecuteBatch, FoldLeft, MapThenFoldSet
  <1> HIDE DEF n
  <1>3. first \in Guard
    OBVIOUS
  <1>4. \A v \in Guard, i \in 1 .. n :
           step[<<v, i>>] = Execute(v, results[i]) /\ Execute(v, results[i]) \in Guard
    BY <1>1, ExecuteTyped
  <1>5. step \in [Guard \X (1 .. n) -> Guard]
    BY <1>4
  <1> HIDE DEF step
  <1>6. Folding(Guard, first, n, step)
    BY <1>1, <1>3, <1>5 DEF Folding
  <1>61. PICK h : Iterates(h, Guard, first, n, step)
    BY ONLY <1>6, IterExists
  <1>7. Rec(h)
    <2>0. h \in [SUBSET (1 .. n) -> Guard]
      BY <1>61 DEF Iterates
    <2>1. ASSUME NEW s \in SUBSET (1 .. n), s # {}
          PROVE  step[<<h[s \ {Max(s)}], Max(s)>>] = Execute(h[s \ {Max(s)}], results[Max(s)])
      <3>1. Max(s) \in 1 .. n /\ s \ {Max(s)} \in SUBSET (1 .. n)
        BY <1>1, <2>1, MaxIn
      <3>2. h[s \ {Max(s)}] \in Guard
        BY <2>0, <3>1
      <3> QED
        BY <1>4, <3>1, <3>2
    <2>2. \A s \in SUBSET (1 .. n) :
             h[s] = IF s = {} THEN first ELSE Execute(h[s \ {Max(s)}], results[Max(s)])
      BY <1>61, <2>1 DEF Iterates
    <2> QED
      BY <2>0, <2>2
  <1>8. Rec(it)
    BY <1>7
  <1> HIDE DEF it
  <1>9. it[{}] = first
    BY <1>8
  <1>10. ASSUME NEW k \in 0 .. n - 1, it[1 .. k] \in Guard
         PROVE  it[1 .. k + 1] = Execute(it[1 .. k], results[k + 1])
    <2>1. 1 .. k + 1 \in SUBSET (1 .. n)
      BY <1>1
    <2>2. 1 .. k + 1 # {} /\ Max(1 .. k + 1) = k + 1 /\ (1 .. k + 1) \ {k + 1} = 1 .. k
      <3>1. k \in Nat
        BY <1>1
      <3> QED
        BY ONLY <3>1, TakeTop
    <2>3. it[1 .. k + 1] = Execute(it[(1 .. k + 1) \ {Max(1 .. k + 1)}], results[Max(1 .. k + 1)])
      BY <1>8, <2>1, <2>2
    <2> QED
      BY <2>2, <2>3
  <1>11. \A k \in 0 .. n - 1 : it[1 .. k] \in Guard => it[1 .. k + 1] = step[<<it[1 .. k], k + 1>>]
    BY <1>1, <1>4, <1>10
  <1>14. Iterated(it, Guard, first, n, step)
    BY <1>9, <1>11 DEF Iterated
  <1>12. PICK F : GoesThrough(F, Guard, first, n, step) /\ ComesTo(F, it, n)
    BY ONLY <1>6, <1>14, FoldPrefixes
  <1>13. \A k \in 0 .. n - 1 : F[k + 1] = Execute(F[k], results[k + 1])
    <2>1. ASSUME NEW k \in 0 .. n - 1 PROVE F[k] \in Guard /\ k + 1 \in 1 .. n
      BY <1>1, <1>12 DEF GoesThrough
    <2> QED
      BY <1>4, <1>12, <2>1 DEF GoesThrough
  <1> QED
    BY <1>2, <1>12, <1>13 DEF n, GoesThrough, ComesTo

-----------------------------------------------------------------------------
(* The guards, response by response.                                        *)

\* A response counts for at least its calls.
LEMMA SizeIs ==
  ASSUME NEW asked \in Seq(Call)
  PROVE  Size(asked) \in Nat /\ Len(asked) <= Size(asked)
  BY LenProperties DEF Size

\* How much has been asked for, response by response.
LEMMA TotalFolds ==
  ASSUME NEW list \in Seq(Seq(Call))
  PROVE  \E F : /\ F \in [0 .. Len(list) -> Nat] /\ F[0] = 0
                /\ F[Len(list)] = Total(list)
                /\ \A k \in 0 .. Len(list) - 1 : F[k + 1] = F[k] + Size(list[k + 1])
  <1> DEFINE n == Len(list)
             step == [p \in Nat \X (1 .. n) |-> p[1] + Size(list[p[2]])]
             Rec(h) == h = [s \in SUBSET (1 .. n) |->
                              IF s = {} THEN 0 ELSE h[s \ {Max(s)}] + Size(list[Max(s)])]
             it == CHOOSE h : Rec(h)
  <1>1. n \in Nat /\ DOMAIN list = 1 .. n /\ \A i \in 1 .. n : list[i] \in Seq(Call)
    BY LenProperties
  <1>2. Total(list) = it[1 .. n]
    BY <1>1 DEF Total, FoldLeft, MapThenFoldSet
  <1> HIDE DEF n
  <1>3. 0 \in Nat
    OBVIOUS
  <1>4. \A v \in Nat, i \in 1 .. n :
           step[<<v, i>>] = v + Size(list[i]) /\ v + Size(list[i]) \in Nat
    <2>1. \A i \in 1 .. n : Size(list[i]) \in Nat
      BY <1>1, SizeIs
    <2> QED
      BY <2>1
  <1>5. step \in [Nat \X (1 .. n) -> Nat]
    BY <1>4
  <1> HIDE DEF step
  <1>6. Folding(Nat, 0, n, step)
    BY <1>1, <1>3, <1>5 DEF Folding
  <1>61. PICK h : Iterates(h, Nat, 0, n, step)
    BY ONLY <1>6, IterExists
  <1>7. Rec(h)
    <2>0. h \in [SUBSET (1 .. n) -> Nat]
      BY <1>61 DEF Iterates
    <2>1. ASSUME NEW s \in SUBSET (1 .. n), s # {}
          PROVE  step[<<h[s \ {Max(s)}], Max(s)>>] = h[s \ {Max(s)}] + Size(list[Max(s)])
      <3>1. Max(s) \in 1 .. n /\ s \ {Max(s)} \in SUBSET (1 .. n)
        BY <1>1, <2>1, MaxIn
      <3>2. h[s \ {Max(s)}] \in Nat
        BY <2>0, <3>1
      <3> QED
        BY <1>4, <3>1, <3>2
    <2>2. \A s \in SUBSET (1 .. n) :
             h[s] = IF s = {} THEN 0 ELSE h[s \ {Max(s)}] + Size(list[Max(s)])
      BY <1>61, <2>1 DEF Iterates
    <2> QED
      BY <2>0, <2>2
  <1>8. Rec(it)
    BY <1>7
  <1> HIDE DEF it
  <1>9. it[{}] = 0
    BY <1>8
  <1>10. ASSUME NEW k \in 0 .. n - 1, it[1 .. k] \in Nat
         PROVE  it[1 .. k + 1] = it[1 .. k] + Size(list[k + 1])
    <2>1. 1 .. k + 1 \in SUBSET (1 .. n)
      BY <1>1
    <2>2. 1 .. k + 1 # {} /\ Max(1 .. k + 1) = k + 1 /\ (1 .. k + 1) \ {k + 1} = 1 .. k
      <3>1. k \in Nat
        BY <1>1
      <3> QED
        BY ONLY <3>1, TakeTop
    <2>3. it[1 .. k + 1] = it[(1 .. k + 1) \ {Max(1 .. k + 1)}] + Size(list[Max(1 .. k + 1)])
      BY <1>8, <2>1, <2>2
    <2> QED
      BY <2>2, <2>3
  <1>11. \A k \in 0 .. n - 1 : it[1 .. k] \in Nat => it[1 .. k + 1] = step[<<it[1 .. k], k + 1>>]
    <2>1. ASSUME NEW k \in 0 .. n - 1, it[1 .. k] \in Nat
          PROVE  it[1 .. k + 1] = step[<<it[1 .. k], k + 1>>]
      <3>1. k + 1 \in 1 .. n
        BY <1>1
      <3> QED
        BY <1>4, <1>10, <2>1, <3>1
    <2> QED
      BY <2>1
  <1>14. Iterated(it, Nat, 0, n, step)
    BY <1>9, <1>11 DEF Iterated
  <1>12. PICK F : GoesThrough(F, Nat, 0, n, step) /\ ComesTo(F, it, n)
    BY ONLY <1>6, <1>14, FoldPrefixes
  <1>13. \A k \in 0 .. n - 1 : F[k + 1] = F[k] + Size(list[k + 1])
    <2>1. ASSUME NEW k \in 0 .. n - 1 PROVE F[k] \in Nat /\ k + 1 \in 1 .. n
      BY <1>1, <1>12 DEF GoesThrough
    <2> QED
      BY <1>4, <1>12, <2>1 DEF GoesThrough
  <1> QED
    BY <1>2, <1>12, <1>13 DEF n, GoesThrough, ComesTo

\* A response more adds what it counts for.
LEMMA TotalAppend ==
  ASSUME NEW list \in Seq(Seq(Call)), NEW asked \in Seq(Call)
  PROVE  Total(list) \in Nat /\ Total(Append(list, asked)) = Total(list) + Size(asked)
  <1> DEFINE n == Len(list)
             now == Append(list, asked)
  <1>1. /\ n \in Nat /\ Len(now) = n + 1 /\ now \in Seq(Seq(Call))
        /\ \A i \in 1 .. n : now[i] = list[i]
        /\ now[n + 1] = asked
    BY AppendProperties, LenProperties
  <1>2. PICK F : /\ F \in [0 .. n -> Nat] /\ F[0] = 0 /\ F[n] = Total(list)
                 /\ \A k \in 0 .. n - 1 : F[k + 1] = F[k] + Size(list[k + 1])
    BY TotalFolds
  <1> HIDE DEF n, now
  <1>3. PICK G : /\ G \in [0 .. n + 1 -> Nat] /\ G[0] = 0 /\ G[n + 1] = Total(now)
                 /\ \A k \in 0 .. n : G[k + 1] = G[k] + Size(now[k + 1])
    <2>1. PICK G : /\ G \in [0 .. Len(now) -> Nat] /\ G[0] = 0 /\ G[Len(now)] = Total(now)
                   /\ \A k \in 0 .. Len(now) - 1 : G[k + 1] = G[k] + Size(now[k + 1])
      BY <1>1, TotalFolds
    <2>2. Len(now) = n + 1 /\ Len(now) - 1 = n
      BY <1>1
    <2> QED
      BY <2>1, <2>2
  <1> DEFINE S == {k \in 0 .. n : F[k] = G[k]}
  <1>4. 0 \in S
    BY <1>1, <1>2, <1>3
  <1>5. ASSUME NEW k \in 0 .. n - 1, k \in S PROVE k + 1 \in S
    <2>1. k \in 0 .. n /\ k + 1 \in 0 .. n /\ now[k + 1] = list[k + 1]
      BY <1>1
    <2> QED
      BY <1>2, <1>3, <1>5, <2>1
  <1>6. n \in S
    <2> HIDE DEF S
    <2>1. 0 .. n \subseteq S
      BY <1>1, <1>4, <1>5, InductUpTo
    <2> QED
      BY <1>1, <2>1
  <1>7. F[n] = G[n] /\ n \in 0 .. n
    BY <1>1, <1>6
  <1>8. F[n] \in Nat /\ G[n + 1] = G[n] + Size(asked)
    BY <1>1, <1>2, <1>3, <1>7
  <1> QED
    BY <1>2, <1>3, <1>7, <1>8 DEF now

\* What a batch has done after its first k calls.
Batched(g, first, results, k) ==
    /\ SoundGuard(g)
    /\ Len(first.ran) <= Len(g.ran) /\ Len(g.ran) <= Len(first.ran) + k
    /\ \A i \in 1 .. Len(first.ran) : g.ran[i] = first.ran[i]
    /\ \A i \in Len(first.ran) + 1 .. Len(g.ran) :
          \E j \in 1 .. k :
             /\ g.ran[i].reply = results[j].reply /\ g.ran[i].place = results[j].place
             /\ ~IsCut(results[j].call)
    /\ \A j \in 1 .. k : IsCut(results[j].call) \/
          \E i \in 1 .. Len(g.ran) :
             g.ran[i].reply = results[j].reply /\ g.ran[i].place = results[j].place

\* The calls of a batch that are not cut are executed, once and for all.
LEMMA BatchIs ==
  ASSUME NEW first, SoundGuard(first), NEW results \in Seq(RanCall)
  PROVE  Batched(ExecuteBatch(first, results), first, results, Len(results))
  <1> DEFINE n == Len(results)
             last == ExecuteBatch(first, results)
  <1>0. first \in Guard /\ n \in Nat /\ \A i \in 1 .. n : results[i] \in RanCall
    BY LenProperties, ElementOfSeq DEF SoundGuard
  <1>1. PICK F : /\ F \in [0 .. n -> Guard] /\ F[0] = first /\ F[n] = last
                 /\ \A k \in 0 .. n - 1 : F[k + 1] = Execute(F[k], results[k + 1])
    <2>1. first \in Guard
      BY DEF SoundGuard
    <2> QED
      BY ONLY <2>1, results \in Seq(RanCall), ExecuteFolds
  <1> HIDE DEF n, last
  <1>01. \A g \in Guard : g.ran \in Seq(RanCall) /\ Len(g.ran) \in Nat
    BY LenProperties DEF Guard
  <1> DEFINE S == {k \in 0 .. n : Batched(F[k], first, results, k)}
  <1>2. 0 \in S
    <2>1. Len(first.ran) \in Nat
      BY <1>0, <1>01
    <2>2. Batched(first, first, results, 0)
      BY <2>1 DEF Batched
    <2> QED
      BY <1>0, <1>1, <2>2
  <1>3. ASSUME NEW k \in 0 .. n - 1, k \in S PROVE k + 1 \in S
    <2> DEFINE g == F[k]
               next == F[k + 1]
               x == results[k + 1]
               m == Len(g.ran)
               b == Len(first.ran)
    <2>1. k \in 0 .. n /\ k + 1 \in 0 .. n /\ k + 1 \in 1 .. n /\ k \in Nat
      BY <1>0
    <2>2. g \in Guard /\ x \in RanCall /\ next = Execute(g, x) /\ Batched(g, first, results, k)
      BY <1>0, <1>1, <1>3, <2>1
    <2>3. m \in Nat /\ b \in Nat /\ g.ran \in Seq(RanCall)
      BY <1>0, <1>01, <2>2
    <2>5. SoundGuard(next)
      BY <2>2, ExecuteSound DEF Batched
    <2> HIDE DEF g, next, x
    <2>4. /\ b <= m /\ m <= b + k
          /\ \A i \in 1 .. b : g.ran[i] = first.ran[i]
          /\ \A i \in b + 1 .. m :
                \E j \in 1 .. k : /\ g.ran[i].reply = results[j].reply
                                  /\ g.ran[i].place = results[j].place
                                  /\ ~IsCut(results[j].call)
          /\ \A j \in 1 .. k : IsCut(results[j].call) \/
                \E i \in 1 .. m : /\ g.ran[i].reply = results[j].reply
                                  /\ g.ran[i].place = results[j].place
      BY <2>2 DEF Batched
    <2>6. x = results[k + 1]
      BY DEF x
    <2>7. \A j \in 1 .. k + 1 : j \in 1 .. k \/ j = k + 1
      BY <2>1
    <2>8. \A j \in 1 .. k : j \in 1 .. k + 1
      BY <2>1
    <2>9. k + 1 \in 1 .. k + 1
      BY <2>1
    <2> HIDE DEF b, m
    <2>10. CASE IsCut(x.call)
      <3>1. next = g
        BY <2>2, <2>10 DEF Execute
      <3>2. m <= b + (k + 1)
        BY <2>1, <2>3, <2>4
      <3>3. \A i \in b + 1 .. m :
               \E j \in 1 .. k + 1 : /\ g.ran[i].reply = results[j].reply
                                     /\ g.ran[i].place = results[j].place
                                     /\ ~IsCut(results[j].call)
        BY ONLY <2>4, <2>8
      <3>4. \A j \in 1 .. k + 1 : IsCut(results[j].call) \/
               \E i \in 1 .. m : /\ g.ran[i].reply = results[j].reply
                                 /\ g.ran[i].place = results[j].place
        BY ONLY <2>4, <2>6, <2>7, <2>10
      <3>5. Batched(g, first, results, k + 1)
        BY <2>4, <2>5, <3>1, <3>2, <3>3, <3>4 DEF Batched, b, m
      <3> QED
        BY <2>1, <3>1, <3>5 DEF next
    <2>11. CASE ~IsCut(x.call)
      <3>1. PICK e \in RanCall : /\ e.reply = x.reply /\ e.place = x.place
                                 /\ next.ran = Append(g.ran, e)
        <4>1. PICK e \in RanCall :
                /\ e.reply = x.reply /\ e.place = x.place
                /\ Execute(g, x) =
                      [keys |-> Remember(g.keys, e.call), same |-> SameAfter(g.same, e),
                       fails |-> [g.fails EXCEPT ![ToolOf[e.call]] =
                                     IF e.out = "error" THEN g.fails[ToolOf[e.call]] + 1 ELSE 0],
                       ran |-> Append(g.ran, e)]
          BY <2>2, <2>11, ExecuteStep
        <4>2. next.ran = Append(g.ran, e)
          BY <2>2, <4>1
        <4> QED
          BY <4>1, <4>2
      <3>2. /\ Len(next.ran) = m + 1 /\ next.ran[m + 1] = e
            /\ \A i \in 1 .. m : next.ran[i] = g.ran[i]
        BY <2>3, <3>1, AppendRan DEF m
      <3>3. b <= m + 1 /\ m + 1 <= b + (k + 1) /\ m + 1 \in 1 .. m + 1
        BY <2>1, <2>3, <2>4
      <3>4. \A i \in 1 .. b : next.ran[i] = first.ran[i]
        <4>1. ASSUME NEW i \in 1 .. b PROVE i \in 1 .. m
          BY <2>3, <2>4
        <4> QED
          BY <2>4, <3>2, <4>1
      <3>5. ASSUME NEW i \in b + 1 .. m + 1
            PROVE  \E j \in 1 .. k + 1 : /\ next.ran[i].reply = results[j].reply
                                         /\ next.ran[i].place = results[j].place
                                         /\ ~IsCut(results[j].call)
        <4>1. CASE i = m + 1
          BY ONLY <2>6, <2>9, <2>11, <3>1, <3>2, <4>1
        <4>2. CASE i # m + 1
          <5>1. i \in b + 1 .. m /\ i \in 1 .. m
            BY <2>3, <4>2
          <5>2. PICK j \in 1 .. k : /\ g.ran[i].reply = results[j].reply
                                    /\ g.ran[i].place = results[j].place
                                    /\ ~IsCut(results[j].call)
            BY <2>4, <5>1
          <5>3. j \in 1 .. k + 1 /\ next.ran[i] = g.ran[i]
            BY <2>8, <3>2, <5>1
          <5> QED
            BY ONLY <5>2, <5>3
        <4> QED
          BY <4>1, <4>2
      <3>6. ASSUME NEW j \in 1 .. k + 1, ~IsCut(results[j].call)
            PROVE  \E i \in 1 .. m + 1 : /\ next.ran[i].reply = results[j].reply
                                         /\ next.ran[i].place = results[j].place
        <4>1. CASE j = k + 1
          BY ONLY <2>6, <3>1, <3>2, <3>3, <4>1
        <4>2. CASE j # k + 1
          <5>1. PICK i \in 1 .. m : /\ g.ran[i].reply = results[j].reply
                                    /\ g.ran[i].place = results[j].place
            BY <2>4, <2>7, <3>6, <4>2
          <5>2. i \in 1 .. m + 1 /\ next.ran[i] = g.ran[i]
            BY <2>3, <3>2
          <5> QED
            BY ONLY <5>1, <5>2
        <4> QED
          BY <4>1, <4>2
      <3>7. Batched(next, first, results, k + 1)
        BY <2>5, <3>2, <3>3, <3>4, <3>5, <3>6 DEF Batched, b
      <3> QED
        BY <2>1, <3>7 DEF next
    <2> QED
      BY <2>10, <2>11
  <1>4. n \in S
    <2> HIDE DEF S
    <2>1. 0 .. n \subseteq S
      BY <1>0, <1>2, <1>3, InductUpTo
    <2> QED
      BY <1>0, <2>1
  <1> QED
    BY <1>1, <1>4 DEF last, n

\* The summaries, as one.
Now == [keys |-> recentCalls, same |-> noProgress, fails |-> failures, ran |-> ran]

\* The history is one of responses of the model.
HistoryOK ==
    /\ replies \in Seq(Seq(Call)) /\ Total(replies) <= MaxAsked /\ Len(ran) <= Total(replies)
    /\ \A i \in 1 .. Len(ran) : ran[i].reply \in 1 .. Len(replies) /\ ran[i].place \in 1 .. MaxBatch

\* The streak counts the last responses back to the first that is different.
StreakOK ==
    /\ lastAsked \in Seq(Call) /\ streak \in 0 .. MaxStreak /\ turnEnded \in BOOLEAN
    /\ turnEnded <=> streak = MaxStreak
    /\ lastAsked = <<>> <=> streak = 0
    /\ streak <= Len(replies)
    /\ replies # <<>> => replies[Len(replies)] = lastAsked
    /\ \A i \in 0 .. streak - 1 : replies[Len(replies) - i] = lastAsked
    /\ streak # 0 /\ streak < Len(replies) => replies[Len(replies) - streak] # lastAsked

GuardsInv == SoundGuard(Now) /\ HistoryOK /\ StreakOK /\ BreakerExact

\* What is sound of them all is of each.
LEMMA NowIs ==
  ASSUME SoundGuard(Now)
  PROVE  /\ recentCalls \in Seq(Call) /\ noProgress \in [Call -> Seen]
         /\ failures \in [Tools -> Nat] /\ ran \in Seq(RanCall) /\ Len(ran) \in Nat
         /\ KeysOf(recentCalls, ran) /\ SameOf(noProgress, ran) /\ FailsOf(failures, ran)
         /\ WarnedOf(ran)
  <1>1. Now \in Guard /\ Now.keys = recentCalls /\ Now.same = noProgress
        /\ Now.fails = failures /\ Now.ran = ran
    BY DEF SoundGuard, Now
  <1>2. /\ KeysOf(Now.keys, Now.ran) /\ SameOf(Now.same, Now.ran) /\ FailsOf(Now.fails, Now.ran)
        /\ WarnedOf(Now.ran)
    BY DEF SoundGuard
  <1> HIDE DEF Now
  <1>3. ran \in Seq(RanCall)
    BY <1>1 DEF Guard
  <1> QED
    BY <1>1, <1>2, <1>3, LenProperties DEF Guard

\* A response of the model.
LEMMA BatchesAre ==
  ASSUME NEW asked \in Batches
  PROVE  /\ asked \in Seq(Call) /\ Len(asked) \in 1 .. MaxBatch
         /\ DOMAIN asked = 1 .. Len(asked) /\ \A k \in 1 .. Len(asked) : asked[k] \in Call
  <1>1. PICK m \in 0 .. MaxBatch : asked \in [1 .. m -> Call]
    BY DEF Batches, BoundedSeq, SeqOf
  <1>2. MaxBatch \in Nat /\ m \in Nat
    BY GuardConstants, <1>1
  <1>3. asked \in Seq(Call) /\ Len(asked) = m
    BY <1>1, <1>2
  <1>4. m # 0
    BY <1>1, <1>2, <1>3, EmptySeq DEF Batches
  <1> QED
    BY <1>1, <1>2, <1>3, <1>4

\* The turn begins with nothing.
LEMMA GuardsInitInv ==
  ASSUME GuardsInit
  PROVE  GuardsInv
  <1>1. /\ recentCalls = <<>> /\ lastAsked = <<>> /\ streak = 0 /\ turnEnded = FALSE
        /\ replies = <<>> /\ ran = <<>>
        /\ noProgress = [c \in Call |-> Nothing] /\ failures = [t \in Tools |-> 0]
    BY DEF GuardsInit, Tools
  <1>3. \A c, out : ReturnsOf(c, out, <<>>, 0) = {}
    BY DEF ReturnsOf
  <1>4. \A t : FailingOf(t, <<>>, 0) = {}
    BY DEF FailingOf
  <1>5. SoundGuard(Now)
    <2>1. Now \in Guard
      BY <1>1 DEF Now, Guard, Seen, Nothing
    <2>2. KeysOf(<<>>, <<>>)
      <3> DEFINE p == [a \in 1 .. 0 |-> 1]
      <3>1. p \in [1 .. 0 -> 1 .. 0] /\ Len(<<>>) = 0 /\ 1 .. 0 = {}
        OBVIOUS
      <3> HIDE DEF p
      <3>2. 0 <= RepeatWindow
        BY GuardConstants
      <3> QED
        BY <3>1, <3>2 DEF KeysOf
    <2>3. SameOf(noProgress, <<>>)
      <3>1. \A c \in Call : noProgress[c] = Nothing
        BY <1>1
      <3>2. Cardinality({}) = 0 /\ Nothing.times = 0 /\ Len(<<>>) = 0
        BY FS_EmptySet DEF Nothing
      <3> QED
        BY <1>3, <3>1, <3>2 DEF SameOf
    <2>4. FailsOf(failures, <<>>)
      <3>1. Cardinality({}) = 0 /\ Len(<<>>) = 0
        BY FS_EmptySet
      <3> QED
        BY <1>1, <1>4, <3>1 DEF FailsOf
    <2>5. WarnedOf(<<>>)
      BY DEF WarnedOf
    <2> QED
      BY <1>1, <2>1, <2>2, <2>3, <2>4, <2>5 DEF SoundGuard, Now
  <1>6. HistoryOK
    <2>1. PICK F : F \in [0 .. 0 -> Nat] /\ F[0] = 0 /\ F[0] = Total(<<>>)
      <3>1. <<>> \in Seq(Seq(Call)) /\ Len(<<>>) = 0
        OBVIOUS
      <3>2. \E F : F \in [0 .. Len(<<>>) -> Nat] /\ F[0] = 0 /\ F[Len(<<>>)] = Total(<<>>)
        BY <3>1, TotalFolds
      <3> QED
        BY <3>1, <3>2
    <2>2. Total(replies) = 0
      BY <1>1, <2>1
    <2> QED
      BY <1>1, <2>2, GuardConstants DEF HistoryOK
  <1>7. StreakOK
    <2>1. Len(<<>>) = 0 /\ MaxStreak \in Nat \ {0} /\ <<>> \in Seq(Call) /\ 0 .. 0 - 1 = {}
      BY GuardConstants
    <2> QED
      <3>1. streak # MaxStreak /\ streak \in 0 .. MaxStreak /\ streak <= Len(replies)
        BY <1>1, <2>1
      <3>2. \A i \in 0 .. streak - 1 : replies[Len(replies) - i] = lastAsked
        BY <1>1, <2>1
      <3> QED
        BY <1>1, <2>1, <3>1, <3>2 DEF StreakOK
  <1>8. BreakerExact
    BY <1>1 DEF BreakerExact
  <1> QED
    BY <1>5, <1>6, <1>7, <1>8 DEF GuardsInv

\* The streak, after a response with calls.
LEMMA StreakNext ==
  ASSUME StreakOK, HistoryOK, ~turnEnded, NEW asked \in Batches,
         lastAsked' = asked, streak' = NextStreak(asked), NextStreak(asked) <= MaxStreak,
         turnEnded' \in BOOLEAN, turnEnded' <=> NextStreak(asked) = MaxStreak,
         replies' = Append(replies, asked)
  PROVE  StreakOK'
  <1> DEFINE n == Len(replies)
  <1>0. asked \in Seq(Call) /\ asked # <<>> /\ replies \in Seq(Seq(Call))
    BY BatchesAre DEF HistoryOK, Batches
  <1>1. /\ n \in Nat /\ Len(replies') = n + 1 /\ replies'[n + 1] = asked
        /\ \A i \in 1 .. n : replies'[i] = replies[i]
    BY <1>0, AppendProperties, LenProperties
  <1>2. MaxStreak \in Nat \ {0}
    BY GuardConstants
  <1>3. /\ streak \in 0 .. MaxStreak /\ (lastAsked = <<>> <=> streak = 0) /\ streak <= n
        /\ replies # <<>> => replies[n] = lastAsked
        /\ \A i \in 0 .. streak - 1 : replies[n - i] = lastAsked
        /\ streak # 0 /\ streak < n => replies[n - streak] # lastAsked
    BY DEF StreakOK
  <1>31. n # 0 => replies # <<>>
    BY <1>0, EmptySeq
  <1> HIDE DEF n
  <1>4. CASE asked = lastAsked
    <2>1. streak' = streak + 1 /\ streak # 0 /\ n # 0
      BY <1>0, <1>1, <1>3, <1>4 DEF NextStreak
    <2>2. \A i \in 0 .. streak' - 1 : replies'[n + 1 - i] = asked
      <3>1. ASSUME NEW i \in 0 .. streak PROVE replies'[n + 1 - i] = asked
        <4>1. CASE i = 0
          BY <1>1, <4>1
        <4>2. CASE i # 0
          <5>1. i - 1 \in 0 .. streak - 1 /\ n - (i - 1) = n + 1 - i /\ n + 1 - i \in 1 .. n
            BY <1>1, <1>3, <4>2
          <5> QED
            BY <1>1, <1>3, <1>4, <5>1
        <4> QED
          BY <4>1, <4>2
      <3>2. streak' - 1 = streak
        BY <1>3, <2>1
      <3> QED
        BY <3>1, <3>2
    <2>3. ASSUME streak' < n + 1 PROVE replies'[n + 1 - streak'] # asked
      <3>1. n + 1 - streak' = n - streak /\ n - streak \in 1 .. n /\ streak < n
        BY <1>1, <1>3, <2>1, <2>3
      <3> QED
        BY <1>1, <1>3, <1>4, <2>1, <3>1
    <2>4. streak' \in 0 .. MaxStreak /\ streak' <= n + 1 /\ streak' # 0
      BY <1>1, <1>2, <1>3, <2>1
    <2> QED
      BY <1>0, <1>1, <2>1, <2>2, <2>3, <2>4 DEF StreakOK
  <1>5. CASE asked # lastAsked
    <2>1. streak' = 1
      BY <1>5 DEF NextStreak
    <2>2. \A i \in 0 .. streak' - 1 : replies'[n + 1 - i] = asked
      BY <1>1, <2>1
    <2>3. ASSUME streak' < n + 1 PROVE replies'[n + 1 - streak'] # asked
      <3>1. n + 1 - streak' = n /\ n \in 1 .. n /\ n # 0
        BY <1>1, <2>1, <2>3
      <3> QED
        BY <1>1, <1>3, <1>31, <1>5, <3>1
    <2>4. streak' \in 0 .. MaxStreak /\ streak' <= n + 1 /\ streak' # 0
      BY <1>1, <1>2, <2>1
    <2> QED
      BY <1>0, <1>1, <2>1, <2>2, <2>3, <2>4 DEF StreakOK
  <1> QED
    BY <1>4, <1>5

\* What a batch adds to the history, and what of it was cut.
LEMMA AskToolsIs ==
  ASSUME SoundGuard(Now), HistoryOK, NEW asked \in Batches, AskTools(asked)
  PROVE  /\ SoundGuard(Now')
         /\ Len(ran) <= Len(ran') /\ Len(ran') <= Len(ran) + Len(asked)
         /\ \A i \in 1 .. Len(ran) : ran'[i] = ran[i]
         /\ \A i \in Len(ran) + 1 .. Len(ran') :
               \E k \in 1 .. Len(asked) :
                  ran'[i].reply = Len(replies) + 1 /\ ran'[i].place = k /\ ~IsCut(asked[k])
         /\ \A k \in 1 .. Len(asked) : IsCut(asked[k]) \/
               \E i \in 1 .. Len(ran') :
                  ran'[i].reply = Len(replies) + 1 /\ ran'[i].place = k
  <1>1. PICK outs \in [DOMAIN asked -> Outcome] :
          LET results == [k \in DOMAIN asked |->
                  [call |-> asked[k], out |-> outs[k], said |-> "nothing",
                   reply |-> Len(replies) + 1, place |-> k]]
              done == ExecuteBatch([keys |-> recentCalls, same |-> noProgress,
                                    fails |-> failures, ran |-> ran], results)
          IN  /\ recentCalls' = done.keys /\ noProgress' = done.same
              /\ failures' = done.fails /\ ran' = done.ran
    BY DEF AskTools
  <1> DEFINE results == [k \in DOMAIN asked |->
                  [call |-> asked[k], out |-> outs[k], said |-> "nothing",
                   reply |-> Len(replies) + 1, place |-> k]]
             done == ExecuteBatch(Now, results)
  <1>2. /\ recentCalls' = done.keys /\ noProgress' = done.same
        /\ failures' = done.fails /\ ran' = done.ran
    BY <1>1 DEF Now
  <1>3. /\ DOMAIN asked = 1 .. Len(asked) /\ \A k \in 1 .. Len(asked) : asked[k] \in Call
        /\ Len(asked) \in Nat /\ Len(replies) \in Nat
    BY BatchesAre, GuardConstants, LenProperties DEF HistoryOK
  <1>4. \A k \in 1 .. Len(asked) :
           /\ results[k] \in RanCall /\ results[k].call = asked[k] /\ results[k].place = k
           /\ results[k].reply = Len(replies) + 1
    BY <1>3 DEF RanCall, Warning
  <1>5. results \in Seq(RanCall) /\ Len(results) = Len(asked)
    BY <1>3, <1>4
  <1> HIDE DEF results
  <1>6. Batched(done, Now, results, Len(results))
    BY <1>5, BatchIs
  <1> HIDE DEF done
  <1>7. Now' = done
    <2>1. done \in Guard
      BY <1>6 DEF Batched, SoundGuard
    <2>2. done = [keys |-> done.keys, same |-> done.same, fails |-> done.fails, ran |-> done.ran]
      BY <2>1 DEF Guard
    <2>3. Now' = [keys |-> recentCalls', same |-> noProgress', fails |-> failures', ran |-> ran']
      BY DEF Now
    <2> QED
      BY <1>2, <2>2, <2>3
  <1>8. Now.ran = ran
    BY DEF Now
  <1>9. SoundGuard(done)
    BY <1>6 DEF Batched
  <1>10. /\ Len(ran) <= Len(ran') /\ Len(ran') <= Len(ran) + Len(asked)
         /\ \A i \in 1 .. Len(ran) : ran'[i] = ran[i]
         /\ \A i \in Len(ran) + 1 .. Len(ran') :
               \E k \in 1 .. Len(asked) :
                  /\ ran'[i].reply = results[k].reply /\ ran'[i].place = results[k].place
                  /\ ~IsCut(results[k].call)
         /\ \A k \in 1 .. Len(asked) : IsCut(results[k].call) \/
               \E i \in 1 .. Len(ran') :
                  ran'[i].reply = results[k].reply /\ ran'[i].place = results[k].place
    BY <1>2, <1>5, <1>6, <1>8 DEF Batched
  <1>11. \A i \in Len(ran) + 1 .. Len(ran') :
            \E k \in 1 .. Len(asked) :
               ran'[i].reply = Len(replies) + 1 /\ ran'[i].place = k /\ ~IsCut(asked[k])
    <2>1. ASSUME NEW i \in Len(ran) + 1 .. Len(ran')
          PROVE  \E k \in 1 .. Len(asked) :
                    ran'[i].reply = Len(replies) + 1 /\ ran'[i].place = k /\ ~IsCut(asked[k])
      <3>1. PICK k \in 1 .. Len(asked) :
                  /\ ran'[i].reply = results[k].reply /\ ran'[i].place = results[k].place
                  /\ ~IsCut(results[k].call)
        BY <1>10
      <3>2. /\ results[k].call = asked[k] /\ results[k].place = k
            /\ results[k].reply = Len(replies) + 1
        BY <1>4
      <3> QED
        BY ONLY <3>1, <3>2
    <2> QED
      BY <2>1
  <1>12. ASSUME NEW k \in 1 .. Len(asked), ~IsCut(asked[k])
         PROVE  \E i \in 1 .. Len(ran') :
                   ran'[i].reply = Len(replies) + 1 /\ ran'[i].place = k
    <2>1. /\ results[k].call = asked[k] /\ results[k].place = k
          /\ results[k].reply = Len(replies) + 1
      BY <1>4
    <2> QED
      BY ONLY <1>10, <1>12, <2>1
  <1> QED
    BY <1>7, <1>9, <1>10, <1>11, <1>12

\* A response more in the history.
LEMMA HistoryNext ==
  ASSUME HistoryOK, ran \in Seq(RanCall), NEW asked \in Seq(Call), HasRoomFor(asked),
         replies' = Append(replies, asked), Len(asked) <= MaxBatch,
         ran' \in Seq(RanCall), Len(ran') <= Len(ran) + Len(asked),
         \A i \in 1 .. Len(ran) : ran'[i] = ran[i],
         \A i \in Len(ran) + 1 .. Len(ran') :
            ran'[i].reply = Len(replies) + 1 /\ ran'[i].place \in 1 .. Len(asked)
  PROVE  HistoryOK'
  <1>1. /\ replies \in Seq(Seq(Call)) /\ Total(replies) <= MaxAsked /\ Len(ran) <= Total(replies)
        /\ \A i \in 1 .. Len(ran) :
              ran[i].reply \in 1 .. Len(replies) /\ ran[i].place \in 1 .. MaxBatch
    BY DEF HistoryOK
  <1>2. /\ Total(replies) \in Nat /\ Total(replies') = Total(replies) + Size(asked)
        /\ Size(asked) \in Nat /\ Len(asked) <= Size(asked) /\ Len(asked) \in Nat
    BY <1>1, TotalAppend, SizeIs, LenProperties
  <1>3. /\ replies' \in Seq(Seq(Call)) /\ Len(replies') = Len(replies) + 1 /\ Len(replies) \in Nat
    BY <1>1, AppendProperties, LenProperties
  <1>4. Total(replies') <= MaxAsked
    BY DEF HasRoomFor
  <1>5. Len(ran) \in Nat /\ Len(ran') \in Nat /\ MaxBatch \in Nat
    BY LenProperties, GuardConstants
  <1>6. Len(ran') <= Total(replies')
    BY <1>1, <1>2, <1>5
  <1>7. ASSUME NEW i \in 1 .. Len(ran')
        PROVE  ran'[i].reply \in 1 .. Len(replies') /\ ran'[i].place \in 1 .. MaxBatch
    <2>1. CASE i \in 1 .. Len(ran)
      <3>1. ran'[i] = ran[i]
        BY <2>1
      <3>2. ran[i].reply \in 1 .. Len(replies) /\ ran[i].place \in 1 .. MaxBatch
        BY <1>1, <2>1
      <3> QED
        BY <1>3, <3>1, <3>2
    <2>2. CASE i \in Len(ran) + 1 .. Len(ran')
      <3>1. ran'[i].reply = Len(replies) + 1 /\ ran'[i].place \in 1 .. Len(asked)
        BY <2>2
      <3> QED
        BY <1>2, <1>3, <1>5, <3>1
    <2> QED
      BY <1>5, <2>1, <2>2
  <1> QED
    BY <1>3, <1>4, <1>6, <1>7 DEF HistoryOK

\* What was cut is what the history says is to be cut.
LEMMA BreakerNext ==
  ASSUME SoundGuard(Now), HistoryOK, NEW asked \in Batches, AskTools(asked)
  PROVE  BreakerExact'
  <1> DEFINE n == Len(replies) + 1
             m == Len(ran)
             Old == {i \in DOMAIN ran' : ran'[i].reply < n /\ ~IsExempt(ran'[i].call)}
             Newest == {i \in Old : Cardinality({j \in Old : j > i}) < RepeatWindow}
  <1>1. /\ m <= Len(ran') /\ \A i \in 1 .. m : ran'[i] = ran[i]
        /\ \A i \in m + 1 .. Len(ran') :
               \E k \in 1 .. Len(asked) :
                  ran'[i].reply = n /\ ran'[i].place = k /\ ~IsCut(asked[k])
        /\ \A k \in 1 .. Len(asked) : IsCut(asked[k]) \/
              \E i \in 1 .. Len(ran') : ran'[i].reply = n /\ ran'[i].place = k
    BY AskToolsIs
  <1>2. replies' = Append(replies, asked) /\ asked \in Seq(Call) /\ replies \in Seq(Seq(Call))
    BY BatchesAre DEF AskTools, HistoryOK
  <1>3. Len(replies') = n /\ replies'[n] = asked /\ n \in Nat
    BY <1>2, AppendProperties, LenProperties
  <1>4. SoundGuard(Now')
    BY AskToolsIs
  <1>5. /\ ran \in Seq(RanCall) /\ m \in Nat /\ recentCalls \in Seq(Call)
        /\ KeysOf(recentCalls, ran)
    BY NowIs
  <1>6. ran' \in Seq(RanCall)
    <2>1. Now' \in Guard /\ (Now').ran = ran'
      BY <1>4 DEF SoundGuard, Now
    <2> QED
      BY <2>1 DEF Guard
  <1>7. DOMAIN ran' = 1 .. Len(ran') /\ Len(ran') \in Nat /\ DOMAIN asked = 1 .. Len(asked)
    BY <1>6, BatchesAre, LenProperties
  <1>8. \A i \in 1 .. m : ran[i].reply \in 1 .. Len(replies) /\ Len(replies) \in Nat
    BY <1>2, LenProperties DEF HistoryOK
  <1> HIDE DEF m, n
  <1>9. \A i \in 1 .. m : ran[i].reply < n /\ ran[i].reply # n
    BY <1>8 DEF n
  <1>10. Old = {i \in 1 .. m : ~IsExempt(ran[i].call)}
    <2>1. \A i \in Old : i \in 1 .. m
      <3>1. ASSUME NEW i \in 1 .. Len(ran'), i \notin 1 .. m PROVE ~(ran'[i].reply < n)
        <4>1. i \in m + 1 .. Len(ran')
          BY <1>5, <1>7, <3>1
        <4>2. ran'[i].reply = n
          BY <1>1, <4>1
        <4> QED
          BY <1>3, <4>2
      <3> QED
        BY <1>7, <3>1
    <2>2. \A i \in 1 .. m : i \in DOMAIN ran'
      BY <1>1, <1>5, <1>7
    <2> QED
      BY <1>1, <1>9, <2>1, <2>2
  <1> HIDE DEF Old
  <1>11. ASSUME NEW c
         PROVE  Cardinality({i \in Newest : ran'[i].call = c}) = Times(c, recentCalls)
    <2>1. Newest = {i \in Old : Cardinality({j \in Old : j > i}) < RepeatWindow}
      OBVIOUS
    <2> HIDE DEF Newest
    <2>2. Cardinality(NewestOf(c, ran)) = Times(c, recentCalls)
      BY <1>5, WindowIs
    <2>20. Newest = NewestIn(ran)
      BY <1>10, <2>1 DEF NewestIn, CountedIn, m
    <2>3. \A i \in Newest : ran'[i] = ran[i]
      BY <1>1, <1>10, <2>1
    <2>4. {i \in Newest : ran'[i].call = c} = {i \in Newest : ran[i].call = c}
      BY <2>3
    <2> QED
      BY <2>2, <2>20, <2>4 DEF NewestOf
  <1>12. ASSUME NEW k \in DOMAIN asked
         PROVE  (\A i \in DOMAIN ran' : <<ran'[i].reply, ran'[i].place>> # <<n, k>>)
                   <=> IsCut(asked[k])
    <2>1. ASSUME NEW i \in DOMAIN ran', ran'[i].reply = n, ran'[i].place = k
          PROVE  ~IsCut(asked[k])
      <3>1. i \in m + 1 .. Len(ran')
        <4>1. i \notin 1 .. m
          BY <1>1, <1>9, <2>1
        <4> QED
          BY <1>5, <1>7, <4>1
      <3> QED
        BY <1>1, <2>1, <3>1
    <2>2. ASSUME ~IsCut(asked[k])
          PROVE  \E i \in DOMAIN ran' : ran'[i].reply = n /\ ran'[i].place = k
      <3>1. k \in 1 .. Len(asked)
        BY <1>7
      <3>2. PICK i \in 1 .. Len(ran') : ran'[i].reply = n /\ ran'[i].place = k
        <4>1. \A j \in 1 .. Len(asked) : IsCut(asked[j]) \/
                 \E i \in 1 .. Len(ran') : ran'[i].reply = n /\ ran'[i].place = j
          BY <1>1
        <4> QED
          BY ONLY <2>2, <3>1, <4>1
      <3> QED
        BY <1>7, <3>2
    <2> QED
      BY <2>1, <2>2
  <1>13. ASSUME NEW k \in DOMAIN asked
         PROVE  IsCut(asked[k]) <=>
                   /\ ~IsExempt(asked[k])
                   /\ Cardinality({i \in Newest : ran'[i].call = asked[k]}) >= Limit
    <2> HIDE DEF Newest
    <2> QED
      BY <1>11 DEF IsCut
  <1>14. Newest = LastTried(Len(replies))'
    BY <1>3 DEF Old, LastTried, Tried
  <1> HIDE DEF Newest
  <1>15. ASSUME NEW k \in DOMAIN asked
         PROVE  (\A i \in DOMAIN ran' : <<ran'[i].reply, ran'[i].place>> # <<n, k>>) <=>
                   /\ ~IsExempt(asked[k])
                   /\ Cardinality({i \in Newest : ran'[i].call = asked[k]}) >= Limit
    BY <1>12, <1>13
  <1> QED
    BY <1>3, <1>14, <1>15 DEF BreakerExact

-----------------------------------------------------------------------------
(* The guards, step by step.                                                *)

\* A response whose calls are executed.
LEMMA AskToolsInv ==
  ASSUME GuardsInv, NEW asked \in Batches, AskTools(asked)
  PROVE  GuardsInv'
  <1>1. SoundGuard(Now) /\ HistoryOK /\ StreakOK
    BY DEF GuardsInv
  <1>2. /\ ~turnEnded /\ HasRoomFor(asked) /\ NextStreak(asked) < MaxStreak
        /\ lastAsked' = asked /\ streak' = NextStreak(asked)
        /\ replies' = Append(replies, asked) /\ turnEnded' = turnEnded
    BY DEF AskTools
  <1>3. /\ asked \in Seq(Call) /\ Len(asked) \in 1 .. MaxBatch /\ MaxStreak \in Nat \ {0}
        /\ MaxBatch \in Nat
    BY BatchesAre, GuardConstants
  <1>4. SoundGuard(Now')
    BY <1>1, AskToolsIs
  <1>5. HistoryOK'
    <2>1. ran \in Seq(RanCall)
      BY <1>1, NowIs
    <2>2. ran' \in Seq(RanCall)
      <3>1. Now' \in Guard /\ (Now').ran = ran'
        BY <1>4 DEF SoundGuard, Now
      <3> QED
        BY <3>1 DEF Guard
    <2>3. /\ Len(ran') <= Len(ran) + Len(asked)
          /\ \A i \in 1 .. Len(ran) : ran'[i] = ran[i]
          /\ \A i \in Len(ran) + 1 .. Len(ran') :
                ran'[i].reply = Len(replies) + 1 /\ ran'[i].place \in 1 .. Len(asked)
      BY <1>1, AskToolsIs
    <2>4. Len(asked) <= MaxBatch
      BY <1>3
    <2> QED
      BY <1>1, <1>2, <1>3, <2>1, <2>2, <2>3, <2>4, HistoryNext
  <1>6. StreakOK'
    <2>1. streak \in 0 .. MaxStreak /\ turnEnded \in BOOLEAN
      BY <1>1 DEF StreakOK
    <2>2. NextStreak(asked) \in Nat
      BY <1>3, <2>1 DEF NextStreak
    <2>3. /\ NextStreak(asked) <= MaxStreak /\ NextStreak(asked) # MaxStreak
          /\ turnEnded' \in BOOLEAN /\ ~turnEnded'
      BY <1>2, <1>3, <2>1, <2>2
    <2> QED
      BY <1>1, <1>2, <2>3, StreakNext
  <1>7. BreakerExact'
    BY <1>1, BreakerNext
  <1>8. SoundGuard(Now)'
    BY <1>4
  <1> QED
    BY <1>5, <1>6, <1>7, <1>8 DEF GuardsInv

\* Nothing is executed with the last response.
LEMMA NothingRuns ==
  ASSUME GuardsInv, UNCHANGED <<recentCalls, noProgress, failures, ran>>, NEW asked \in Seq(Call),
         Len(asked) <= MaxBatch, HasRoomFor(asked), replies' = Append(replies, asked)
  PROVE  SoundGuard(Now)' /\ HistoryOK'
  <1>1. SoundGuard(Now) /\ HistoryOK
    BY DEF GuardsInv
  <1>2. Now' = Now
    BY DEF Now
  <1>3. SoundGuard(Now')
    BY <1>1, <1>2
  <1>4. ran \in Seq(RanCall) /\ ran' = ran /\ Len(ran) \in Nat /\ Len(asked) \in Nat
    BY <1>1, NowIs, LenProperties
  <1>5. HistoryOK'
    <2>1. /\ ran' \in Seq(RanCall) /\ Len(ran') <= Len(ran) + Len(asked)
          /\ \A i \in 1 .. Len(ran) : ran'[i] = ran[i]
          /\ \A i \in Len(ran) + 1 .. Len(ran') :
                ran'[i].reply = Len(replies) + 1 /\ ran'[i].place \in 1 .. Len(asked)
      BY <1>4
    <2> QED
      BY <1>1, <1>4, <2>1, HistoryNext
  <1> QED
    BY <1>3, <1>5

\* A response that ends the turn.
LEMMA StopRepeatingInv ==
  ASSUME GuardsInv, NEW asked \in Batches, StopRepeating(asked)
  PROVE  GuardsInv'
  <1>1. SoundGuard(Now) /\ HistoryOK /\ StreakOK
    BY DEF GuardsInv
  <1>2. /\ ~turnEnded /\ HasRoomFor(asked) /\ NextStreak(asked) >= MaxStreak
        /\ lastAsked' = asked /\ streak' = NextStreak(asked)
        /\ replies' = Append(replies, asked) /\ turnEnded' = TRUE
        /\ UNCHANGED <<recentCalls, noProgress, failures, ran>>
    BY DEF StopRepeating
  <1>3. /\ asked \in Seq(Call) /\ Len(asked) <= MaxBatch /\ MaxStreak \in Nat \ {0}
    BY BatchesAre, GuardConstants
  <1>4. SoundGuard(Now)' /\ HistoryOK'
    BY <1>2, <1>3, NothingRuns
  <1>5. StreakOK'
    <2>1. /\ streak \in 0 .. MaxStreak /\ streak # MaxStreak
      BY <1>1, <1>2 DEF StreakOK
    <2>2. NextStreak(asked) = MaxStreak
      BY <1>2, <1>3, <2>1 DEF NextStreak
    <2>3. /\ NextStreak(asked) <= MaxStreak /\ turnEnded' \in BOOLEAN
          /\ turnEnded' <=> NextStreak(asked) = MaxStreak
      BY <1>2, <1>3, <2>2
    <2> QED
      BY <1>1, <1>2, <2>3, StreakNext
  <1>6. BreakerExact'
    BY <1>2 DEF BreakerExact
  <1> QED
    BY <1>4, <1>5, <1>6 DEF GuardsInv

\* A response without calls.
LEMMA ReplyWithoutToolsInv ==
  ASSUME GuardsInv, ReplyWithoutTools
  PROVE  GuardsInv'
  <1>1. SoundGuard(Now) /\ HistoryOK /\ StreakOK
    BY DEF GuardsInv
  <1>2. /\ ~turnEnded /\ HasRoomFor(<<>>)
        /\ lastAsked' = <<>> /\ streak' = 0
        /\ replies' = Append(replies, <<>>) /\ turnEnded' = turnEnded
        /\ UNCHANGED <<recentCalls, noProgress, failures, ran>>
    BY DEF ReplyWithoutTools
  <1>3. /\ <<>> \in Seq(Call) /\ Len(<<>>) <= MaxBatch /\ MaxStreak \in Nat \ {0}
    BY GuardConstants
  <1>4. SoundGuard(Now)' /\ HistoryOK'
    BY <1>2, <1>3, NothingRuns
  <1>5. replies \in Seq(Seq(Call)) /\ Len(replies) \in Nat
    BY <1>1, LenProperties DEF HistoryOK
  <1>6. Len(replies') = Len(replies) + 1 /\ replies'[Len(replies) + 1] = <<>>
    BY <1>2, <1>3, <1>5, AppendProperties
  <1>7. StreakOK'
    <2>1. turnEnded' \in BOOLEAN /\ ~turnEnded'
      BY <1>1, <1>2 DEF StreakOK
    <2>2. streak' # MaxStreak /\ streak' \in 0 .. MaxStreak /\ streak' <= Len(replies')
      BY <1>2, <1>3, <1>5, <1>6
    <2>3. \A i \in 0 .. streak' - 1 : replies'[Len(replies') - i] = lastAsked'
      BY <1>2
    <2> QED
      BY <1>2, <1>3, <1>6, <2>1, <2>2, <2>3 DEF StreakOK
  <1>8. BreakerExact'
    <2>1. DOMAIN (replies'[Len(replies')]) = {}
      BY <1>6
    <2> QED
      BY <2>1 DEF BreakerExact
  <1> QED
    BY <1>4, <1>7, <1>8 DEF GuardsInv

\* The summaries stay within their types, and no count exceeds what has been asked.
LEMMA GuardsTyped ==
  ASSUME GuardsInv
  PROVE  GuardsTypeOK
  <1>1. SoundGuard(Now) /\ HistoryOK /\ StreakOK
    BY DEF GuardsInv
  <1>2. /\ recentCalls \in Seq(Call) /\ noProgress \in [Call -> Seen]
        /\ failures \in [Tools -> Nat] /\ ran \in Seq(RanCall) /\ Len(ran) \in Nat
        /\ KeysOf(recentCalls, ran) /\ SameOf(noProgress, ran) /\ FailsOf(failures, ran)
    BY <1>1, NowIs
  <1>3. /\ replies \in Seq(Seq(Call)) /\ Total(replies) <= MaxAsked /\ Len(ran) <= Total(replies)
        /\ \A i \in 1 .. Len(ran) :
              ran[i].reply \in 1 .. Len(replies) /\ ran[i].place \in 1 .. MaxBatch
    BY <1>1 DEF HistoryOK
  <1>4. Len(ran) <= MaxAsked /\ MaxAsked \in Nat
    <2>1. Total(replies) \in Nat
      <3>1. <<>> \in Seq(Call)
        OBVIOUS
      <3> QED
        BY <1>3, <3>1, TotalAppend
    <2> QED
      BY <1>2, <1>3, <2>1, GuardConstants
  <1>5. /\ Len(recentCalls) <= RepeatWindow
        /\ \A i \in DOMAIN recentCalls : ~IsExempt(recentCalls[i])
    <2>1. DOMAIN recentCalls = 1 .. Len(recentCalls)
      BY <1>2, LenProperties
    <2> QED
      BY <1>2, <2>1 DEF KeysOf
  <1>6. noProgress \in [Call -> [result : Content \cup {"none"}, times : 0 .. MaxAsked]]
    <2>1. ASSUME NEW c \in Call PROVE noProgress[c].times \in 0 .. MaxAsked
      <3>1. CASE noProgress[c] = Nothing
        BY <1>4, <3>1 DEF Nothing
      <3>2. CASE noProgress[c] # Nothing
        <4>1. ToolOf[c] \in Idempotent /\ noProgress[c].result \in Outcome \ {"error"}
          BY <1>2, <3>2 DEF SameOf
        <4>2. noProgress[c].times
                 = Cardinality(ReturnsOf(c, noProgress[c].result, ran, Len(ran)))
          BY <1>2, <4>1 DEF SameOf
        <4>3. noProgress[c].times \in 0 .. Len(ran)
          BY <1>2, <4>2, CountedFinite
        <4> QED
          BY <1>2, <1>4, <4>3
      <3> QED
        BY <3>1, <3>2
    <2>2. \A c \in Call : noProgress[c] \in Seen
      BY <1>2
    <2>3. \A c \in Call : noProgress[c] \in [result : Content \cup {"none"}, times : 0 .. MaxAsked]
      BY <2>1, <2>2 DEF Seen
    <2> QED
      BY <1>2, <2>3
  <1>7. failures \in [Range(ToolOf) -> 0 .. MaxAsked]
    <2>1. ASSUME NEW t \in Tools PROVE failures[t] \in 0 .. MaxAsked
      <3>1. failures[t] = Cardinality(FailingOf(t, ran, Len(ran)))
        BY <1>2 DEF FailsOf
      <3>2. failures[t] \in 0 .. Len(ran)
        BY <1>2, <3>1, CountedFinite
      <3> QED
        BY <1>2, <1>4, <3>2
    <2> QED
      BY <1>2, <2>1 DEF Tools
  <1>8. lastAsked \in Seq(Call) /\ streak \in 0 .. MaxStreak /\ turnEnded \in BOOLEAN
        /\ (turnEnded => streak = MaxStreak)
    BY <1>1 DEF StreakOK
  <1>9. ran \in Seq([call : Call, out : Outcome, said : Warning,
                     reply : DOMAIN replies, place : 1 .. MaxBatch])
    <2> DEFINE A == [call : Call, out : Outcome, said : Warning,
                     reply : DOMAIN replies, place : 1 .. MaxBatch]
    <2>1. DOMAIN replies = 1 .. Len(replies) /\ ran \in [1 .. Len(ran) -> RanCall]
      BY <1>2, <1>3, LenProperties
    <2>2. \A i \in 1 .. Len(ran) : ran[i] \in A
      BY <1>3, <2>1 DEF RanCall
    <2> HIDE DEF A
    <2>3. ran \in [1 .. Len(ran) -> A]
      BY <2>1, <2>2
    <2>4. ran \in Seq(A)
      BY <1>2, <2>3, SeqDef
    <2> QED
      BY <2>4 DEF A
  <1> QED
    BY <1>2, <1>3, <1>5, <1>6, <1>7, <1>8, <1>9 DEF GuardsTypeOK

\* The streak has ended the turn exactly when there were that many responses.
LEMMA StreakTold ==
  ASSUME GuardsInv
  PROVE  StreakEnds
  <1>1. HistoryOK /\ StreakOK
    BY DEF GuardsInv
  <1> DEFINE n == Len(replies)
  <1>2. replies \in Seq(Seq(Call)) /\ n \in Nat /\ MaxStreak \in Nat \ {0}
    BY <1>1, GuardConstants, LenProperties DEF HistoryOK
  <1>3. Last(replies) = replies[n]
    BY DEF Last
  <1>4. n = 0 <=> replies = <<>>
    BY <1>2, EmptySeq
  <1>5. /\ streak \in 0 .. MaxStreak /\ turnEnded \in BOOLEAN
        /\ turnEnded <=> streak = MaxStreak
        /\ lastAsked = <<>> <=> streak = 0
        /\ streak <= n
        /\ replies # <<>> => replies[n] = lastAsked
        /\ \A i \in 0 .. streak - 1 : replies[n - i] = lastAsked
        /\ streak # 0 /\ streak < n => replies[n - streak] # lastAsked
    BY <1>1 DEF StreakOK
  <1> HIDE DEF n
  <1>6. ASSUME turnEnded
        PROVE  /\ n >= MaxStreak /\ replies[n] # <<>>
               /\ \A i \in 0 .. MaxStreak - 1 : replies[n - i] = replies[n]
    <2>1. streak = MaxStreak /\ streak # 0 /\ n # 0
      BY <1>2, <1>5, <1>6
    <2>2. replies[n] = lastAsked
      BY <1>4, <1>5, <2>1
    <2> QED
      BY <1>5, <2>1, <2>2
  <1>7. ASSUME n >= MaxStreak, replies[n] # <<>>,
               \A i \in 0 .. MaxStreak - 1 : replies[n - i] = replies[n]
        PROVE  turnEnded
    <2>1. SUFFICES ASSUME streak # MaxStreak PROVE FALSE
      BY <1>5
    <2>2. n # 0 /\ replies[n] = lastAsked
      BY <1>2, <1>4, <1>5, <1>7
    <2>3. streak # 0 /\ streak \in 0 .. MaxStreak - 1 /\ streak < n
      BY <1>2, <1>5, <1>7, <2>1, <2>2
    <2>4. replies[n - streak] # lastAsked /\ replies[n - streak] = replies[n]
      BY <1>5, <1>7, <2>3
    <2> QED
      BY <2>2, <2>4
  <1> QED
    BY <1>3, <1>6, <1>7 DEF StreakEnds, n

\* Every step of the agent's loop keeps what the guards hold.
LEMMA GuardsStep ==
  ASSUME GuardsInv, [GuardsNext]_guardVars
  PROVE  GuardsInv'
  <1>1. ASSUME NEW asked \in Batches, AskTools(asked) PROVE GuardsInv'
    BY <1>1, AskToolsInv
  <1>2. ASSUME NEW asked \in Batches, StopRepeating(asked) PROVE GuardsInv'
    BY <1>2, StopRepeatingInv
  <1>3. CASE ReplyWithoutTools
    BY <1>3, ReplyWithoutToolsInv
  <1>4. CASE UNCHANGED guardVars
    <2>1. /\ recentCalls' = recentCalls /\ lastAsked' = lastAsked /\ streak' = streak
          /\ noProgress' = noProgress /\ failures' = failures /\ turnEnded' = turnEnded
          /\ replies' = replies /\ ran' = ran
      BY <1>4 DEF guardVars
    <2>2. SoundGuard(Now) /\ Now' = Now
      BY <2>1 DEF GuardsInv, Now
    <2>3. SoundGuard(Now')
      BY <2>2
    <2>4. HistoryOK'
      BY <2>1 DEF GuardsInv, HistoryOK
    <2>5. StreakOK'
      BY <2>1 DEF GuardsInv, StreakOK
    <2>6. BreakerExact'
      <3>1. \A m : Tried(m)' = Tried(m)
        BY <2>1 DEF Tried
      <3>2. \A m : LastTried(m)' = LastTried(m)
        BY <2>1, <3>1 DEF LastTried
      <3>3. BreakerExact
        BY DEF GuardsInv
      <3> QED
        BY <2>1, <3>2, <3>3 DEF BreakerExact
    <2> QED
      BY <2>3, <2>4, <2>5, <2>6 DEF GuardsInv
  <1> QED
    BY <1>1, <1>2, <1>3, <1>4 DEF GuardsNext

\* What the guards hold is always what they say of the tools that have run.
THEOREM GuardsInvariant == GuardsSpec => []GuardsInv
  <1>1. GuardsInv /\ [GuardsNext]_guardVars => GuardsInv'
    BY GuardsStep
  <1> QED
    BY <1>1, GuardsInitInv, PTL DEF GuardsSpec

\* The guards do what they tell the model: the breaker counts the executed calls of its
\* window and no others, the streak ends the turn with the last of MaxStreak identical
\* responses, and the warnings are those of src/tool_guardrails.rs:8-15.
THEOREM GuardsTellTheTruth == GuardsSpec => []GuardsExact
  <1>1. GuardsInv => GuardsExact
    <2>1. SUFFICES ASSUME GuardsInv PROVE GuardsExact
      OBVIOUS
    <2>2. BreakerExact /\ StreakEnds
      BY <2>1, StreakTold DEF GuardsInv
    <2>3. WarningsExact
      <3>1. SoundGuard(Now)
        BY <2>1 DEF GuardsInv
      <3>2. WarnedOf(ran) /\ DOMAIN ran = 1 .. Len(ran)
        BY <3>1, NowIs, LenProperties
      <3> QED
        BY <3>2 DEF WarningsExact, WarnedOf
    <2> QED
      BY <2>2, <2>3 DEF GuardsExact
  <1> QED
    BY <1>1, GuardsInvariant, PTL

\* The summaries stay within their types, the window within its size.
THEOREM GuardsTypes == GuardsSpec => []GuardsTypeOK
  <1>1. GuardsInv => GuardsTypeOK
    BY GuardsTyped
  <1> QED
    BY <1>1, GuardsInvariant, PTL

=============================================================================
