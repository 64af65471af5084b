----------------------- MODULE FeatureDiscoveryProofs -----------------------
(***************************************************************************)
(* Proofs about FeatureDiscovery, for any workspaces that can be submitted *)
(* and any number of Features and drafts: what can be confirmed is         *)
(* settled, codes are unique, and no draft waits without a question.       *)
(***************************************************************************)
EXTENDS FeatureDiscovery, FiniteSetTheorems, TLAPS

-----------------------------------------------------------------------------
(* Finite sets of numbers have a greatest and a least element.             *)

\* Of the sets of what follows each element one is minimal: it is empty.
LEMMA Maximal ==
  ASSUME NEW S, IsFiniteSet(S), S # {}, NEW R,
         \A x \in S : <<x, x>> \notin R,
         \A x, y, z \in S : <<x, y>> \in R /\ <<y, z>> \in R => <<x, z>> \in R
  PROVE  \E x \in S : \A y \in S : <<x, y>> \notin R
<1> DEFINE after(x) == {y \in S : <<x, y>> \in R}
           sets == {after(x) : x \in S}
<1>1. IsWellFoundedOn(StrictSubsetOrdering(S), FiniteSubsetsOf(S))
  BY FS_StrictSubsetOrderingWellFounded
<1>2. FiniteSubsetsOf(S) = SUBSET S
  BY FS_FiniteSubsetsOfFinite
<1>3. sets \subseteq FiniteSubsetsOf(S) /\ sets # {}
  <2>1. \A x \in S : after(x) \in SUBSET S
    OBVIOUS
  <2> HIDE DEF after
  <2> QED BY <1>2, <2>1
<1> HIDE DEF sets
<1>4. PICK least \in sets : \A other \in sets : <<other, least>> \notin StrictSubsetOrdering(S)
  BY <1>1, <1>3, WFMin
<1>5. PICK x \in S : least = after(x)
  BY DEF sets
<1>6. ASSUME NEW y \in S, <<x, y>> \in R PROVE FALSE
  <2>1. after(y) \subseteq after(x)
    BY <1>6
  <2>2. y \in after(x) /\ y \notin after(y)
    BY <1>6
  <2>3. after(y) \in sets /\ after(y) \in SUBSET S /\ after(x) \in SUBSET S
    BY DEF sets
  <2> HIDE DEF after
  <2>4. <<after(y), after(x)>> \in StrictSubsetOrdering(S)
    BY <2>1, <2>2, <2>3 DEF StrictSubsetOrdering
  <2> QED BY <1>4, <1>5, <2>3, <2>4
<1> QED BY <1>6

\* The greatest of finitely many numbers.
LEMMA Greatest ==
  ASSUME NEW S \in SUBSET Int, IsFiniteSet(S), S # {}
  PROVE  \E x \in S : \A y \in S : y <= x
<1> DEFINE R == {pair \in S \X S : pair[1] < pair[2]}
<1>1. \A x, y \in S : <<x, y>> \in R <=> x < y
  OBVIOUS
<1> HIDE DEF R
<1>2. \A x \in S : <<x, x>> \notin R
  BY <1>1
<1>3. \A x, y, z \in S : <<x, y>> \in R /\ <<y, z>> \in R => <<x, z>> \in R
  BY <1>1
<1>4. PICK x \in S : \A y \in S : <<x, y>> \notin R
  BY <1>2, <1>3, Maximal
<1>5. \A y \in S : ~(x < y) /\ x \in Int /\ y \in Int
  BY <1>1, <1>4
<1> QED BY <1>5

\* The least of finitely many numbers.
LEMMA Least ==
  ASSUME NEW S \in SUBSET Int, IsFiniteSet(S), S # {}
  PROVE  \E x \in S : \A y \in S : x <= y
<1> DEFINE R == {pair \in S \X S : pair[1] > pair[2]}
<1>1. \A x, y \in S : <<x, y>> \in R <=> x > y
  OBVIOUS
<1> HIDE DEF R
<1>2. \A x \in S : <<x, x>> \notin R
  BY <1>1
<1>3. \A x, y, z \in S : <<x, y>> \in R /\ <<y, z>> \in R => <<x, z>> \in R
  BY <1>1
<1>4. PICK x \in S : \A y \in S : <<x, y>> \notin R
  BY <1>2, <1>3, Maximal
<1>5. \A y \in S : ~(x > y) /\ x \in Int /\ y \in Int
  BY <1>1, <1>4
<1> QED BY <1>5

-----------------------------------------------------------------------------
(* The question to ask next.                                               *)

\* An open question is asked as long as there is one, and none has a higher score.
LEMMA NextIsOpen ==
  ASSUME NEW w \in Workspace, OpenQuestions(w) # {}
  PROVE  /\ SelectNextFeatureQuestion(w) \in OpenQuestions(w)
         /\ SelectNextFeatureQuestion(w) # NoQuestion
         /\ \A k \in OpenQuestions(w) :
               w.questions[k].score <= w.questions[SelectNextFeatureQuestion(w)].score
<1> DEFINE open == OpenQuestions(w)
           score == [k \in open |-> w.questions[k].score]
           scores == {score[k] : k \in open}
<1>1. open \subseteq 1 .. Len(w.questions) /\ Len(w.questions) \in Nat
      /\ \A k \in open : score[k] \in 1 .. 100
  <2>1. w.questions \in Seq(Question)
    BY DEF Workspace
  <2>2. \A k \in 1 .. Len(w.questions) : w.questions[k] \in Question
    BY <2>1
  <2>3. DOMAIN w.questions = 1 .. Len(w.questions) /\ Len(w.questions) \in Nat
    BY <2>1
  <2> QED BY <2>2, <2>3 DEF OpenQuestions, Question, Scores
<1>2. scores \in SUBSET Int /\ scores # {} /\ scores \in SUBSET (1 .. 100)
  <2>1. \A k \in open : score[k] \in 1 .. 100
    BY <1>1
  <2>2. open # {}
    OBVIOUS
  <2> HIDE DEF score, open
  <2> QED BY <2>1, <2>2
<1>3. IsFiniteSet(scores) /\ IsFiniteSet(1 .. Len(w.questions))
  <2>1. 1 \in Int /\ 100 \in Int /\ Len(w.questions) \in Int
    BY <1>1
  <2>2. IsFiniteSet(1 .. 100) /\ IsFiniteSet(1 .. Len(w.questions))
    BY <2>1, FS_Interval, Zenon
  <2> QED BY <1>2, <2>2, FS_Subset
<1> HIDE DEF scores
<1>4. PICK top \in scores : \A y \in scores : y <= top
  BY <1>2, <1>3, Greatest
<1> DEFINE highest == {k \in open : score[k] = top}
<1>5. highest \in SUBSET Int /\ highest # {} /\ highest \in SUBSET (1 .. Len(w.questions))
  BY <1>1, <1>4 DEF scores
<1>6. PICK first \in highest : \A k \in highest : first <= k
  <2>1. IsFiniteSet(highest)
    BY <1>3, <1>5, FS_Subset
  <2> QED BY <1>5, <2>1, Least
<1>7. \A j \in open \ {first} : Outranks(w, first, j)
  <2> TAKE j \in open \ {first}
  <2>1. score[j] <= top /\ score[first] = top /\ score[j] \in Int /\ top \in Int
        /\ j \in Nat /\ first \in Nat
    BY <1>1, <1>2, <1>4, <1>6 DEF scores
  <2>2. CASE score[j] = top
    BY <1>6, <2>1, <2>2 DEF Outranks
  <2>3. CASE score[j] # top
    BY <2>1, <2>3 DEF Outranks
  <2> QED BY <2>2, <2>3
<1>8. SelectNextFeatureQuestion(w) = CHOOSE k \in open : \A j \in open \ {k} : Outranks(w, k, j)
  BY DEF SelectNextFeatureQuestion
<1> DEFINE next == SelectNextFeatureQuestion(w)
<1>9. next \in open /\ \A j \in open \ {next} : Outranks(w, next, j)
  BY <1>6, <1>7, <1>8
<1> HIDE DEF next, open
<1>10. \A k \in open : w.questions[k].score <= w.questions[next].score
  <2> TAKE k \in open
  <2>1. score[k] \in Int /\ score[next] \in Int
    <3>1. next \in open /\ k \in open
      BY <1>9
    <3>2. \A j \in open : score[j] \in 1 .. 100
      BY <1>1
    <3> HIDE DEF score
    <3> QED BY <3>1, <3>2
  <2>2. k # next => score[next] > score[k] \/ score[next] = score[k]
    BY <1>9 DEF Outranks
  <2> QED BY <1>9, <2>1, <2>2
<1> QED BY <1>1, <1>9, <1>10 DEF next, open, NoQuestion

\* No question is asked exactly when none is open.
LEMMA NothingToAsk ==
  ASSUME NEW w \in Workspace
  PROVE  /\ SelectNextFeatureQuestion(w) = NoQuestion <=> OpenQuestions(w) = {}
         /\ SelectNextFeatureQuestion(w) \in Nat
<1>1. CASE OpenQuestions(w) = {}
  BY <1>1 DEF SelectNextFeatureQuestion, NoQuestion
<1>2. CASE OpenQuestions(w) # {}
  <2>1. OpenQuestions(w) \subseteq Nat
    BY DEF OpenQuestions, Workspace
  <2> QED BY <1>2, <2>1, NextIsOpen
<1> QED BY <1>1, <1>2

-----------------------------------------------------------------------------
(* Codes.                                                                  *)

\* There is always a code for the next Feature, and no Feature has it: of the first
\* Len(features) + 1 codes, at most Len(features) are in use.
LEMMA NextCodeIsNew ==
  ASSUME features \in Seq(Feature)
  PROVE  NextFeatureCode \in Nat /\ NextFeatureCode \notin Codes
<1> DEFINE n == Len(features)
           codeOf == [f \in 1 .. n |-> features[f].code]
           free == (1 .. (n + 1)) \ Codes
<1>1. n \in Nat /\ FeatureIds = 1 .. n
  BY DEF FeatureIds
<1>2. Codes = {codeOf[f] : f \in 1 .. n}
  BY <1>1 DEF Codes
<1> HIDE DEF n
<1>3. IsFiniteSet(Codes) /\ Cardinality(Codes) <= n
  <2>1. codeOf \in Surjection(1 .. n, Codes)
    BY <1>2 DEF Surjection
  <2>2. 1 \in Int /\ n \in Int
    BY <1>1
  <2>3. IsFiniteSet(1 .. n) /\ Cardinality(1 .. n) = IF 1 > n THEN 0 ELSE n - 1 + 1
    BY <2>2, FS_Interval, Zenon
  <2>4. IsFiniteSet(Codes) /\ Cardinality(Codes) <= Cardinality(1 .. n)
    BY <2>1, <2>3, FS_Surjection
  <2> QED BY <1>1, <2>3, <2>4
<1>4. free # {} /\ IsFiniteSet(free)
  <2>1. PICK m \in Nat : m = n + 1
    BY <1>1
  <2>2. IsFiniteSet(1 .. m) /\ Cardinality(1 .. m) = IF 1 > m THEN 0 ELSE m - 1 + 1
    <3>1. 1 \in Int /\ m \in Int
      OBVIOUS
    <3> QED BY <3>1, FS_Interval, Zenon
  <2>3. Cardinality(1 .. (n + 1)) = n + 1 /\ IsFiniteSet(1 .. (n + 1))
    BY <1>1, <2>1, <2>2
  <2>4. ~(1 .. (n + 1) \subseteq Codes)
    <3>1. SUFFICES ASSUME 1 .. (n + 1) \subseteq Codes PROVE FALSE
      OBVIOUS
    <3>2. Cardinality(1 .. (n + 1)) <= Cardinality(Codes)
      BY <1>3, <3>1, FS_Subset
    <3>3. Cardinality(Codes) \in Nat
      BY <1>3, FS_CardinalityType
    <3> QED BY <1>1, <1>3, <2>3, <3>2, <3>3
  <2> QED BY <2>3, <2>4, FS_Subset
<1>5. PICK first \in free : \A m \in free : first <= m
  <2>1. free \in SUBSET Int
    BY <1>1
  <2> QED BY <1>4, <2>1, Least
<1>6. \A m \in 1 .. (first - 1) : m \in Codes
  <2>1. \A m \in 1 .. (first - 1) : m \in 1 .. (n + 1) /\ ~(first <= m)
    BY <1>1, <1>5
  <2> QED BY <1>5, <2>1
<1>7. NextFeatureCode = CHOOSE k \in 1 .. (n + 1) : k \notin Codes /\ \A m \in 1 .. (k - 1) : m \in Codes
  BY DEF NextFeatureCode, n
<1>8. NextFeatureCode \in 1 .. (n + 1) /\ NextFeatureCode \notin Codes
  BY <1>5, <1>6, <1>7
<1> QED BY <1>1, <1>8

\* The sequences given are finitely many, and the highest is one of them or 0.
LEMMA HighestIsGiven ==
  ASSUME features \in Seq(Feature)
  PROVE  /\ HighestSequence \in Nat
         /\ HighestSequence \in {0} \cup {features[f].sequence : f \in FeatureIds}
         /\ \A f \in FeatureIds : features[f].sequence <= HighestSequence
<1> DEFINE n == Len(features)
           sequenceOf == [f \in 1 .. n |-> features[f].sequence]
           sequences == {features[f].sequence : f \in FeatureIds}
           given == {0} \cup sequences
<1>1. n \in Nat /\ FeatureIds = 1 .. n /\ \A f \in FeatureIds : features[f].sequence \in Nat
  <2>1. n \in Nat /\ FeatureIds = 1 .. n
    BY DEF FeatureIds
  <2>2. \A f \in 1 .. n : features[f] \in Feature
    OBVIOUS
  <2> QED BY <2>1, <2>2 DEF Feature
<1>2. sequences = {sequenceOf[f] : f \in 1 .. n} /\ sequences \subseteq Nat
  BY <1>1
<1> HIDE DEF n, sequences
<1>3. IsFiniteSet(given)
  <2>1. sequenceOf \in Surjection(1 .. n, sequences)
    BY <1>2 DEF Surjection
  <2>2. 1 \in Int /\ n \in Int
    BY <1>1
  <2>3. IsFiniteSet(1 .. n)
    BY <2>2, FS_Interval, Zenon
  <2>4. IsFiniteSet(sequences)
    BY <2>1, <2>3, FS_Surjection
  <2>5. IsFiniteSet(sequences \cup {0})
    BY <2>4, FS_AddElement
  <2>6. sequences \cup {0} = given
    OBVIOUS
  <2> QED BY <2>5, <2>6
<1>4. PICK top \in given : \A y \in given : y <= top
  <2>1. given \in SUBSET Int /\ given # {}
    BY <1>2
  <2> QED BY <1>3, <2>1, Greatest
<1>5. \A f \in FeatureIds : features[f].sequence <= top
  BY <1>4 DEF sequences
<1>6. HighestSequence = CHOOSE k \in given : \A f \in FeatureIds : features[f].sequence <= k
  BY DEF HighestSequence, sequences
<1>7. HighestSequence \in given /\ \A f \in FeatureIds : features[f].sequence <= HighestSequence
  BY <1>5, <1>6
<1>8. HighestSequence \in Nat
  BY <1>2, <1>7
<1> QED BY <1>7, <1>8 DEF sequences

-----------------------------------------------------------------------------
(* One Feature.                                                            *)

\* The invariant of a draft, by Features.
Asks(feature) ==
    LET w == feature.workspace
    IN  \/ feature.sources = {} /\ w = EmptyWorkspace /\ ~feature.ready
        \/ feature.ready /\ OpenQuestions(w) = {}
        \/ /\ ~feature.ready
           /\ feature.next \in OpenQuestions(w)
           /\ \A k \in OpenQuestions(w) : w.questions[k].score <= w.questions[feature.next].score

\* What is open in no workspace that is ready.
Settled(f, w) ==
    /\ OpenQuestions(w) = {}
    /\ \A c \in w.conflicts : c.status # "open"
    /\ \A d \in DOMAIN w.decisions : w.decisions[d].status # "open"
    /\ \A a \in w.assumptions : a.status = "open" => a.risk # "high"
    /\ \A s \in DOMAIN w.scenarios : \E g \in w.grants : s \in g.scenarios
    /\ f = 1 => \A s \in DOMAIN w.scenarios, actor \in ActorIds :
           actor \in w.scenarios[s] => \E r \in DOMAIN w.roles : actor \in w.roles[r]

Sound(f, feature) ==
    /\ Asks(feature)
    /\ feature.status # "draft" => feature.ready
    /\ ReferencesResolve(feature.workspace)
    /\ feature.ready => Settled(f, feature.workspace)

\* The invariant, Feature by Feature.
LEMMA InvariantByFeatures ==
  DiscoveryInvariant <=> /\ TypeOK
                         /\ CodesAreUnique
                         /\ \A f \in FeatureIds : Sound(f, features[f])
BY DEF DiscoveryInvariant, DraftsAskOn, ReadyIsSettled, Sound, Asks, Settled

\* The same after a step.
LEMMA InvariantByFeaturesNext ==
  DiscoveryInvariant' <=> /\ TypeOK'
                          /\ CodesAreUnique'
                          /\ \A f \in DOMAIN features' : Sound(f, features'[f])
BY DEF DiscoveryInvariant, DraftsAskOn, ReadyIsSettled, Sound, Asks, Settled, FeatureIds

\* What is ready leaves nothing open.
LEMMA ReadyMeansSettled ==
  ASSUME NEW w \in Workspace, NEW f, Ready(f, w)
  PROVE  Settled(f, w)
<1>1. OpenQuestions(w) = {}
  <2>1. "open_question" \notin BlockingSections(f, w)
    BY DEF Ready
  <2>2. SelectNextFeatureQuestion(w) = NoQuestion
    BY <2>1 DEF BlockingSections
  <2> QED BY <2>2, NothingToAsk
<1>2. AuthorizationComplete(f, w)
  <2>1. "authorization" \notin BlockingSections(f, w)
    BY DEF Ready
  <2> QED BY <2>1 DEF BlockingSections
<1>3. \A c \in w.conflicts : c.status # "open"
  <2>1. "open_conflict" \notin ReadinessBlockers(w)
    BY DEF Ready
  <2> QED BY <2>1 DEF ReadinessBlockers
<1>4. \A d \in DOMAIN w.decisions : w.decisions[d].status # "open"
  <2>1. "open_decision" \notin ReadinessBlockers(w)
    BY DEF Ready
  <2> QED BY <2>1 DEF ReadinessBlockers
<1>5. \A a \in w.assumptions : a.status = "open" => a.risk # "high"
  <2>1. "high_risk_assumption" \notin ReadinessBlockers(w)
    BY DEF Ready
  <2> QED BY <2>1 DEF ReadinessBlockers
<1>6. \A s \in DOMAIN w.scenarios : \E g \in w.grants : s \in g.scenarios
  BY <1>2 DEF AuthorizationComplete, Granted
<1>7. ASSUME f = 1, NEW s \in DOMAIN w.scenarios, NEW actor \in ActorIds, actor \in w.scenarios[s]
      PROVE  \E r \in DOMAIN w.roles : actor \in w.roles[r]
  <2>1. w.scenarios[s] \subseteq UNION {w.roles[r] : r \in DOMAIN w.roles}
    BY <1>2, <1>7 DEF AuthorizationComplete, BaselineEstablished
  <2> QED BY <1>7, <2>1
<1> QED BY <1>1, <1>3, <1>4, <1>5, <1>6, <1>7 DEF Settled

\* An untouched draft.
LEMMA OpenedIsSound ==
  ASSUME NEW f, NEW code \in Nat
  PROVE  OpenedFeature(code) \in Feature /\ Sound(f, OpenedFeature(code))
<1>1. EmptyWorkspace \in Workspace
  <2>1. \A A, B : Nothing \in PartialFunctions(A, B)
    <3> TAKE A, B
    <3>1. Nothing \in [{} -> B]
      BY DEF Nothing
    <3> QED BY <3>1 DEF PartialFunctions
  <2>2. << >> \in Seq(Question)
    OBVIOUS
  <2> QED BY <2>1, <2>2 DEF EmptyWorkspace, Workspace, Modes
<1>2. OpenedFeature(code) \in Feature
  BY <1>1 DEF OpenedFeature, Feature, NoQuestion
<1>3. ReferencesResolve(EmptyWorkspace)
  BY DEF ReferencesResolve, EmptyWorkspace
<1> QED BY <1>2, <1>3 DEF Sound, Asks, OpenedFeature

\* A draft that is stored asks the next question, or is ready.
LEMMA DraftIsSound ==
  ASSUME NEW w \in Workspace, NEW f, NEW code \in Nat, NEW version \in Nat,
         NEW sources \in SUBSET Threads, Valid(w),
         Ready(f, w) \/ SelectNextFeatureQuestion(w) # NoQuestion
  PROVE  Draft(f, code, version, w, sources) \in Feature
         /\ Sound(f, Draft(f, code, version, w, sources))
<1> DEFINE draft == Draft(f, code, version, w, sources)
<1>1. /\ draft.workspace = w /\ draft.ready = Ready(f, w) /\ draft.status = "draft"
      /\ draft.next = SelectNextFeatureQuestion(w) /\ draft.sources = sources
  BY DEF Draft
<1>2. draft \in Feature
  <2>1. SelectNextFeatureQuestion(w) \in Nat /\ Ready(f, w) \in BOOLEAN
    BY NothingToAsk DEF Ready
  <2> QED BY <2>1 DEF Draft, Feature
<1>3. ReferencesResolve(w)
  BY DEF Valid
<1> HIDE DEF draft
<1>4. CASE Ready(f, w)
  <2>1. Settled(f, w)
    BY <1>4, ReadyMeansSettled
  <2>2. OpenQuestions(w) = {}
    BY <2>1 DEF Settled
  <2> QED BY <1>1, <1>2, <1>3, <1>4, <2>1, <2>2 DEF Sound, Asks, draft
<1>5. CASE ~Ready(f, w)
  <2>1. OpenQuestions(w) # {}
    BY <1>5, NothingToAsk
  <2>2. /\ draft.next \in OpenQuestions(w)
        /\ \A k \in OpenQuestions(w) : w.questions[k].score <= w.questions[draft.next].score
    BY <1>1, <2>1, NextIsOpen
  <2> QED BY <1>1, <1>2, <1>3, <1>5, <2>2 DEF Sound, Asks, draft
<1> QED BY <1>4, <1>5

-----------------------------------------------------------------------------
(* The Product.                                                            *)

\* A Product without Features, or with one that an older run delivers.
LEMMA InitHolds == ASSUME DiscoveryAssumption, Init PROVE DiscoveryInvariant
<1>1. CASE features = << >>
  BY <1>1 DEF Init, DiscoveryInvariant, TypeOK, CodesAreUnique, DraftsAskOn, ReadyIsSettled, FeatureIds
<1>2. ASSUME NEW w \in Workspaces, NEW thread \in Threads,
             features = <<[code |-> 1, status |-> "delivering", sequence |-> 1,
                           version |-> NoDraft, workspace |-> w, ready |-> TRUE,
                           next |-> NoQuestion, sources |-> {thread}]>>,
             Valid(w), Ready(1, w)
      PROVE  DiscoveryInvariant
  <2> DEFINE feature == [code |-> 1, status |-> "delivering", sequence |-> 1,
                         version |-> NoDraft, workspace |-> w, ready |-> TRUE,
                         next |-> NoQuestion, sources |-> {thread}]
  <2>1. w \in Workspace
    BY DEF DiscoveryAssumption
  <2>2. feature \in Feature
    BY <2>1 DEF Feature, NoDraft, NoQuestion
  <2>3. Settled(1, w) /\ ReferencesResolve(w)
    BY <1>2, <2>1, ReadyMeansSettled DEF Valid
  <2>4. Sound(1, feature)
    BY <2>3 DEF Sound, Asks, Settled
  <2> HIDE DEF feature
  <2>5. features = <<feature>> /\ FeatureIds = {1} /\ features[1] = feature
    BY <1>2 DEF FeatureIds, feature
  <2>6. TypeOK
    BY <2>2, <2>5 DEF Init, TypeOK
  <2> QED BY <2>4, <2>5, <2>6, InvariantByFeatures DEF CodesAreUnique
<1> QED BY <1>1, <1>2 DEF Init

\* A Feature with a code of its own is added.
LEMMA AddedIsSound ==
  ASSUME DiscoveryInvariant, NEW x \in Feature, Sound(Len(features) + 1, x), x.code \notin Codes,
         features' = Append(features, x), UNCHANGED <<definition, baseline>>
  PROVE  DiscoveryInvariant'
<1> DEFINE n == Len(features)
<1>1. /\ TypeOK /\ CodesAreUnique /\ \A f \in FeatureIds : Sound(f, features[f])
  BY InvariantByFeatures
<1>2. features \in Seq(Feature) /\ n \in Nat /\ FeatureIds = 1 .. n
  BY <1>1 DEF TypeOK, FeatureIds
<1>3. /\ features' \in Seq(Feature) /\ DOMAIN features' = 1 .. (n + 1)
      /\ \A f \in 1 .. n : features'[f] = features[f]
      /\ features'[n + 1] = x
  BY <1>2
<1>4. TypeOK'
  BY <1>1, <1>3 DEF TypeOK
<1> HIDE DEF n
<1>5. \A f \in DOMAIN features' : f \in 1 .. n \/ f = n + 1
  BY <1>2, <1>3
<1>6. \A f \in DOMAIN features' : Sound(f, features'[f])
  BY <1>1, <1>2, <1>3, <1>5 DEF n
<1>7. \A f \in 1 .. n : features[f].code # x.code
  BY <1>2 DEF Codes
<1>8. CodesAreUnique'
  BY <1>1, <1>2, <1>3, <1>5, <1>7 DEF CodesAreUnique, FeatureIds
<1> QED BY <1>4, <1>6, <1>8, InvariantByFeaturesNext

\* A Feature is replaced by one of the same code.
LEMMA ReplacedIsSound ==
  ASSUME DiscoveryInvariant, NEW f \in FeatureIds, NEW x \in Feature, Sound(f, x),
         x.code = features[f].code,
         features' = [features EXCEPT ![f] = x], UNCHANGED <<definition, baseline>>
  PROVE  DiscoveryInvariant'
<1>1. /\ TypeOK /\ CodesAreUnique /\ \A g \in FeatureIds : Sound(g, features[g])
  BY InvariantByFeatures
<1>2. /\ features' \in Seq(Feature) /\ DOMAIN features' = FeatureIds
      /\ features'[f] = x /\ \A g \in FeatureIds \ {f} : features'[g] = features[g]
  BY <1>1 DEF TypeOK, FeatureIds
<1>3. TypeOK'
  BY <1>1, <1>2 DEF TypeOK
<1>4. \A g \in DOMAIN features' : Sound(g, features'[g])
  BY <1>1, <1>2
<1>5. \A g \in FeatureIds : features'[g].code = features[g].code
  BY <1>2
<1>6. CodesAreUnique'
  BY <1>1, <1>2, <1>5 DEF CodesAreUnique, FeatureIds
<1> QED BY <1>3, <1>4, <1>6, InvariantByFeaturesNext

\* Every command keeps the invariant.
LEMMA OpenFeatureDiscoveryKeeps ==
  ASSUME DiscoveryInvariant, OpenFeatureDiscovery
  PROVE  DiscoveryInvariant'
<1>1. NextFeatureCode \in Nat /\ NextFeatureCode \notin Codes
  BY NextCodeIsNew DEF DiscoveryInvariant, TypeOK
<1> DEFINE x == OpenedFeature(NextFeatureCode)
<1>2. x \in Feature /\ Sound(Len(features) + 1, x) /\ x.code = NextFeatureCode
  BY <1>1, OpenedIsSound DEF OpenedFeature
<1> HIDE DEF x
<1>3. features' = Append(features, x) /\ UNCHANGED <<definition, baseline>>
  BY DEF OpenFeatureDiscovery, x
<1> QED BY <1>1, <1>2, <1>3, AddedIsSound

\* A workspace replaces a draft, or begins one.
LEMMA ReplaceKeeps ==
  ASSUME DiscoveryAssumption, DiscoveryInvariant, NEW f \in 1 .. MaxFeatures,
         NEW code \in 1 .. MaxFeatures, NEW revision, NEW w \in Workspaces, NEW thread \in Threads,
         ReplaceFeatureDiscovery(f, code, revision, w, thread)
  PROVE  DiscoveryInvariant'
<1>1. w \in Workspace /\ code \in Nat /\ features \in Seq(Feature)
  BY DEF DiscoveryAssumption, DiscoveryInvariant, TypeOK
<1>2. Valid(w) /\ (Ready(f, w) \/ SelectNextFeatureQuestion(w) # NoQuestion)
  BY DEF ReplaceFeatureDiscovery
<1>3. CASE /\ f \in FeatureIds
           /\ features[f].status = "draft"
           /\ features[f].code = code
           /\ features' = [features EXCEPT ![f] =
                 Draft(f, code, features[f].version + 1, w,
                       AppendFeatureSource(features[f].sources, thread))]
  <2> DEFINE version == features[f].version + 1
             sources == AppendFeatureSource(features[f].sources, thread)
             x == Draft(f, code, version, w, sources)
  <2>1. features[f] \in Feature
    BY <1>1, <1>3 DEF FeatureIds
  <2>2. version \in Nat /\ sources \in SUBSET Threads
    BY <2>1 DEF Feature, AppendFeatureSource
  <2> HIDE DEF version, sources
  <2>3. x \in Feature /\ Sound(f, x)
    BY <1>1, <1>2, <2>2, DraftIsSound
  <2>4. x.code = features[f].code
    BY <1>3 DEF Draft
  <2>5. features' = [features EXCEPT ![f] = x] /\ UNCHANGED <<definition, baseline>>
    BY <1>3 DEF ReplaceFeatureDiscovery, version, sources
  <2> HIDE DEF x
  <2> QED BY <1>3, <2>3, <2>4, <2>5, ReplacedIsSound
<1>4. CASE /\ f = Len(features) + 1
           /\ code \notin Codes
           /\ features' = Append(features, Draft(f, code, 1, w, AppendFeatureSource({}, thread)))
  <2> DEFINE sources == AppendFeatureSource({}, thread)
             x == Draft(f, code, 1, w, sources)
  <2>1. sources \in SUBSET Threads
    BY DEF AppendFeatureSource
  <2> HIDE DEF sources
  <2>2. x \in Feature /\ Sound(f, x)
    BY <1>1, <1>2, <2>1, DraftIsSound
  <2>3. x.code \notin Codes
    BY <1>4 DEF Draft
  <2>4. features' = Append(features, x) /\ UNCHANGED <<definition, baseline>>
    BY <1>4 DEF ReplaceFeatureDiscovery, sources
  <2> HIDE DEF x
  <2> QED BY <1>4, <2>2, <2>3, <2>4, AddedIsSound
<1> QED BY <1>3, <1>4 DEF ReplaceFeatureDiscovery

\* A draft that is ready is confirmed as it is.
LEMMA ConfirmKeeps ==
  ASSUME DiscoveryInvariant, NEW f, NEW version, ConfirmFeature(f, version)
  PROVE  DiscoveryInvariant'
<1>1. f \in FeatureIds /\ features \in Seq(Feature) /\ features[f].ready
  BY DEF ConfirmFeature, DiscoveryInvariant, TypeOK
<1>2. features[f] \in Feature
  BY <1>1 DEF FeatureIds
<1>3. HighestSequence + 1 \in Nat
  BY <1>1, HighestIsGiven
<1> DEFINE x == [features[f] EXCEPT !.status = "confirmed", !.sequence = HighestSequence + 1,
                                    !.version = NoDraft]
<1>4. features' = [features EXCEPT ![f] = x] /\ UNCHANGED <<definition, baseline>>
  BY DEF ConfirmFeature
<1>5. /\ x \in Feature /\ x.code = features[f].code /\ x.workspace = features[f].workspace
      /\ x.ready = features[f].ready /\ x.next = features[f].next
      /\ x.sources = features[f].sources
  BY <1>2, <1>3 DEF Feature, NoDraft
<1>6. Sound(f, features[f])
  BY <1>1, InvariantByFeatures
<1> HIDE DEF x
<1>7. Sound(f, x)
  BY <1>1, <1>5, <1>6 DEF Sound, Asks
<1> QED BY <1>1, <1>4, <1>5, <1>7, ReplacedIsSound

\* A Feature that was delivered is installed; the drafts stay as they are.
LEMMA InstallLegacyRunKeeps ==
  ASSUME DiscoveryInvariant, InstallLegacyRun
  PROVE  DiscoveryInvariant'
<1>1. /\ TypeOK /\ CodesAreUnique /\ \A g \in FeatureIds : Sound(g, features[g])
  BY InvariantByFeatures
<1> DEFINE after(f) == IF features[f].status = "delivering"
                       THEN [features[f] EXCEPT !.status = "installed"]
                       ELSE features[f]
<1>2. ASSUME NEW f \in FeatureIds
      PROVE  after(f) \in Feature /\ after(f).code = features[f].code /\ Sound(f, after(f))
  <2>1. features[f] \in Feature /\ Sound(f, features[f])
    BY <1>1 DEF TypeOK, FeatureIds
  <2>2. CASE features[f].status = "delivering"
    <3>1. /\ after(f) \in Feature /\ after(f).code = features[f].code
          /\ after(f).workspace = features[f].workspace /\ after(f).ready = features[f].ready
          /\ after(f).next = features[f].next /\ after(f).sources = features[f].sources
      BY <2>1, <2>2 DEF Feature
    <3> HIDE DEF after
    <3> QED BY <2>1, <2>2, <3>1 DEF Sound, Asks
  <2> QED BY <2>1, <2>2
<1>3. features' = [f \in FeatureIds |-> after(f)] /\ FeatureIds = 1 .. Len(features)
      /\ Len(features) \in Nat
  BY <1>1 DEF InstallLegacyRun, TypeOK, FeatureIds
<1> HIDE DEF after
<1>4. features' \in Seq(Feature) /\ DOMAIN features' = FeatureIds
      /\ \A f \in FeatureIds : features'[f] = after(f)
  BY <1>2, <1>3
<1>5. TypeOK'
  <2>1. definition' \in Nat /\ baseline' \subseteq RoleIds
    BY <1>1 DEF TypeOK, InstallLegacyRun
  <2> QED BY <1>4, <2>1 DEF TypeOK
<1>6. CodesAreUnique'
  BY <1>1, <1>2, <1>4 DEF CodesAreUnique, FeatureIds
<1>7. \A f \in DOMAIN features' : Sound(f, features'[f])
  BY <1>2, <1>4
<1> QED BY <1>5, <1>6, <1>7, InvariantByFeaturesNext

\* Every step.
LEMMA NextKeeps ==
  ASSUME DiscoveryAssumption, DiscoveryInvariant, [Next]_vars
  PROVE  DiscoveryInvariant'
<1>1. CASE UNCHANGED vars
  BY <1>1 DEF vars, DiscoveryInvariant, TypeOK, CodesAreUnique, DraftsAskOn, ReadyIsSettled, FeatureIds
<1>2. CASE Replace
  BY <1>2, ReplaceKeeps DEF Replace
<1>3. CASE Confirm
  BY <1>3, ConfirmKeeps DEF Confirm
<1> QED BY <1>1, <1>2, <1>3, OpenFeatureDiscoveryKeeps, InstallLegacyRunKeeps DEF Next

\* Whatever Agents submit and however often, what the owner can confirm is settled, each
\* Feature has a code of its own, and a draft that is not ready says what to ask next
\* (feature_discovery.go, productFeatureReadiness and confirmFeature).
THEOREM DiscoveryHolds == Spec => []DiscoveryInvariant
<1>1. Init => DiscoveryInvariant
  BY InitHolds, DiscoveryAssumption
<1>2. DiscoveryInvariant /\ [Next]_vars => DiscoveryInvariant'
  BY NextKeeps, DiscoveryAssumption
<1> QED BY <1>1, <1>2, PTL DEF Spec

\* One step forgets no source and touches nothing that is confirmed.
SourcesStep ==
    \A f \in FeatureIds :
        /\ features[f].sources \subseteq features'[f].sources
        /\ features[f].status # "draft" =>
             /\ features'[f].sources = features[f].sources
             /\ features'[f].workspace = features[f].workspace

\* A Feature that is added leaves the others.
LEMMA AddedKeepsSources ==
  ASSUME TypeOK, NEW x, features' = Append(features, x)
  PROVE  SourcesStep
<1>1. \A f \in FeatureIds : features'[f] = features[f]
  BY DEF TypeOK, FeatureIds
<1> QED BY <1>1 DEF SourcesStep

\* No step forgets a source.
LEMMA NextKeepsSources == ASSUME TypeOK, [Next]_vars PROVE SourcesStep
<1>1. CASE UNCHANGED vars
  BY <1>1 DEF vars, SourcesStep
<1>2. CASE OpenFeatureDiscovery
  BY <1>2, AddedKeepsSources DEF OpenFeatureDiscovery
<1>3. ASSUME NEW f, NEW code, NEW revision, NEW w, NEW thread,
             ReplaceFeatureDiscovery(f, code, revision, w, thread)
      PROVE  SourcesStep
  <2>1. CASE \E x : features' = Append(features, x)
    BY <2>1, AddedKeepsSources
  <2>2. CASE /\ f \in FeatureIds
             /\ features[f].status = "draft"
             /\ features' = [features EXCEPT ![f] =
                   Draft(f, code, features[f].version + 1, w,
                         AppendFeatureSource(features[f].sources, thread))]
    <3>1. features'[f].sources = features[f].sources \cup {thread}
      BY <2>2 DEF Draft, AppendFeatureSource, TypeOK, FeatureIds
    <3>2. \A g \in FeatureIds \ {f} : features'[g] = features[g]
      BY <2>2 DEF TypeOK, FeatureIds
    <3> QED BY <2>2, <3>1, <3>2 DEF SourcesStep
  <2> QED BY <1>3, <2>1, <2>2 DEF ReplaceFeatureDiscovery
<1>4. ASSUME NEW f, NEW version, ConfirmFeature(f, version)
      PROVE  SourcesStep
  <2>1. features[f] \in Feature /\ f \in FeatureIds
    BY <1>4 DEF TypeOK, FeatureIds, ConfirmFeature
  <2>2. features'[f].sources = features[f].sources /\ features[f].status = "draft"
    BY <1>4, <2>1 DEF ConfirmFeature, TypeOK, FeatureIds, Feature
  <2>3. \A g \in FeatureIds \ {f} : features'[g] = features[g]
    BY <1>4 DEF ConfirmFeature, TypeOK, FeatureIds
  <2> QED BY <2>2, <2>3 DEF SourcesStep
<1>5. CASE InstallLegacyRun
  <2>1. ASSUME NEW f \in FeatureIds
        PROVE  /\ features'[f].sources = features[f].sources
               /\ features'[f].workspace = features[f].workspace
    <3>1. features[f] \in Feature
      BY DEF TypeOK, FeatureIds
    <3>2. features'[f] = IF features[f].status = "delivering"
                         THEN [features[f] EXCEPT !.status = "installed"]
                         ELSE features[f]
      BY <1>5 DEF InstallLegacyRun
    <3> QED BY <3>1, <3>2 DEF Feature
  <2> QED BY <2>1 DEF SourcesStep
<1> QED BY <1>1, <1>2, <1>3, <1>4, <1>5 DEF Next, Replace, Confirm

\* No Conversation or Run that contributed is ever forgotten, and nothing that is
\* confirmed changes (appendFeatureSource and confirmFeature).
THEOREM SourcesStayFrozen == Spec => SourcesAreFrozen
<1>1. TypeOK /\ [Next]_vars => [SourcesStep]_vars
  BY NextKeepsSources
<1>2. DiscoveryInvariant => TypeOK
  BY DEF DiscoveryInvariant
<1> QED BY <1>1, <1>2, DiscoveryHolds, PTL DEF Spec, SourcesAreFrozen, SourcesStep

-----------------------------------------------------------------------------
(* Discovery stays within what the Product's lifecycle relies on.          *)

\* Only the first Feature is ever delivered here, and its installation is what raises
\* the definition.
OldRunOnly ==
    /\ \A f \in FeatureIds : features[f].status \in {"delivering", "installed"} => f = 1
    /\ definition = 1 \/ (FeatureIds # {} /\ features[1].status = "installed")
    /\ FeatureIds # {} /\ features[1].status = "installed" => definition # 1
    /\ HasOldRun => LegacyRun

\* The Features as ProductLifecycle sees them.
LEMMA MappedFeatures ==
  ASSUME TypeOK
  PROVE  /\ Len(LifecycleFeatures) = Len(features) /\ Lifecycle!FeatureIds = FeatureIds
         /\ DOMAIN LifecycleFeatures = FeatureIds
         /\ FeatureIds = 1 .. Len(features) /\ Len(features) \in Nat
         /\ \A f \in FeatureIds : LifecycleFeatures[f] = LifecycleFeature(features[f])
<1>1. FeatureIds = 1 .. Len(features) /\ Len(features) \in Nat
  BY DEF TypeOK, FeatureIds
<1>2. LifecycleFeatures = [f \in 1 .. Len(features) |-> LifecycleFeature(features[f])]
  BY <1>1 DEF LifecycleFeatures
<1>3. DOMAIN LifecycleFeatures = 1 .. Len(features) /\ Len(LifecycleFeatures) = Len(features)
  BY <1>1, <1>2
<1> QED BY <1>1, <1>2, <1>3 DEF Lifecycle!FeatureIds

\* A Feature that is added.
LEMMA MappedAppend ==
  ASSUME TypeOK, NEW x, features' = Append(features, x)
  PROVE  LifecycleFeatures' = Append(LifecycleFeatures, LifecycleFeature(x))
<1> DEFINE n == Len(features)
<1>1. FeatureIds = 1 .. n /\ n \in Nat /\ Len(LifecycleFeatures) = n
      /\ \A f \in 1 .. n : LifecycleFeatures[f] = LifecycleFeature(features[f])
  BY MappedFeatures
<1>2. /\ DOMAIN features' = 1 .. (n + 1)
      /\ \A f \in 1 .. n : features'[f] = features[f]
      /\ features'[n + 1] = x
  BY <1>1 DEF TypeOK
<1>3. LifecycleFeatures' = [f \in 1 .. (n + 1) |-> LifecycleFeature(features'[f])]
  BY <1>2 DEF LifecycleFeatures, FeatureIds
<1>4. \A f \in 1 .. (n + 1) : f \in 1 .. n \/ f = n + 1
  BY <1>1
<1>5. LifecycleFeatures' = [f \in 1 .. (n + 1) |->
                               IF f = n + 1 THEN LifecycleFeature(x) ELSE LifecycleFeatures[f]]
  <2>1. \A f \in 1 .. (n + 1) : LifecycleFeature(features'[f])
            = IF f = n + 1 THEN LifecycleFeature(x) ELSE LifecycleFeatures[f]
    BY <1>1, <1>2, <1>4
  <2> QED BY <1>3, <2>1
<1> DEFINE list == LifecycleFeatures
           e == LifecycleFeature(x)
           S == {list[f] : f \in 1 .. n} \cup {e}
<1>6. list \in Seq(S) /\ e \in S
  <2>1. list \in [1 .. n -> S] /\ n \in Nat
    BY <1>1 DEF LifecycleFeatures
  <2> QED BY <2>1
<1> HIDE DEF n, list, e, S
<1>7. Append(list, e) = [f \in 1 .. (n + 1) |-> IF f = n + 1 THEN e ELSE list[f]]
  <2>1. Len(list) = n
    BY <1>1 DEF list
  <2> DEFINE grown == Append(list, e)
             table == [f \in 1 .. (n + 1) |-> IF f = n + 1 THEN e ELSE list[f]]
  <2>2. /\ grown \in Seq(S) /\ Len(grown) = n + 1 /\ grown[n + 1] = e
        /\ \A f \in 1 .. n : grown[f] = list[f]
    BY <1>6, <2>1
  <2>3. \A f \in 1 .. (n + 1) : f \in 1 .. n \/ f = n + 1
    BY <1>1
  <2>4. \A f \in 1 .. (n + 1) : f # n + 1 => f \in 1 .. n
    BY <2>3
  <2>5. \A f \in 1 .. (n + 1) : grown[f] = table[f]
    BY <2>2, <2>4
  <2> HIDE DEF grown
  <2>6. grown = [f \in 1 .. (n + 1) |-> grown[f]]
    <3>1. DOMAIN grown = 1 .. (n + 1) /\ grown = [f \in DOMAIN grown |-> grown[f]]
      BY <2>2
    <3> QED BY <3>1
  <2> QED BY <2>5, <2>6 DEF grown
<1> QED BY <1>5, <1>7 DEF list, e

\* A Feature that is replaced.
LEMMA MappedExcept ==
  ASSUME TypeOK, NEW f \in FeatureIds, NEW x, features' = [features EXCEPT ![f] = x]
  PROVE  LifecycleFeatures' = [LifecycleFeatures EXCEPT ![f] = LifecycleFeature(x)]
<1>1. /\ DOMAIN features' = FeatureIds /\ features'[f] = x
      /\ \A g \in FeatureIds \ {f} : features'[g] = features[g]
  BY DEF TypeOK, FeatureIds
<1>2. LifecycleFeatures' = [g \in FeatureIds |-> LifecycleFeature(features'[g])]
  BY <1>1 DEF LifecycleFeatures, FeatureIds
<1>3. [LifecycleFeatures EXCEPT ![f] = LifecycleFeature(x)]
          = [g \in FeatureIds |-> IF g = f THEN LifecycleFeature(x) ELSE LifecycleFeature(features[g])]
  BY DEF LifecycleFeatures
<1>4. \A g \in FeatureIds : LifecycleFeature(features'[g])
          = IF g = f THEN LifecycleFeature(x) ELSE LifecycleFeature(features[g])
  BY <1>1
<1> QED BY <1>2, <1>3, <1>4

\* A draft leaves the run and the Product as they are.
LEMMA DraftsLeaveTheRun ==
  ASSUME TypeOK, OldRunOnly, UNCHANGED <<definition, baseline>>,
         \/ \E x : x.status = "draft" /\ features' = Append(features, x)
         \/ \E f \in FeatureIds : \E x :
                /\ features[f].status = "draft"
                /\ x.status \in {"draft", "confirmed"}
                /\ features' = [features EXCEPT ![f] = x]
  PROVE  /\ OldRunOnly'
         /\ UNCHANGED Lifecycle!product /\ UNCHANGED LifecycleRuns
<1>1. /\ FeatureIds = 1 .. Len(features) /\ Len(features) \in Nat
      /\ FeatureIds \subseteq DOMAIN features'
      /\ \A f \in FeatureIds :
            \/ features'[f] = features[f]
            \/ features[f].status = "draft" /\ features'[f].status \in {"draft", "confirmed"}
      /\ \A f \in DOMAIN features' \ FeatureIds : features'[f].status = "draft"
      /\ FeatureIds = {} => DOMAIN features' \subseteq {1}
      /\ FeatureIds # {} => 1 \in FeatureIds
      /\ DOMAIN features' # {} => 1 \in DOMAIN features'
  <2>1. FeatureIds = 1 .. Len(features) /\ Len(features) \in Nat
    BY DEF TypeOK, FeatureIds
  <2>2. CASE \E x : x.status = "draft" /\ features' = Append(features, x)
    <3>1. PICK x : x.status = "draft" /\ features' = Append(features, x)
      BY <2>2
    <3>2. /\ DOMAIN features' = 1 .. (Len(features) + 1)
          /\ \A f \in FeatureIds : features'[f] = features[f]
          /\ features'[Len(features) + 1] = x
      BY <2>1, <3>1 DEF TypeOK
    <3> QED BY <2>1, <3>1, <3>2
  <2>3. CASE \E f \in FeatureIds : \E x :
               /\ features[f].status = "draft"
               /\ x.status \in {"draft", "confirmed"}
               /\ features' = [features EXCEPT ![f] = x]
    <3>0. PICK f \in FeatureIds : \E x :
              /\ features[f].status = "draft"
              /\ x.status \in {"draft", "confirmed"}
              /\ features' = [features EXCEPT ![f] = x]
      BY <2>3
    <3>1. PICK x : /\ features[f].status = "draft"
                   /\ x.status \in {"draft", "confirmed"}
                   /\ features' = [features EXCEPT ![f] = x]
      BY <3>0
    <3>2. /\ DOMAIN features' = FeatureIds
          /\ features'[f] = x /\ \A g \in FeatureIds \ {f} : features'[g] = features[g]
      BY <3>1 DEF TypeOK, FeatureIds
    <3>3. \A g \in FeatureIds :
              \/ features'[g] = features[g]
              \/ features[g].status = "draft" /\ features'[g].status \in {"draft", "confirmed"}
      BY <3>1, <3>2
    <3>4. FeatureIds # {} => 1 \in FeatureIds
      BY <2>1
    <3> QED BY <2>1, <3>2, <3>3, <3>4
  <2> QED BY <2>2, <2>3
<1>2. HasOldRun' = HasOldRun
  <2>1. CASE FeatureIds = {}
    <3>1. ~HasOldRun
      BY <2>1 DEF HasOldRun
    <3>2. ~HasOldRun'
      BY <1>1, <2>1 DEF HasOldRun, FeatureIds
    <3> QED BY <3>1, <3>2 DEF HasOldRun
  <2>2. CASE FeatureIds # {}
    <3>1. 1 \in FeatureIds /\ DOMAIN features' # {}
      BY <1>1, <2>2
    <3>2. features'[1].status \in {"delivering", "installed"}
              <=> features[1].status \in {"delivering", "installed"}
      BY <1>1, <3>1
    <3> QED BY <2>2, <3>1, <3>2 DEF HasOldRun, FeatureIds
  <2> QED BY <2>1, <2>2
<1>3. OldRunInstalled' = OldRunInstalled
  BY DEF OldRunInstalled
<1>4. OldRunOnly'
  <2>1. \A f \in DOMAIN features' : features'[f].status \in {"delivering", "installed"} => f = 1
    BY <1>1 DEF OldRunOnly
  <2>2. FeatureIds # {} /\ features[1].status = "installed"
            <=> DOMAIN features' # {} /\ features'[1].status = "installed"
    <3>1. CASE FeatureIds = {}
      BY <1>1, <3>1
    <3>2. CASE FeatureIds # {}
      BY <1>1, <3>2
    <3> QED BY <3>1, <3>2
  <2> QED BY <1>2, <2>1, <2>2 DEF OldRunOnly, FeatureIds
<1> QED BY <1>2, <1>3, <1>4
        DEF Lifecycle!product, LifecycleStatus, LifecycleEngineering, LifecycleDeployment,
            LifecycleRuns, OldRun

\* A draft has no place in the queue.
DraftsUnqueued == \A f \in FeatureIds : features[f].status = "draft" => features[f].sequence = 0

\* What the refinement rests on.
Ground == DiscoveryInvariant /\ OldRunOnly /\ DraftsUnqueued

\* A discovery is opened.
LEMMA OpenIsOfLifecycle ==
  ASSUME DiscoveryAssumption, Ground, OpenFeatureDiscovery
  PROVE  Lifecycle!Next /\ OldRunOnly' /\ DraftsUnqueued'
<1> DEFINE x == OpenedFeature(NextFeatureCode)
<1>1. TypeOK /\ OldRunOnly /\ DraftsUnqueued
  BY DEF Ground, DiscoveryInvariant
<1>2. features' = Append(features, x) /\ UNCHANGED <<definition, baseline>> /\ x.status = "draft"
  BY DEF OpenFeatureDiscovery, OpenedFeature
<1>3. LifecycleFeature(x) = Lifecycle!NewFeature(1, FALSE, Lifecycle!EmptySpecification)
  BY DEF LifecycleFeature, OpenedFeature, EmptyWorkspace, Nothing, GrantedRoles,
         Lifecycle!NewFeature, Lifecycle!EmptySpecification, Lifecycle!NoRun
<1> HIDE DEF x
<1>4. LifecycleFeatures' = Append(LifecycleFeatures, LifecycleFeature(x))
  BY <1>1, <1>2, MappedAppend
<1>5. OldRunOnly' /\ UNCHANGED Lifecycle!product /\ UNCHANGED LifecycleRuns
  BY <1>1, <1>2, DraftsLeaveTheRun
<1>6. Len(LifecycleFeatures) < MaxFeatures
  BY <1>1, MappedFeatures DEF OpenFeatureDiscovery
<1>7. Lifecycle!OpenFeatureDiscovery("human")
  BY <1>3, <1>4, <1>5, <1>6
     DEF Lifecycle!OpenFeatureDiscovery, Lifecycle!CanOpenDiscovery, Lifecycle!ProductCommand,
         LifecycleStatus
<1>8. Lifecycle!Next
  BY <1>7 DEF Lifecycle!Next, Lifecycle!ProductStep, Lifecycle!DiscoveryStep, Lifecycle!ActorKinds
<1>9. DraftsUnqueued'
  <2>1. x.sequence = 0
    BY DEF x, OpenedFeature
  <2>2. /\ DOMAIN features' = 1 .. (Len(features) + 1) /\ Len(features) \in Nat
        /\ FeatureIds = 1 .. Len(features)
        /\ \A f \in FeatureIds : features'[f] = features[f]
        /\ features'[Len(features) + 1] = x
    BY <1>1, <1>2 DEF TypeOK, FeatureIds
  <2> QED BY <1>1, <2>1, <2>2 DEF DraftsUnqueued, FeatureIds
<1> QED BY <1>5, <1>8, <1>9

\* What a workspace says as a specification of ProductLifecycle.
SpecificationOf(f, w) ==
    [declared |-> DOMAIN w.roles, granted |-> GrantedRoles(w), complete |-> Ready(f, w)]

\* It is one, it grants to roles that are known, and it is ready when the workspace is.
LEMMA SpecificationHolds ==
  ASSUME TypeOK, NEW w \in Workspace, NEW f, AuthorizationResolves(f, w)
  PROVE  /\ SpecificationOf(f, w) \in Lifecycle!Specification
         /\ SpecificationOf(f, w).granted
               \subseteq Lifecycle!KnownRoles(f) \cup SpecificationOf(f, w).declared
         /\ Lifecycle!Ready(f, SpecificationOf(f, w)) = Ready(f, w)
<1>1. SpecificationOf(f, w) \in Lifecycle!Specification
  <2>1. DOMAIN w.roles \subseteq RoleIds
    BY DEF Workspace, PartialFunctions
  <2>2. GrantedRoles(w) \subseteq RoleIds
    BY DEF Workspace, Grant, GrantedRoles
  <2>3. Ready(f, w) \in BOOLEAN
    BY DEF Ready
  <2> QED BY <2>1, <2>2, <2>3 DEF SpecificationOf, Lifecycle!Specification
<1>2. Lifecycle!KnownRoles(f) = KnownRoles(f)
  <2>1. \A g \in FeatureIds : LifecycleFeatures[g].specification.declared
                                 = DOMAIN features[g].workspace.roles
    BY MappedFeatures DEF LifecycleFeature
  <2>2. Lifecycle!FeatureIds = FeatureIds
    BY MappedFeatures
  <2>3. {LifecycleFeatures[g].specification.declared : g \in FeatureIds \ {f}}
            = {DOMAIN features[g].workspace.roles : g \in FeatureIds \ {f}}
    BY <2>1
  <2> QED BY <2>2, <2>3 DEF Lifecycle!KnownRoles, KnownRoles, FeatureIds
<1>3. GrantedRoles(w) \subseteq KnownRoles(f) \cup DOMAIN w.roles
  BY DEF AuthorizationResolves, RolesFor
<1>4. Ready(f, w) => GrantedRoles(w) # {} /\ (f = 1 => DOMAIN w.roles # {})
  <2>1. SUFFICES ASSUME Ready(f, w)
                 PROVE  GrantedRoles(w) # {} /\ (f = 1 => DOMAIN w.roles # {})
    OBVIOUS
  <2>2. AuthorizationComplete(f, w)
    <3>1. "authorization" \notin BlockingSections(f, w)
      BY <2>1 DEF Ready
    <3> QED BY <3>1 DEF BlockingSections
  <2>3. PICK g \in w.grants : g.roles # {}
    BY <2>2 DEF AuthorizationComplete, Granted
  <2> QED BY <2>2, <2>3 DEF AuthorizationComplete, BaselineEstablished, GrantedRoles
<1>5. Lifecycle!Ready(f, SpecificationOf(f, w)) = Ready(f, w)
  <2>1. Ready(f, w) \in BOOLEAN
    BY DEF Ready
  <2> QED BY <1>4, <2>1 DEF SpecificationOf, Lifecycle!Ready
<1> QED BY <1>1, <1>2, <1>3, <1>5 DEF SpecificationOf

\* A workspace replaces a draft, or begins one.
LEMMA ReplaceIsOfLifecycle ==
  ASSUME DiscoveryAssumption, Ground, NEW f \in 1 .. MaxFeatures,
         NEW code, NEW revision, NEW w \in Workspaces, NEW thread,
         ReplaceFeatureDiscovery(f, code, revision, w, thread)
  PROVE  Lifecycle!Next /\ OldRunOnly' /\ DraftsUnqueued'
<1> DEFINE spec == SpecificationOf(f, w)
<1>1. TypeOK /\ OldRunOnly /\ DraftsUnqueued /\ w \in Workspace
  BY DEF Ground, DiscoveryInvariant, DiscoveryAssumption
<1>2. /\ spec \in Lifecycle!Specification
      /\ spec.granted \subseteq Lifecycle!KnownRoles(f) \cup spec.declared
      /\ Lifecycle!Ready(f, spec) = Ready(f, w)
  BY <1>1, SpecificationHolds DEF ReplaceFeatureDiscovery
<1>3. Lifecycle!ProductCommand("agent", {"human", "agent"})
  BY DEF Lifecycle!ProductCommand, LifecycleStatus
<1>4. UNCHANGED <<definition, baseline>>
  BY DEF ReplaceFeatureDiscovery
<1>5. \A c, version, sources :
          LifecycleFeature(Draft(f, c, version, w, sources))
              = Lifecycle!NewFeature(version, Ready(f, w), spec)
  BY DEF LifecycleFeature, Draft, SpecificationOf, Lifecycle!NewFeature, Lifecycle!NoRun
<1> HIDE DEF spec
<1>6. CASE /\ f \in FeatureIds
           /\ features[f].status = "draft"
           /\ features[f].version < MaxVersion
           /\ features' = [features EXCEPT ![f] =
                 Draft(f, code, features[f].version + 1, w,
                       AppendFeatureSource(features[f].sources, thread))]
  <2> DEFINE x == Draft(f, code, features[f].version + 1, w,
                        AppendFeatureSource(features[f].sources, thread))
  <2>1. features' = [features EXCEPT ![f] = x] /\ x.status = "draft" /\ x.sequence = 0
    BY <1>6 DEF Draft
  <2>2. LifecycleFeature(x) = Lifecycle!NewFeature(features[f].version + 1, Ready(f, w), spec)
    BY <1>5
  <2>3. /\ LifecycleFeatures[f] = LifecycleFeature(features[f])
        /\ Lifecycle!FeatureIds = FeatureIds
    BY <1>1, <1>6, MappedFeatures
  <2>4. /\ LifecycleFeatures[f].status = "draft" /\ LifecycleFeatures[f].sequence = 0
        /\ LifecycleFeatures[f].version = features[f].version
        /\ LifecycleFeatures[f].run = 0
        /\ LifecycleFeatures[f] = [status |-> "draft", sequence |-> 0,
                version |-> features[f].version, ready |-> LifecycleFeatures[f].ready,
                specification |-> LifecycleFeatures[f].specification, run |-> 0]
    BY <1>1, <1>6, <2>3 DEF LifecycleFeature, DraftsUnqueued
  <2> HIDE DEF x
  <2>5. LifecycleFeature(x)
            = [LifecycleFeatures[f] EXCEPT !.version = Lifecycle!NextVersion(LifecycleFeatures[f].version),
                                           !.ready = Lifecycle!Ready(f, spec),
                                           !.specification = spec]
    <3> DEFINE old == LifecycleFeatures[f]
    <3>1. PICK ready, before : old = [status |-> "draft", sequence |-> 0,
                version |-> features[f].version, ready |-> ready,
                specification |-> before, run |-> 0]
      BY <2>4
    <3> HIDE DEF old
    <3>2. old.version = features[f].version
      BY <3>1
    <3>3. [old EXCEPT !.version = features[f].version + 1, !.ready = Ready(f, w),
                      !.specification = spec]
              = [status |-> "draft", sequence |-> 0, version |-> features[f].version + 1,
                 ready |-> Ready(f, w), specification |-> spec, run |-> 0]
      <4> DEFINE r == Ready(f, w)
                 v == features[f].version
                 n == features[f].version + 1
      <4> HIDE DEF r, v, n, spec
      <4> DEFINE Saying(x1, x2, x3) ==
            [status |-> "draft", sequence |-> 0, version |-> x1, ready |-> x2,
             specification |-> x3, run |-> 0]
      <4>1. [Saying(v, ready, before) EXCEPT !.version = n, !.ready = r, !.specification = spec]
                = Saying(n, r, spec)
        <5>1. [Saying(v, ready, before) EXCEPT !.version = n] = Saying(n, ready, before)
          OBVIOUS
        <5>2. [Saying(n, ready, before) EXCEPT !.ready = r] = Saying(n, r, before)
          OBVIOUS
        <5>3. [Saying(n, r, before) EXCEPT !.specification = spec] = Saying(n, r, spec)
          OBVIOUS
        <5>4. [Saying(v, ready, before) EXCEPT !.version = n, !.ready = r, !.specification = spec]
                  = [[[Saying(v, ready, before) EXCEPT !.version = n]
                        EXCEPT !.ready = r] EXCEPT !.specification = spec]
          OBVIOUS
        <5> QED BY <5>1, <5>2, <5>3, <5>4
      <4>2. old = [status |-> "draft", sequence |-> 0, version |-> v, ready |-> ready,
                   specification |-> before, run |-> 0]
        BY <3>1 DEF v
      <4>3. [old EXCEPT !.version = n, !.ready = r, !.specification = spec]
              = [status |-> "draft", sequence |-> 0, version |-> n,
                 ready |-> r, specification |-> spec, run |-> 0]
        BY <4>1, <4>2, Zenon
      <4> QED BY <4>3 DEF n, r
    <3> QED BY <1>2, <2>2, <3>2, <3>3
            DEF Lifecycle!NewFeature, Lifecycle!NextVersion, Lifecycle!NoRun, old
  <2>6. LifecycleFeatures' = [LifecycleFeatures EXCEPT ![f] = LifecycleFeature(x)]
    BY <1>1, <1>6, <2>1, MappedExcept
  <2>7. OldRunOnly' /\ UNCHANGED Lifecycle!product /\ UNCHANGED LifecycleRuns
    BY <1>1, <1>4, <1>6, <2>1, DraftsLeaveTheRun
  <2>8. Lifecycle!Replaceable(f) /\ LifecycleFeatures[f].version < MaxVersion
    BY <1>6, <2>4 DEF Lifecycle!Replaceable
  <2>9. Lifecycle!ReplaceFeatureDiscovery("agent", f, spec)
    <3>1. f \in Lifecycle!FeatureIds
      BY <1>1, <1>6, MappedFeatures
    <3>2. Lifecycle!CanReplaceDiscovery("agent", f, spec)
      BY <1>2, <1>3, <2>8, <3>1 DEF Lifecycle!CanReplaceDiscovery
    <3> QED BY <1>2, <2>3, <2>5, <2>6, <2>7, <3>1, <3>2 DEF Lifecycle!ReplaceFeatureDiscovery
  <2>10. DraftsUnqueued'
    <3>1. /\ DOMAIN features' = FeatureIds
          /\ features'[f] = x /\ \A g \in FeatureIds \ {f} : features'[g] = features[g]
      BY <1>1, <1>6, <2>1 DEF TypeOK, FeatureIds
    <3> QED BY <1>1, <2>1, <3>1 DEF DraftsUnqueued, FeatureIds
  <2> QED BY <1>2, <2>7, <2>9, <2>10
          DEF Lifecycle!Next, Lifecycle!ProductStep, Lifecycle!DiscoveryStep, Lifecycle!ActorKinds
<1>7. CASE /\ f = Len(features) + 1
           /\ features' = Append(features, Draft(f, code, 1, w, AppendFeatureSource({}, thread)))
  <2> DEFINE x == Draft(f, code, 1, w, AppendFeatureSource({}, thread))
  <2>1. features' = Append(features, x) /\ x.status = "draft" /\ x.sequence = 0
    BY <1>7 DEF Draft
  <2>2. LifecycleFeature(x) = Lifecycle!NewFeature(1, Ready(f, w), spec)
    BY <1>5
  <2> HIDE DEF x
  <2>3. LifecycleFeatures' = Append(LifecycleFeatures, LifecycleFeature(x))
    BY <1>1, <2>1, MappedAppend
  <2>4. OldRunOnly' /\ UNCHANGED Lifecycle!product /\ UNCHANGED LifecycleRuns
    BY <1>1, <1>4, <2>1, DraftsLeaveTheRun
  <2>5. f = Len(LifecycleFeatures) + 1 /\ f <= MaxFeatures
    BY <1>1, <1>7, MappedFeatures DEF DiscoveryAssumption
  <2>6. Lifecycle!ReplaceFeatureDiscovery("agent", f, spec)
    <3>1. f \notin FeatureIds /\ Lifecycle!FeatureIds = FeatureIds
      BY <1>1, <1>7, MappedFeatures DEF TypeOK, FeatureIds
    <3>2. Lifecycle!CanReplaceDiscovery("agent", f, spec)
      BY <1>2, <1>3, <2>5 DEF Lifecycle!CanReplaceDiscovery
    <3> QED BY <1>2, <2>2, <2>3, <2>4, <3>1, <3>2 DEF Lifecycle!ReplaceFeatureDiscovery
  <2>7. DraftsUnqueued'
    <3>1. /\ DOMAIN features' = 1 .. (Len(features) + 1) /\ Len(features) \in Nat
          /\ FeatureIds = 1 .. Len(features)
          /\ \A g \in FeatureIds : features'[g] = features[g]
          /\ features'[Len(features) + 1] = x
      BY <1>1, <2>1 DEF TypeOK, FeatureIds
    <3> QED BY <1>1, <2>1, <3>1 DEF DraftsUnqueued, FeatureIds
  <2> QED BY <1>2, <2>4, <2>6, <2>7
          DEF Lifecycle!Next, Lifecycle!ProductStep, Lifecycle!DiscoveryStep, Lifecycle!ActorKinds
<1> QED BY <1>6, <1>7 DEF ReplaceFeatureDiscovery

\* Both modules give the next place in the queue.
LEMMA SameSequence ==
  ASSUME TypeOK
  PROVE  Lifecycle!NextDeliverySequence = HighestSequence + 1
<1> DEFINE given == {0} \cup {features[f].sequence : f \in FeatureIds}
<1>1. /\ HighestSequence \in given
      /\ \A f \in FeatureIds : features[f].sequence <= HighestSequence
      /\ HighestSequence \in Nat
  BY HighestIsGiven DEF TypeOK
<1>2. Lifecycle!SequencesGiven = given
  <2>1. \A f \in FeatureIds : LifecycleFeatures[f].sequence = features[f].sequence
    BY MappedFeatures DEF LifecycleFeature
  <2>2. Lifecycle!FeatureIds = FeatureIds
    BY MappedFeatures
  <2> QED BY <2>1, <2>2 DEF Lifecycle!SequencesGiven
<1>3. \A f \in FeatureIds : features[f].sequence \in Nat
  <2>1. \A f \in FeatureIds : features[f] \in Feature
    BY DEF TypeOK, FeatureIds
  <2> QED BY <2>1 DEF Feature
<1>4. given \subseteq Nat /\ \A y \in given : HighestSequence >= y
  BY <1>1, <1>3
<1> HIDE DEF given
<1>5. \A x \in given : (\A y \in given : x >= y) => x = HighestSequence
  BY <1>1, <1>4
<1>6. Lifecycle!HighestSequence = CHOOSE x \in given : \A y \in given : x >= y
  BY <1>2 DEF Lifecycle!HighestSequence, Lifecycle!Max
<1>7. Lifecycle!HighestSequence = HighestSequence
  BY <1>1, <1>4, <1>5, <1>6
<1> QED BY <1>7 DEF Lifecycle!NextDeliverySequence

\* The owner confirms a draft.
LEMMA ConfirmIsOfLifecycle ==
  ASSUME DiscoveryAssumption, Ground, NEW f \in 1 .. MaxFeatures, NEW version \in 1 .. MaxVersion,
         ConfirmFeature(f, version)
  PROVE  Lifecycle!Next /\ OldRunOnly' /\ DraftsUnqueued'
<1> DEFINE n == HighestSequence + 1
           x == [features[f] EXCEPT !.status = "confirmed", !.sequence = n, !.version = NoDraft]
           r == features[f].ready
           v == features[f].version
           w == features[f].workspace
           spec == [declared |-> DOMAIN w.roles, granted |-> GrantedRoles(w), complete |-> r]
           Saying(x1, x2, x3) == [status |-> x1, sequence |-> x2, version |-> x3,
                                  ready |-> r, specification |-> spec, run |-> 0]
<1>1. TypeOK /\ OldRunOnly /\ DraftsUnqueued
  BY DEF Ground, DiscoveryInvariant
<1>2. f \in FeatureIds /\ features[f].status = "draft" /\ version = v /\ r
      /\ UNCHANGED <<definition, baseline>>
  BY DEF ConfirmFeature
<1>3. features[f] \in Feature
  BY <1>1, <1>2 DEF TypeOK, FeatureIds
<1>4. features' = [features EXCEPT ![f] = x]
  BY DEF ConfirmFeature
<1>5. /\ x.status = "confirmed" /\ x.sequence = n /\ x.version = NoDraft
      /\ x.ready = r /\ x.workspace = w
  BY <1>3 DEF Feature
<1>6. features[f].sequence = 0
  BY <1>1, <1>2 DEF DraftsUnqueued
<1> HIDE DEF x
<1>7. LifecycleFeature(x) = Saying("confirmed", n, 0)
  BY <1>5 DEF LifecycleFeature, NoDraft
<1>8. LifecycleFeature(features[f]) = Saying("draft", 0, v)
  BY <1>2, <1>6 DEF LifecycleFeature
<1>9. LifecycleFeatures[f] = Saying("draft", 0, v) /\ Lifecycle!FeatureIds = FeatureIds
  BY <1>1, <1>2, <1>8, MappedFeatures
<1>10. [Saying("draft", 0, v) EXCEPT !.status = "confirmed", !.sequence = n, !.version = 0]
          = Saying("confirmed", n, 0)
  <2> HIDE DEF n, v, r, spec
  <2>1. [Saying("draft", 0, v) EXCEPT !.status = "confirmed"] = Saying("confirmed", 0, v)
    OBVIOUS
  <2>2. [Saying("confirmed", 0, v) EXCEPT !.sequence = n] = Saying("confirmed", n, v)
    OBVIOUS
  <2>3. [Saying("confirmed", n, v) EXCEPT !.version = 0] = Saying("confirmed", n, 0)
    OBVIOUS
  <2>4. [Saying("draft", 0, v) EXCEPT !.status = "confirmed", !.sequence = n, !.version = 0]
            = [[[Saying("draft", 0, v) EXCEPT !.status = "confirmed"]
                  EXCEPT !.sequence = n] EXCEPT !.version = 0]
    OBVIOUS
  <2> QED BY <2>1, <2>2, <2>3, <2>4
<1>11. /\ LifecycleFeatures[f].status = "draft" /\ LifecycleFeatures[f].version = v
       /\ LifecycleFeatures[f].ready
  BY <1>2, <1>9
<1>12. LifecycleFeatures' = [LifecycleFeatures EXCEPT ![f] = LifecycleFeature(x)]
  BY <1>1, <1>2, <1>4, MappedExcept
<1>13. OldRunOnly' /\ UNCHANGED Lifecycle!product /\ UNCHANGED LifecycleRuns
  BY <1>1, <1>2, <1>4, <1>5, DraftsLeaveTheRun
<1>14. Lifecycle!NextDeliverySequence = n
  BY <1>1, SameSequence
<1> HIDE DEF n, Saying, v, r
<1>15. LifecycleFeatures' = [LifecycleFeatures EXCEPT ![f] =
              [LifecycleFeatures[f] EXCEPT !.status = "confirmed",
                                           !.sequence = Lifecycle!NextDeliverySequence,
                                           !.version = Lifecycle!NoDraft]]
  BY <1>7, <1>9, <1>10, <1>12, <1>14 DEF Lifecycle!NoDraft
<1>16. Lifecycle!ConfirmFeature("human", f, version)
  <2>1. Lifecycle!CanConfirm("human", f, version)
    BY <1>2, <1>9, <1>11
       DEF Lifecycle!CanConfirm, Lifecycle!ProductCommand, Lifecycle!NoDraft, LifecycleStatus
  <2> QED BY <1>13, <1>15, <2>1 DEF Lifecycle!ConfirmFeature
<1>17. DraftsUnqueued'
  <2>1. /\ DOMAIN features' = FeatureIds
        /\ features'[f] = x /\ \A g \in FeatureIds \ {f} : features'[g] = features[g]
    BY <1>1, <1>2, <1>4 DEF TypeOK, FeatureIds
  <2> QED BY <1>1, <1>5, <2>1 DEF DraftsUnqueued, FeatureIds
<1> QED BY <1>13, <1>16, <1>17
        DEF Lifecycle!Next, Lifecycle!ProductStep, Lifecycle!DiscoveryStep, Lifecycle!ActorKinds

\* The run of the older engine goes live.
LEMMA InstallIsOfLifecycle ==
  ASSUME DiscoveryAssumption, Ground, InstallLegacyRun
  PROVE  Lifecycle!Next /\ OldRunOnly' /\ DraftsUnqueued'
<1> DEFINE x == [features[1] EXCEPT !.status = "installed"]
<1>1. TypeOK /\ OldRunOnly /\ DraftsUnqueued
  BY DEF Ground, DiscoveryInvariant
<1>2. /\ 1 \in FeatureIds /\ features[1].status = "delivering"
      /\ \A g \in FeatureIds : features[g].status = "delivering" => g = 1
  BY <1>1 DEF InstallLegacyRun, InStatus, OldRunOnly
<1>3. definition = 1 /\ definition' = 2 /\ baseline' \in SUBSET RoleIds
  BY <1>1, <1>2 DEF OldRunOnly, InstallLegacyRun
<1>4. features[1] \in Feature
  BY <1>1, <1>2 DEF TypeOK, FeatureIds
<1>5. features' = [features EXCEPT ![1] = x]
  BY <1>1, <1>2 DEF InstallLegacyRun, TypeOK, FeatureIds
<1>6. /\ x.status = "installed" /\ x.sequence = features[1].sequence
      /\ x.version = features[1].version /\ x.ready = features[1].ready
      /\ x.workspace = features[1].workspace
  BY <1>4 DEF Feature
<1> HIDE DEF x
<1>7. LifecycleFeature(x) = [LifecycleFeature(features[1]) EXCEPT !.status = "installed"]
  BY <1>2, <1>6 DEF LifecycleFeature
<1>8. /\ LifecycleFeatures[1] = LifecycleFeature(features[1]) /\ Lifecycle!FeatureIds = FeatureIds
      /\ LifecycleFeatures[1].status = "delivering" /\ LifecycleFeatures[1].run = 1
  BY <1>1, <1>2, MappedFeatures DEF LifecycleFeature
<1>9. LifecycleFeatures' = [LifecycleFeatures EXCEPT ![1] = LifecycleFeature(x)]
  BY <1>1, <1>2, <1>5, MappedExcept
<1>10. LifecycleFeatures' = Lifecycle!Installed(1)
  BY <1>7, <1>8, <1>9 DEF Lifecycle!Installed
<1>11. /\ DOMAIN features' = FeatureIds
       /\ features'[1] = x /\ \A g \in FeatureIds \ {1} : features'[g] = features[g]
  BY <1>1, <1>2, <1>5 DEF TypeOK, FeatureIds
<1>12. HasOldRun /\ HasOldRun'
  BY <1>2, <1>6, <1>11 DEF HasOldRun, FeatureIds
<1>13. ~OldRunInstalled /\ OldRunInstalled'
  BY <1>3 DEF OldRunInstalled
<1>14. /\ LifecycleRuns = <<[feature |-> 1, revision |-> 1, v3 |-> FALSE, stage |-> "open"]>>
       /\ LifecycleRuns' = <<[feature |-> 1, revision |-> 1, v3 |-> FALSE, stage |-> "live"]>>
  BY <1>12, <1>13 DEF LifecycleRuns, OldRun
<1>15. /\ 1 \in Lifecycle!RunIds /\ LifecycleRuns[1].stage = "open" /\ LifecycleRuns[1].feature = 1
       /\ LifecycleRuns[1].revision = 1 /\ LifecycleRuns[1].v3 = FALSE
  BY <1>14 DEF Lifecycle!RunIds
<1>16. LifecycleRuns' = [LifecycleRuns EXCEPT ![1].stage = "live"]
  <2> DEFINE run == [feature |-> 1, revision |-> 1, v3 |-> FALSE, stage |-> "open"]
             later == [feature |-> 1, revision |-> 1, v3 |-> FALSE, stage |-> "live"]
  <2>1. /\ DOMAIN run = {"feature", "revision", "v3", "stage"} /\ run.feature = 1
        /\ run.revision = 1 /\ run.v3 = FALSE
    OBVIOUS
  <2>2. /\ DOMAIN later = DOMAIN run /\ later = [i \in DOMAIN later |-> later[i]]
        /\ later.feature = 1 /\ later.revision = 1 /\ later.v3 = FALSE /\ later.stage = "live"
    OBVIOUS
  <2>3. [run EXCEPT !.stage = "live"]
            = [i \in DOMAIN run |-> IF i = "stage" THEN "live" ELSE run[i]]
    OBVIOUS
  <2>4. LifecycleRuns = <<run>> /\ LifecycleRuns' = <<later>>
    BY <1>14
  <2> HIDE DEF run, later
  <2>5. \A i \in DOMAIN run : (IF i = "stage" THEN "live" ELSE run[i]) = later[i]
    BY <2>1, <2>2
  <2>6. [run EXCEPT !.stage = "live"] = later
    BY <2>2, <2>3, <2>5
  <2>7. LifecycleRuns[1] = run
    BY <2>4
  <2>8. [LifecycleRuns EXCEPT ![1] = later] = <<later>>
    BY <2>4
  <2>9. [LifecycleRuns EXCEPT ![1].stage = "live"] = [LifecycleRuns EXCEPT ![1] = later]
    BY <2>6, <2>7
  <2> QED BY <2>4, <2>8, <2>9
<1>17. /\ LifecycleStatus' = "active" /\ LifecycleDeployment' = 1
       /\ LifecycleEngineering' = LifecycleEngineering
  BY <1>12, <1>13 DEF LifecycleStatus, LifecycleDeployment, LifecycleEngineering
<1>18. Lifecycle!Installable("human", 1)
  BY <1>2, <1>3, <1>8, <1>15 DEF Lifecycle!Installable
<1>19. Lifecycle!GoLive("human", 1)
  BY <1>3, <1>10, <1>15, <1>16, <1>17, <1>18
     DEF Lifecycle!GoLive, Lifecycle!LiveActors, Lifecycle!DeploymentAfter
<1>20. OldRunOnly'
  <2>1. LegacyRun
    BY <1>1, <1>12 DEF OldRunOnly
  <2>2. \A g \in DOMAIN features' : features'[g].status \in {"delivering", "installed"} => g = 1
    BY <1>1, <1>11 DEF OldRunOnly
  <2>3. DOMAIN features' # {} /\ features'[1].status = "installed" /\ definition' # 1
    BY <1>2, <1>3, <1>6, <1>11
  <2> QED BY <2>1, <2>2, <2>3 DEF OldRunOnly, FeatureIds
<1>21. DraftsUnqueued'
  BY <1>1, <1>6, <1>11 DEF DraftsUnqueued, FeatureIds
<1>22. Lifecycle!EndRun
  BY <1>19 DEF Lifecycle!EndRun, Lifecycle!ActorKinds, DiscoveryAssumption
<1> QED BY <1>20, <1>21, <1>22 DEF Lifecycle!Next

\* A Product as created, or with the run of the older engine.
LEMMA InitIsOfLifecycle ==
  ASSUME DiscoveryAssumption, Init
  PROVE  Lifecycle!Init /\ OldRunOnly /\ DraftsUnqueued
<1>1. definition = 1 /\ baseline \in SUBSET RoleIds /\ ~OldRunInstalled
  BY DEF Init, OldRunInstalled
<1>2. /\ LifecycleStatus = "shaping" /\ LifecycleDeployment = 0
  BY <1>1 DEF LifecycleStatus, LifecycleDeployment
<1>3. CASE features = << >>
  <2>1. FeatureIds = {} /\ ~HasOldRun
    BY <1>3 DEF FeatureIds, HasOldRun
  <2>2. /\ LifecycleFeatures = << >> /\ LifecycleRuns = << >>
        /\ LifecycleEngineering = "frontend_queued"
    BY <2>1 DEF LifecycleFeatures, LifecycleRuns, LifecycleEngineering
  <2> QED BY <1>1, <1>2, <2>1, <2>2
          DEF Lifecycle!Init, Lifecycle!NoRun, OldRunOnly, DraftsUnqueued
<1>4. CASE /\ LegacyRun
           /\ \E w \in Workspaces, thread \in Threads :
                /\ features = <<[code |-> 1, status |-> "delivering", sequence |-> 1,
                                 version |-> NoDraft, workspace |-> w, ready |-> TRUE,
                                 next |-> NoQuestion, sources |-> {thread}]>>
                /\ Valid(w) /\ AuthorizationResolves(1, w) /\ Ready(1, w)
  <2>1. PICK w \in Workspaces, thread \in Threads :
            features = <<[code |-> 1, status |-> "delivering", sequence |-> 1,
                          version |-> NoDraft, workspace |-> w, ready |-> TRUE,
                          next |-> NoQuestion, sources |-> {thread}]>>
    BY <1>4
  <2> DEFINE spec == [declared |-> DOMAIN w.roles, granted |-> GrantedRoles(w), complete |-> TRUE]
  <2>2. spec \in Lifecycle!Specification
    <3>1. w \in Workspace
      BY DEF DiscoveryAssumption
    <3>2. DOMAIN w.roles \subseteq RoleIds
      BY <3>1 DEF Workspace, PartialFunctions
    <3>3. GrantedRoles(w) \subseteq RoleIds
      BY <3>1 DEF Workspace, Grant, GrantedRoles
    <3> QED BY <3>2, <3>3 DEF Lifecycle!Specification
  <2>3. /\ FeatureIds = 1 .. 1 /\ features[1].status = "delivering"
        /\ features[1].sequence = 1 /\ features[1].version = 0 /\ features[1].ready = TRUE
        /\ features[1].workspace = w
    BY <2>1 DEF FeatureIds, NoDraft
  <2>4. LifecycleFeature(features[1])
            = [status |-> "delivering", sequence |-> 1, version |-> 0, ready |-> TRUE,
               specification |-> spec, run |-> 1]
    BY <2>3 DEF LifecycleFeature
  <2> HIDE DEF spec
  <2>5. LifecycleFeatures
            = <<[status |-> "delivering", sequence |-> 1, version |-> 0, ready |-> TRUE,
                 specification |-> spec, run |-> 1]>>
    <3>1. LifecycleFeatures = [f \in 1 .. 1 |-> LifecycleFeature(features[f])]
      BY <2>3 DEF LifecycleFeatures
    <3>2. \A f \in 1 .. 1 : f = 1
      OBVIOUS
    <3> DEFINE only == [status |-> "delivering", sequence |-> 1, version |-> 0, ready |-> TRUE,
                        specification |-> spec, run |-> 1]
    <3> HIDE DEF only
    <3>3. LifecycleFeatures = [f \in 1 .. 1 |-> only]
      BY <2>4, <3>1, <3>2 DEF only
    <3>4. LifecycleFeatures = <<only>>
      BY <3>3
    <3> QED BY <3>4 DEF only
  <2>6. HasOldRun
    BY <2>3 DEF HasOldRun
  <2>7. /\ LifecycleRuns = <<[feature |-> 1, revision |-> 1, v3 |-> FALSE, stage |-> "open"]>>
        /\ LifecycleEngineering = "ready"
    BY <1>1, <2>6 DEF LifecycleRuns, LifecycleEngineering, OldRun
  <2>8. Lifecycle!Init
    BY <1>1, <1>2, <1>4, <2>2, <2>5, <2>7
       DEF Lifecycle!Init, Lifecycle!NoRun, Lifecycle!NoDraft
  <2>9. OldRunOnly /\ DraftsUnqueued
    BY <1>1, <1>4, <2>3 DEF OldRunOnly, DraftsUnqueued
  <2> QED BY <2>8, <2>9
<1> QED BY <1>3, <1>4 DEF Init

\* Every step of discovery is one of the lifecycle or changes nothing of it.
LEMMA NextIsOfLifecycle ==
  ASSUME DiscoveryAssumption, Ground, [Next]_vars
  PROVE  [Lifecycle!Next]_Lifecycle!vars /\ OldRunOnly' /\ DraftsUnqueued'
<1>1. CASE UNCHANGED vars
  <2>1. UNCHANGED <<definition, baseline, features>>
    BY <1>1 DEF vars
  <2>2. UNCHANGED Lifecycle!vars
    BY <2>1 DEF Lifecycle!vars, Lifecycle!product, LifecycleStatus, LifecycleEngineering,
                LifecycleDeployment, LifecycleFeatures, LifecycleRuns, OldRun,
                OldRunInstalled, HasOldRun, FeatureIds
  <2>3. OldRunOnly' /\ DraftsUnqueued'
    BY <2>1 DEF Ground, OldRunOnly, DraftsUnqueued, HasOldRun, FeatureIds
  <2> QED BY <2>2, <2>3
<1>2. CASE Replace
  BY <1>2, ReplaceIsOfLifecycle DEF Replace
<1>3. CASE Confirm
  BY <1>3, ConfirmIsOfLifecycle DEF Confirm
<1> QED BY <1>1, <1>2, <1>3, OpenIsOfLifecycle, InstallIsOfLifecycle DEF Next

\* The readiness that Delivery works out of a workspace, and the order in which it
\* refuses, stores and confirms, never leave what the Product's lifecycle relies on.
THEOREM DiscoveryImplementsLifecycle == Spec => ImplementsProductLifecycle
<1>1. Init => Lifecycle!Init /\ Ground
  BY InitIsOfLifecycle, InitHolds, DiscoveryAssumption DEF Ground
<1>2. Ground /\ [Next]_vars => Ground' /\ [Lifecycle!Next]_Lifecycle!vars
  BY NextIsOfLifecycle, NextKeeps, DiscoveryAssumption DEF Ground
<1> QED BY <1>1, <1>2, PTL DEF Spec, ImplementsProductLifecycle, Lifecycle!Spec
=============================================================================
