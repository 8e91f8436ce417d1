-------------------------- MODULE ExaminationProofs --------------------------
(***************************************************************************)
(* Proofs about oral examinations: the gate's slots and the attempts are   *)
(* counted right, no interview asks more than its plan, a transcript says  *)
(* what happened, and a completed session stays as it is.                  *)
(*                                                                         *)
(* Requests decide on rows they loaded, so the invariant has two halves:   *)
(* what holds of every row, and of every row a request still carries,      *)
(* however commits were merged (Orderly), and what holds of a session and  *)
(* its turns together until some request writes on a stale row (Agreed).   *)
(*                                                                         *)
(* And proofs about the page a learner sits an examination with.  Its      *)
(* invariant ties each request to what may still come of it: an attempt    *)
(* to the request that begins it, wherever that is (Owed, Unclaimed), an   *)
(* answer to the page's box, its log and the request that carries it       *)
(* (Submitted, Shows), and what the page tells to what the server has      *)
(* (Tells, Together).                                                      *)
(*                                                                         *)
(* And proofs about what examinations are made of.  What requests and jobs *)
(* leave behind is sound because what each of them carries is: the prompts *)
(* it found and used, what it has numbered, measured or planned, and the   *)
(* blueprint and template it opens a session with (TaskSound).             *)
(***************************************************************************)
EXTENDS Examination, ExamClient, Authoring, FiniteSetTheorems, WellFoundedInduction, TLAPS

\* What an answer notes is what helped the learner to it.
TurnRow ==
    {turn \in [role : Roles, question : Questions, note : Notes] :
        turn.role = "user" => turn.note \in {"direct", "followup", "hint"}}

Call == [pc : {"idle", "joining", "joined", "starting", "queued", "asking", "model"},
         learner : Learners \cup {Anonymous}, number : Nat, session : 0..MaxSessions,
         gated : BOOLEAN, seen : Row, read : Nat, refusals : Nat]

Begun == {"active", "completed"}

Fresh(row) == row.index = 1 /\ row.tries = 0 /\ row.asked = <<>> /\ row.graded = {}

\* Questions asked are distinct and within the limit; in the blueprint's order,
\* the current one is the last of them or a later one.
Orderly(row) ==
    /\ IsInjective(row.asked)
    /\ Len(row.asked) <= Limit
    /\ assignment.strategy # "adaptive" =>
         \A i \in DOMAIN row.asked : row.asked[i] <= row.index

Put(list) == {i \in DOMAIN list : list[i].role = "assistant"}
Given(list) == DOMAIN list \ Put(list)
Followed(list, q) ==
    {i \in DOMAIN list : list[i].question = q /\ list[i].note = "ASK_FOLLOWUP"}

\* A row and its turns tell the same interview.
Agreed(row, list) ==
    /\ row.graded = {list[i].question : i \in Given(list)}
    /\ ToSet(row.asked) = {list[i].question : i \in Put(list)}
    /\ \A q \in Questions : Cardinality(Followed(list, q)) <= Followups
    /\ \A i \in DOMAIN list :
         i > 1 /\ list[i].role = "user" /\ list[i - 1].note = "GIVE_HINT"
           => list[i].note = "hint"
    /\ row.status = "active" =>
         /\ row.asked # <<>> /\ list # <<>>
         /\ row.index = Last(row.asked) /\ row.index = Last(list).question
         /\ Last(list).note = "GIVE_HINT" => row.tries > 0
         /\ Cardinality(Followed(list, row.index)) <= row.tries

\* What a request in progress was allowed on the row it loaded.
CallSound(call) ==
    /\ call.pc \in {"joining", "joined"} =>
         /\ call.learner \in Learners /\ call.number > 0
         /\ Countable(call.learner) => call.number <= MaxAttempts
    /\ call.pc \notin {"idle", "joining"} => call.session \in Sessions
    /\ call.gated => call.pc \in {"asking", "model"}
    /\ call.pc \in {"starting", "queued", "asking", "model"} =>
         /\ Orderly(call.seen)
         /\ call.seen.status \in Begun => sessions[call.session].status \in Begun
         /\ call.read <= Len(turns[call.session])
    /\ call.pc = "starting" => call.seen.status = "created" /\ Fresh(call.seen)
    /\ call.pc = "model" => call.seen.status = "active"

Typed ==
    /\ \E set \in Settings, edit \in Edits : assignment = Assignment(set, edit)
    /\ now \in 1..MaxTime
    /\ attempts \in Seq([learner : Learners, session : Sessions, number : Nat])
    /\ sessions \in [Sessions -> Row]
    /\ turns \in [Sessions -> Seq(TurnRow)]
    /\ calls \in [Calls -> Call]
    /\ slots \in Nat
    /\ overtaken \subseteq Sessions /\ miscounted \subseteq Learners

RowsSound ==
    \A s \in Sessions :
        /\ Orderly(sessions[s])
        /\ sessions[s].status \notin Begun => Fresh(sessions[s]) /\ turns[s] = <<>>

CallsSound == \A c \in Calls : CallSound(calls[c])

\* An exam's template may hint; the session's policy does not.
Unhelped ==
    assignment.mode = "exam" =>
        \A s \in Sessions : \A i \in DOMAIN turns[s] :
            turns[s][i].note \notin {"GIVE_HINT", "CORRECT", "hint"}

SessionsAgree == \A s \in Sessions \ overtaken : Agreed(sessions[s], turns[s])

Examined ==
    /\ Typed /\ RowsSound /\ CallsSound
    /\ Unhelped /\ SessionsAgree
    /\ GateAccounted /\ AttemptLimit

-----------------------------------------------------------------------------
(* Sequences *)

\* What it is to put one more value at the end.
LEMMA AppendFacts ==
  ASSUME NEW S, NEW list \in Seq(S), NEW x \in S
  PROVE  /\ Append(list, x) \in Seq(S)
         /\ Len(Append(list, x)) = Len(list) + 1
         /\ DOMAIN Append(list, x) = DOMAIN list \cup {Len(list) + 1}
         /\ \A i \in DOMAIN list : Append(list, x)[i] = list[i]
         /\ Append(list, x)[Len(list) + 1] = x
         /\ Last(Append(list, x)) = x
         /\ ToSet(Append(list, x)) = ToSet(list) \cup {x}
<1>1. /\ Append(list, x) \in Seq(S)
      /\ Len(Append(list, x)) = Len(list) + 1
      /\ DOMAIN Append(list, x) = DOMAIN list \cup {Len(list) + 1}
      /\ \A i \in DOMAIN list : Append(list, x)[i] = list[i]
      /\ Append(list, x)[Len(list) + 1] = x
  OBVIOUS
<1>2. Last(Append(list, x)) = x
  BY <1>1 DEF Last
<1> DEFINE longer == Append(list, x)
<1>3. DOMAIN longer = DOMAIN list \cup {Len(list) + 1} /\ longer[Len(list) + 1] = x
      /\ \A i \in DOMAIN list : longer[i] = list[i]
  BY <1>1
<1> HIDE DEF longer
<1>4. ToSet(longer) = ToSet(list) \cup {x}
  BY <1>3 DEF ToSet
<1>5. QED
  BY <1>1, <1>2, <1>4 DEF longer

\* An answer and what the examiner says next are put at the end of the turns.
LEMMA PairFacts ==
  ASSUME NEW list \in Seq(TurnRow), NEW a \in TurnRow, NEW b \in TurnRow
  PROVE  /\ list \o <<a, b>> \in Seq(TurnRow)
         /\ Len(list \o <<a, b>>) = Len(list) + 2
         /\ DOMAIN (list \o <<a, b>>) = DOMAIN list \cup {Len(list) + 1, Len(list) + 2}
         /\ \A i \in DOMAIN list : (list \o <<a, b>>)[i] = list[i]
         /\ (list \o <<a, b>>)[Len(list) + 1] = a
         /\ (list \o <<a, b>>)[Len(list) + 2] = b
         /\ Last(list \o <<a, b>>) = b
<1>1. /\ list \o <<a, b>> \in Seq(TurnRow)
      /\ Len(list \o <<a, b>>) = Len(list) + 2
      /\ DOMAIN (list \o <<a, b>>) = DOMAIN list \cup {Len(list) + 1, Len(list) + 2}
      /\ \A i \in DOMAIN list : (list \o <<a, b>>)[i] = list[i]
      /\ (list \o <<a, b>>)[Len(list) + 1] = a
      /\ (list \o <<a, b>>)[Len(list) + 2] = b
  OBVIOUS
<1>2. QED
  BY <1>1 DEF Last

-----------------------------------------------------------------------------
(* Rows *)

LEMMA PlanFacts == /\ NQuestions \in Nat \ {0} /\ 1 \in Questions
                   /\ Limit \in Nat \ {0} /\ Questions \subseteq Nat
BY ExaminationAssumption DEF Questions, Limit

LEMMA FreshRows ==
  /\ NoSession \in Row /\ Fresh(NoSession) /\ NoSession.status = "none"
  /\ NewSession \in Row /\ Fresh(NewSession) /\ NewSession.status = "created"
<1>1. NoSession \in Row /\ Fresh(NoSession) /\ NoSession.status = "none"
  BY PlanFacts DEF NoSession, Row, Fresh
<1>2. QED
  BY <1>1 DEF NewSession, Row, Fresh

\* A commit merges a row with the columns the request has changed.
LEMMA Merged ==
  ASSUME NEW cur \in Row, NEW seen \in Row, NEW new \in Row
  PROVE  /\ Save(cur, seen, new) \in Row
         /\ Save(cur, seen, new).graded = new.graded
         /\ Save(cur, seen, new).status = IF new.status = seen.status THEN cur.status ELSE new.status
         /\ Save(cur, seen, new).index = IF new.index = seen.index THEN cur.index ELSE new.index
         /\ Save(cur, seen, new).tries = IF new.tries = seen.tries THEN cur.tries ELSE new.tries
         /\ Save(cur, seen, new).asked = IF new.asked = seen.asked THEN cur.asked ELSE new.asked
<1>1. /\ Save(cur, seen, new) \in Row
      /\ Save(cur, seen, new).graded = new.graded
      /\ Save(cur, seen, new).status = IF new.status = seen.status THEN cur.status ELSE new.status
      /\ Save(cur, seen, new).index = IF new.index = seen.index THEN cur.index ELSE new.index
  BY DEF Save, Row
<1>2. /\ Save(cur, seen, new).tries = IF new.tries = seen.tries THEN cur.tries ELSE new.tries
      /\ Save(cur, seen, new).asked = IF new.asked = seen.asked THEN cur.asked ELSE new.asked
  BY DEF Save, Row
<1>3. QED
  BY <1>1, <1>2

LEMMA FreshOrderly ==
  ASSUME NEW row \in Row, Fresh(row)
  PROVE  Orderly(row) /\ ToSet(row.asked) = {}
BY PlanFacts DEF Fresh, Orderly, IsInjective, ToSet

LEMMA FreshAgrees ==
  ASSUME NEW row \in Row, Fresh(row), row.status \notin Begun
  PROVE  Agreed(row, <<>>)
<1>1. Put(<<>>) = {} /\ Given(<<>>) = {} /\ \A q \in Questions : Followed(<<>>, q) = {}
  BY DEF Put, Given, Followed
<1>2. Cardinality({}) = 0 /\ Followups \in Nat
  BY FS_EmptySet, ExaminationAssumption
<1>3. ASSUME NEW q \in Questions PROVE Cardinality(Followed(<<>>, q)) <= Followups
  <2>1. Followed(<<>>, q) = {}
    BY <1>1
  <2>2. Cardinality(Followed(<<>>, q)) = 0
    BY <1>2, <2>1
  <2>3. QED
    BY <1>2, <2>2
<1>4. ToSet(row.asked) = {}
  BY FreshOrderly
<1>5. QED
  BY <1>1, <1>3, <1>4 DEF Agreed, Fresh, Begun

\* The decision is one the policy allows, follows up only while it may, and goes
\* on only to a question within the limit.
LEMMA Decision ==
  ASSUME NEW policy, "END" \in policy.allowed, NEW analysis, NEW tries \in Nat,
         NEW last \in BOOLEAN
  PROVE  LET action == Decide(policy, analysis, tries, last) IN
         /\ action \in {"ASK_FOLLOWUP", "GIVE_HINT", "MOVE_ON", "END"}
         /\ action = "ASK_FOLLOWUP" => tries < Followups
         /\ action = "GIVE_HINT" => "GIVE_HINT" \in policy.allowed
         /\ action = "MOVE_ON" => ~ last
<1> DEFINE requested == RequestedAction(policy, analysis, tries, last)
<1>1. /\ requested \in {"ASK_FOLLOWUP", "GIVE_HINT", "MOVE_ON", "END"}
      /\ requested = "ASK_FOLLOWUP" => tries < Followups
      /\ requested = "MOVE_ON" => ~ last
  BY DEF RequestedAction
<1> HIDE DEF requested
<1>2. LET action == Authorize(requested, policy, tries, last) IN
      /\ action \in {"ASK_FOLLOWUP", "GIVE_HINT", "MOVE_ON", "END"}
      /\ action = "ASK_FOLLOWUP" => tries < Followups
      /\ action = "GIVE_HINT" => "GIVE_HINT" \in policy.allowed
      /\ action = "MOVE_ON" => ~ last
  BY <1>1 DEF Authorize
<1>3. QED
  BY <1>2 DEF Decide, requested

\* The policy of every session can end it, and that of an exam cannot help.
LEMMA PolicySound ==
  ASSUME Typed
  PROVE  /\ "END" \in SessionPolicy(assignment).allowed
         /\ assignment.mode = "exam" => "GIVE_HINT" \notin SessionPolicy(assignment).allowed
<1>1. PICK set \in Settings, edit \in Edits : assignment = Assignment(set, edit)
  BY DEF Typed
<1>2. assignment.contract # {} => "END" \in assignment.contract
  BY <1>1, ExaminationAssumption DEF Assignment
<1>3. QED
  BY <1>2 DEF SessionPolicy, EffectivePolicy, LockPolicy, DefaultContract

-----------------------------------------------------------------------------
(* Commits *)

\* Turns that follow a question up, counted.
LEMMA FollowedFinite ==
  ASSUME NEW list \in Seq(TurnRow), NEW q
  PROVE  /\ IsFiniteSet(Followed(list, q)) /\ Cardinality(Followed(list, q)) \in Nat
         /\ Followed(list, q) \subseteq DOMAIN list
<1>1. Followed(list, q) \subseteq DOMAIN list
  BY DEF Followed
<1>2. DOMAIN list = 1..Len(list) /\ Len(list) \in Nat
  OBVIOUS
<1>3. IsFiniteSet(1..Len(list))
  BY <1>2, FS_Interval
<1>4. IsFiniteSet(Followed(list, q))
  BY <1>1, <1>2, <1>3, FS_Subset
<1>5. QED
  BY <1>1, <1>4, FS_CardinalityType

LEMMA FollowedGrows ==
  ASSUME NEW list \in Seq(TurnRow), NEW a \in TurnRow, NEW b \in TurnRow,
         a.note # "ASK_FOLLOWUP", NEW q
  PROVE  Cardinality(Followed(list \o <<a, b>>, q)) =
           Cardinality(Followed(list, q))
             + (IF b.question = q /\ b.note = "ASK_FOLLOWUP" THEN 1 ELSE 0)
<1> DEFINE longer == list \o <<a, b>>
<1>1. /\ DOMAIN longer = DOMAIN list \cup {Len(list) + 1, Len(list) + 2}
      /\ \A i \in DOMAIN list : longer[i] = list[i]
      /\ longer[Len(list) + 1] = a /\ longer[Len(list) + 2] = b
  BY PairFacts
<1>2. /\ IsFiniteSet(Followed(list, q)) /\ Cardinality(Followed(list, q)) \in Nat
      /\ Followed(list, q) \subseteq DOMAIN list
  BY FollowedFinite
<1>3. Len(list) + 2 \notin DOMAIN list
  OBVIOUS
<1> HIDE DEF longer
<1>4. CASE b.question = q /\ b.note = "ASK_FOLLOWUP"
  <2>1. Followed(longer, q) = Followed(list, q) \cup {Len(list) + 2}
    BY <1>1, <1>4 DEF Followed
  <2>2. Len(list) + 2 \notin Followed(list, q)
    BY <1>2, <1>3
  <2>3. Cardinality(Followed(list, q) \cup {Len(list) + 2}) = Cardinality(Followed(list, q)) + 1
    BY <1>2, <2>2, FS_AddElement
  <2>4. QED
    BY <1>4, <2>1, <2>3 DEF longer
<1>5. CASE ~ (b.question = q /\ b.note = "ASK_FOLLOWUP")
  <2>1. Followed(longer, q) = Followed(list, q)
    BY <1>1, <1>5 DEF Followed
  <2>2. QED
    BY <1>2, <1>5, <2>1 DEF longer
<1>6. QED
  BY <1>4, <1>5

\* A row and its turns still agree when an answer is graded, and what follows it
\* is asked.
LEMMA AgreedGrows ==
  ASSUME NEW row \in Row, NEW list \in Seq(TurnRow), Agreed(row, list),
         NEW new \in Row, NEW a \in TurnRow, NEW b \in TurnRow,
         a.role = "user", b.role = "assistant", a.note # "ASK_FOLLOWUP",
         new.graded = row.graded \cup {a.question},
         ToSet(new.asked) = ToSet(row.asked) \cup {b.question},
         b.note = "ASK_FOLLOWUP" => Cardinality(Followed(list, b.question)) < Followups,
         list # <<>> /\ Last(list).note = "GIVE_HINT" => a.note = "hint",
         new.status = "active" =>
           /\ new.asked # <<>> /\ new.index = Last(new.asked) /\ new.index = b.question
           /\ b.note = "GIVE_HINT" => new.tries > 0
           /\ Cardinality(Followed(list, new.index))
                + (IF b.note = "ASK_FOLLOWUP" THEN 1 ELSE 0) <= new.tries
  PROVE  Agreed(new, list \o <<a, b>>)
<1> DEFINE longer == list \o <<a, b>>
<1>1. /\ DOMAIN longer = DOMAIN list \cup {Len(list) + 1, Len(list) + 2}
      /\ \A i \in DOMAIN list : longer[i] = list[i]
      /\ longer[Len(list) + 1] = a /\ longer[Len(list) + 2] = b
      /\ Last(longer) = b /\ longer \in Seq(TurnRow) /\ Len(longer) = Len(list) + 2
  BY PairFacts
<1>2. \A q : Cardinality(Followed(longer, q)) = Cardinality(Followed(list, q))
               + (IF b.question = q /\ b.note = "ASK_FOLLOWUP" THEN 1 ELSE 0)
  BY FollowedGrows
<1>3. Len(list) \in Nat /\ DOMAIN list = 1..Len(list) /\ longer # <<>>
  OBVIOUS
<1> HIDE DEF longer
<1>4. Put(longer) = Put(list) \cup {Len(list) + 2}
      /\ Given(longer) = Given(list) \cup {Len(list) + 1}
  <2>1. Len(list) + 1 \notin DOMAIN list /\ Len(list) + 2 \notin DOMAIN list
        /\ Len(list) + 1 # Len(list) + 2
    BY <1>3
  <2>2. Put(longer) = Put(list) \cup {Len(list) + 2}
    BY <1>1, <2>1 DEF Put
  <2>3. QED
    BY <1>1, <2>1, <2>2 DEF Given, Put
<1>5. Put(list) \subseteq DOMAIN list /\ Given(list) \subseteq DOMAIN list
  BY DEF Put, Given
<1>6. new.graded = {longer[i].question : i \in Given(longer)}
  BY <1>1, <1>4, <1>5 DEF Agreed
<1>7. ToSet(new.asked) = {longer[i].question : i \in Put(longer)}
  BY <1>1, <1>4, <1>5 DEF Agreed
<1>8. ASSUME NEW q \in Questions PROVE Cardinality(Followed(longer, q)) <= Followups
  <2>1. Cardinality(Followed(list, q)) \in Nat /\ Cardinality(Followed(list, q)) <= Followups
        /\ Followups \in Nat
    BY FollowedFinite, ExaminationAssumption DEF Agreed
  <2>2. QED
    BY <1>2, <2>1
<1>9. ASSUME NEW i \in DOMAIN longer, i > 1, longer[i].role = "user",
             longer[i - 1].note = "GIVE_HINT"
      PROVE  longer[i].note = "hint"
  <2>1. CASE i \in DOMAIN list
    <3>1. i - 1 \in DOMAIN list
      BY <1>3, <1>9, <2>1
    <3>2. QED
      BY <1>1, <1>9, <2>1, <3>1 DEF Agreed
  <2>2. CASE i = Len(list) + 1
    <3>1. Len(list) \in DOMAIN list /\ i - 1 = Len(list) /\ list # <<>>
      BY <1>3, <1>9, <2>2
    <3>2. Last(list).note = "GIVE_HINT"
      BY <1>1, <1>9, <3>1 DEF Last
    <3>3. QED
      BY <1>1, <2>2, <3>1, <3>2
  <2>3. CASE i = Len(list) + 2
    BY <1>1, <1>9, <2>3
  <2>4. QED
    BY <1>1, <2>1, <2>2, <2>3
<1>10. ASSUME new.status = "active" PROVE Cardinality(Followed(longer, new.index)) <= new.tries
  BY <1>2, <1>10
<1>11. QED
  BY <1>1, <1>3, <1>6, <1>7, <1>8, <1>9, <1>10 DEF Agreed, longer

\* What a request may make of the row it loaded: help with the same question, go
\* on to another one, or end.
Continues(seen, new, b) ==
    /\ new.graded = seen.graded \cup {seen.index}
    /\ \/ /\ b.note \in {"ASK_FOLLOWUP", "GIVE_HINT"} /\ b.question = seen.index
          /\ b.note = "ASK_FOLLOWUP" => seen.tries < Followups
          /\ new.status = seen.status /\ new.index = seen.index /\ new.asked = seen.asked
          /\ new.tries = seen.tries + 1
       \/ /\ b.note = "MOVE_ON" /\ b.question \in NextQuestions(seen.asked, seen.index)
          /\ Len(seen.asked) < Limit
          /\ new.status = seen.status /\ new.index = b.question /\ new.tries = 0
          /\ new.asked = Append(seen.asked, b.question)
       \/ /\ b.note = "END" /\ b.question = seen.index
          /\ new.status = "completed" /\ new.index = seen.index /\ new.asked = seen.asked
          /\ new.tries = seen.tries

\* A question that may come next has not been asked.
LEMMA NextIsNew ==
  ASSUME NEW row \in Row, Orderly(row), NEW q \in NextQuestions(row.asked, row.index)
  PROVE  /\ q \in Questions /\ q \notin ToSet(row.asked)
         /\ assignment.strategy # "adaptive" => q = row.index + 1
<1>1. CASE assignment.strategy = "adaptive"
  BY <1>1 DEF NextQuestions
<1>2. CASE assignment.strategy # "adaptive"
  <2>1. q = row.index + 1 /\ q \in Questions
    BY <1>2 DEF NextQuestions
  <2>2. \A i \in DOMAIN row.asked : row.asked[i] <= row.index /\ row.asked[i] \in Nat
    <3>1. row.asked \in Seq(Questions)
      BY DEF Row
    <3>2. \A i \in DOMAIN row.asked : row.asked[i] \in Questions
      BY <3>1
    <3>3. QED
      BY <1>2, <3>2, PlanFacts DEF Orderly
  <2>3. row.index \in Nat
    BY PlanFacts DEF Row
  <2>4. q \notin ToSet(row.asked)
    BY <2>1, <2>2, <2>3 DEF ToSet
  <2>5. QED
    BY <2>1, <2>4
<1>3. QED
  BY <1>1, <1>2

\* Rows stay in order, whatever row a request's columns are merged with.
LEMMA OrderlyContinued ==
  ASSUME NEW cur \in Row, NEW seen \in Row, NEW new \in Row, NEW b \in TurnRow,
         Orderly(cur), Orderly(seen), Continues(seen, new, b)
  PROVE  Orderly(Save(cur, seen, new))
<1> DEFINE row == Save(cur, seen, new)
<1>1. /\ row.index = IF new.index = seen.index THEN cur.index ELSE new.index
      /\ row.asked = IF new.asked = seen.asked THEN cur.asked ELSE new.asked
  BY Merged
<1> HIDE DEF row
<1>2. CASE new.asked = seen.asked /\ new.index = seen.index
  BY <1>1, <1>2 DEF Orderly, row
<1>3. CASE /\ b.question \in NextQuestions(seen.asked, seen.index)
           /\ Len(seen.asked) < Limit /\ new.index = b.question
           /\ new.asked = Append(seen.asked, b.question)
  <2> DEFINE q == b.question
             asked == seen.asked
  <2>1. q \in Questions /\ q \notin ToSet(asked) /\ asked \in Seq(Questions)
        /\ (assignment.strategy # "adaptive" => q = seen.index + 1)
    BY <1>3, NextIsNew DEF Row
  <2>2. /\ new.asked = Append(asked, q) /\ Len(asked) < Limit
        /\ IsInjective(asked) /\ seen.index \in Nat /\ new.index = q /\ Limit \in Nat
        /\ assignment.strategy # "adaptive" => \A i \in DOMAIN asked : asked[i] <= seen.index
    BY <1>3, PlanFacts DEF Orderly, Row
  <2> HIDE DEF q, asked
  <2>3. /\ Len(new.asked) = Len(asked) + 1
        /\ DOMAIN new.asked = DOMAIN asked \cup {Len(asked) + 1}
        /\ \A i \in DOMAIN asked : new.asked[i] = asked[i]
        /\ new.asked[Len(asked) + 1] = q
    BY <2>1, <2>2, AppendFacts
  <2>4. Len(asked) \in Nat /\ new.asked # asked
    BY <2>1, <2>3
  <2>5. IsInjective(new.asked)
    BY <2>1, <2>2, <2>3 DEF IsInjective, ToSet
  <2>6. Len(new.asked) <= Limit
    BY <2>2, <2>3, <2>4
  <2>7. row.asked = new.asked
    BY <1>1, <2>4 DEF asked
  <2>8. ASSUME assignment.strategy # "adaptive", NEW i \in DOMAIN new.asked
        PROVE  new.asked[i] <= row.index
    <3>1. q = seen.index + 1 /\ row.index = q
      BY <1>1, <2>1, <2>2, <2>8
    <3>2. CASE i \in DOMAIN asked
      <4>1. new.asked[i] = asked[i] /\ asked[i] <= seen.index
        BY <2>2, <2>3, <2>8, <3>2
      <4>2. asked[i] \in Questions
        BY <2>1, <3>2
      <4>3. asked[i] \in Nat
        BY <4>2, PlanFacts
      <4>4. QED
        BY <2>2, <3>1, <4>1, <4>3
    <3>3. CASE i = Len(asked) + 1
      BY <2>2, <2>3, <3>1, <3>3
    <3>4. QED
      BY <2>3, <2>8, <3>2, <3>3
  <2>9. QED
    BY <2>5, <2>6, <2>7, <2>8 DEF Orderly, row
<1>4. QED
  BY <1>2, <1>3 DEF Continues

-----------------------------------------------------------------------------
(* Requests *)

LEMMA IdleSound ==
  /\ Idle \in Call /\ Idle.pc = "idle" /\ Idle.gated = FALSE /\ Idle.read = 0
  /\ \A c \in Calls : calls'[c] = Idle => CallSound(calls[c])'
<1>1. Idle \in Call /\ Idle.pc = "idle" /\ Idle.gated = FALSE /\ Idle.read = 0
  BY FreshRows, ExaminationAssumption DEF Idle, Call
<1>2. QED
  BY <1>1 DEF CallSound

\* The slots that are not free are held, one by each request that took one.
LEMMA GateMoves ==
  ASSUME GateAccounted, slots \in Nat, calls \in [Calls -> Call], calls' \in [Calls -> Call],
         NEW c \in Calls, \A d \in Calls \ {c} : calls'[d] = calls[d],
         slots' = slots + (IF calls[c].gated THEN 1 ELSE 0) - (IF calls'[c].gated THEN 1 ELSE 0),
         slots' \in Nat
  PROVE  GateAccounted'
<1> DEFINE Holders == {d \in Calls : calls[d].gated}
<1>1. IsFiniteSet(Holders) /\ IsFiniteSet(Holders')
      /\ Cardinality(Holders) \in Nat /\ Cardinality(Holders') \in Nat
  BY ExaminationAssumption, FS_Subset, FS_CardinalityType
<1>2. calls[c].gated \in BOOLEAN /\ calls'[c].gated \in BOOLEAN
  BY DEF Call
<1>3. slots + Cardinality(Holders) = Capacity
  BY DEF GateAccounted
<1>4. Holders' \ {c} = Holders \ {c}
  OBVIOUS
<1>5. c \in Holders <=> calls[c].gated
  OBVIOUS
<1>6. c \in Holders' <=> calls'[c].gated
  OBVIOUS
<1> HIDE DEF Holders
<1>7. CASE calls[c].gated /\ calls'[c].gated
  <2>1. Holders' = Holders /\ slots' = slots
    BY <1>4, <1>5, <1>6, <1>7
  <2>2. QED
    BY <1>3, <2>1 DEF GateAccounted, Holders
<1>8. CASE ~ calls[c].gated /\ ~ calls'[c].gated
  <2>1. Holders' = Holders /\ slots' = slots
    BY <1>4, <1>5, <1>6, <1>8
  <2>2. QED
    BY <1>3, <2>1 DEF GateAccounted, Holders
<1>9. CASE calls[c].gated /\ ~ calls'[c].gated
  <2>1. Holders' = Holders \ {c} /\ slots' = slots + 1 /\ c \in Holders
    BY <1>4, <1>5, <1>6, <1>9
  <2>2. Cardinality(Holders') = Cardinality(Holders) - 1
    BY <1>1, <2>1, FS_RemoveElement
  <2>3. slots' + Cardinality(Holders') = Capacity
    BY <1>1, <1>3, <2>1, <2>2
  <2>4. QED
    BY <2>1, <2>3 DEF GateAccounted, Holders
<1>10. CASE ~ calls[c].gated /\ calls'[c].gated
  <2>1. Holders' = Holders \cup {c} /\ slots' = slots - 1 /\ c \notin Holders
    BY <1>4, <1>5, <1>6, <1>10
  <2>2. Cardinality(Holders') = Cardinality(Holders) + 1
    BY <1>1, <2>1, FS_AddElement
  <2>3. slots' + Cardinality(Holders') = Capacity
    BY <1>1, <1>3, <2>1, <2>2
  <2>4. QED
    BY <2>1, <2>3 DEF GateAccounted, Holders
<1>11. QED
  BY <1>2, <1>7, <1>8, <1>9, <1>10

\* What a request carries stays true while sessions only go forward.
LEMMA CallSurvives ==
  ASSUME NEW c \in Calls, CallSound(calls[c]), calls'[c] = calls[c],
         assignment'.strategy = assignment.strategy,
         turns \in [Sessions -> Seq(TurnRow)], turns' \in [Sessions -> Seq(TurnRow)],
         calls[c] \in Call,
         \A s \in Sessions :
           /\ sessions[s].status \in Begun => sessions'[s].status \in Begun
           /\ Len(turns[s]) <= Len(turns'[s])
  PROVE  CallSound(calls[c])'
<1>1. /\ calls'[c].seen = calls[c].seen /\ calls'[c].session = calls[c].session
      /\ calls'[c].pc = calls[c].pc /\ calls'[c].read = calls[c].read
  OBVIOUS
<1>2. CASE calls[c].pc \in {"starting", "queued", "asking", "model"}
  <2>1. calls[c].session \in Sessions /\ calls[c].read \in Nat
        /\ Orderly(calls[c].seen) /\ calls[c].read <= Len(turns[calls[c].session])
        /\ (calls[c].seen.status \in Begun => sessions[calls[c].session].status \in Begun)
    BY <1>2 DEF CallSound, Call
  <2>2. Orderly(calls[c].seen)'
    BY <1>1, <2>1 DEF Orderly
  <2>3. Len(turns[calls[c].session]) \in Nat /\ Len(turns'[calls[c].session]) \in Nat
    BY <2>1
  <2>4. calls'[c].read <= Len(turns'[calls'[c].session])
    BY <1>1, <2>1, <2>3
  <2>5. QED
    BY <1>1, <1>2, <2>1, <2>2, <2>4 DEF CallSound
<1>3. CASE calls[c].pc \notin {"starting", "queued", "asking", "model"}
  BY <1>1, <1>3 DEF CallSound
<1>4. QED
  BY <1>2, <1>3

\* A step of one request that writes nothing.
LEMMA OnlyCalls ==
  ASSUME Examined, NEW c \in Calls,
         UNCHANGED <<assignment, now, attempts, sessions, turns, overtaken, miscounted>>,
         calls' \in [Calls -> Call], \A d \in Calls \ {c} : calls'[d] = calls[d],
         CallSound(calls[c])',
         slots' = slots + (IF calls[c].gated THEN 1 ELSE 0) - (IF calls'[c].gated THEN 1 ELSE 0),
         slots' \in Nat
  PROVE  Examined'
<1>1. GateAccounted' /\ slots' \in Nat
  BY GateMoves DEF Examined, Typed
<1>2. Typed'
  BY <1>1 DEF Examined, Typed
<1>3. RowsSound' /\ Unhelped' /\ SessionsAgree'
  BY DEF Examined, RowsSound, Orderly, Unhelped, SessionsAgree
<1>4. AttemptLimit'
  <2>1. attempts' = attempts /\ miscounted' = miscounted /\ AttemptLimit
    BY DEF Examined
  <2>2. \A l : AttemptsOf(l)' = AttemptsOf(l)
    BY <2>1 DEF AttemptsOf
  <2>3. QED
    BY <2>1, <2>2 DEF AttemptLimit
<1>5. CallsSound'
  <2> SUFFICES ASSUME NEW d \in Calls, d # c PROVE CallSound(calls[d])'
    BY DEF CallsSound
  <2>1. calls'[d] = calls[d] /\ calls[d] \in Call /\ CallSound(calls[d])
    BY DEF Examined, Typed, CallsSound
  <2>2. \A s \in Sessions : Len(turns[s]) <= Len(turns'[s])
    BY DEF Examined, Typed
  <2>3. QED
    BY <2>1, <2>2, CallSurvives DEF Examined, Typed
<1>6. QED
  BY <1>1, <1>2, <1>3, <1>4, <1>5 DEF Examined

LEMMA AttemptsFinite ==
  ASSUME attempts \in Seq([learner : Learners, session : Sessions, number : Nat]), NEW l
  PROVE  /\ IsFiniteSet(AttemptsOf(l)) /\ Cardinality(AttemptsOf(l)) \in Nat
         /\ AttemptsOf(l) \subseteq DOMAIN attempts /\ PriorAttempts(l) \in Nat
<1>1. DOMAIN attempts = 1..Len(attempts) /\ Len(attempts) \in Nat
  OBVIOUS
<1>2. AttemptsOf(l) \subseteq 1..Len(attempts)
  BY <1>1 DEF AttemptsOf
<1> DEFINE Rows == 1..Len(attempts)
<1>0. IsFiniteSet(Rows)
  BY <1>1, FS_Interval
<1> HIDE DEF Rows
<1>3. IsFiniteSet(AttemptsOf(l))
  <2>1. AttemptsOf(l) \subseteq Rows
    BY <1>2 DEF Rows
  <2>2. QED
    BY <1>0, <2>1, FS_Subset
<1>4. Cardinality(AttemptsOf(l)) \in Nat
  BY <1>3, FS_CardinalityType
<1>5. QED
  BY <1>1, <1>2, <1>3, <1>4 DEF PriorAttempts

LEMMA JoinKeeps ==
  ASSUME Examined, NEW c \in Calls, NEW l \in Learners, JoinCheck(c, l)
  PROVE  Examined'
<1> DEFINE call == [Idle EXCEPT !.pc = "joining", !.learner = l, !.number = PriorAttempts(l) + 1]
<1>1. PriorAttempts(l) \in Nat /\ PriorAttempts(l) < MaxAttempts
  BY AttemptsFinite DEF Examined, Typed, JoinCheck, AttemptAllowed
<1>2. /\ call \in Call /\ call.pc = "joining" /\ call.gated = FALSE /\ call.learner = l
      /\ call.number = PriorAttempts(l) + 1
  <2>1. PriorAttempts(l) + 1 \in Nat /\ Idle \in Call /\ Idle.gated = FALSE
    BY <1>1, IdleSound
  <2>2. call \in Call
    BY <2>1 DEF Call
  <2>3. QED
    BY <2>1 DEF Call
<1>3. /\ calls[c] = Idle /\ calls' = [calls EXCEPT ![c] = call] /\ slots' = slots
      /\ UNCHANGED <<assignment, now, attempts, sessions, turns, overtaken, miscounted>>
  BY DEF JoinCheck
<1> HIDE DEF call
<1>4. /\ calls' \in [Calls -> Call] /\ calls'[c] = call
      /\ \A d \in Calls \ {c} : calls'[d] = calls[d]
  BY <1>2, <1>3 DEF Examined, Typed
<1>5. CallSound(calls[c])'
  BY <1>1, <1>2, <1>4, ExaminationAssumption DEF CallSound
<1>6. /\ slots' = slots + (IF calls[c].gated THEN 1 ELSE 0) - (IF calls'[c].gated THEN 1 ELSE 0)
      /\ slots' \in Nat
  BY <1>2, <1>3, <1>4, IdleSound DEF Examined, Typed
<1>7. QED
  BY <1>3, <1>4, <1>5, <1>6, OnlyCalls

\* A session is loaded, to be started or answered.
LEMMA ReadKeeps ==
  ASSUME Examined, NEW c \in Calls, NEW surface \in Surfaces, NEW s \in Sessions,
         StartRead(c, surface, s) \/ AnswerRead(c, surface, s)
  PROVE  Examined'
<1>1. /\ sessions[s] \in Row /\ Orderly(sessions[s]) /\ Len(turns[s]) \in Nat
      /\ sessions[s].status = "created" => Fresh(sessions[s])
      /\ s \in 0..MaxSessions
  <2>1. sessions[s] \in Row /\ Orderly(sessions[s]) /\ Len(turns[s]) \in Nat
    BY DEF Examined, Typed, RowsSound
  <2>2. sessions[s].status = "created" => Fresh(sessions[s])
    BY DEF Examined, RowsSound, Begun
  <2>3. s \in 0..MaxSessions
    BY ExaminationAssumption DEF Sessions
  <2>4. QED
    BY <2>1, <2>2, <2>3
<1>2. PICK call \in Call :
        /\ call.pc \in {"starting", "queued", "asking"} /\ call.gated = FALSE
        /\ call.session = s /\ call.seen = sessions[s] /\ call.read <= Len(turns[s])
        /\ call.pc = "starting" => sessions[s].status = "created"
        /\ calls' = [calls EXCEPT ![c] = call]
  <2>1. CASE StartRead(c, surface, s)
    <3> DEFINE call == [Idle EXCEPT !.pc = "starting", !.session = s,
                                    !.seen = sessions[s], !.read = Len(turns[s])]
    <3>a. Idle \in Call /\ Idle.gated = FALSE
      BY IdleSound
    <3>b. call \in Call
      BY <1>1, <3>a DEF Call
    <3>1. /\ call.pc = "starting" /\ call.gated = FALSE /\ call.session = s
          /\ call.seen = sessions[s] /\ call.read <= Len(turns[s])
      BY <1>1, <3>a DEF Call
    <3>2. calls' = [calls EXCEPT ![c] = call] /\ sessions[s].status = "created"
      BY <2>1 DEF StartRead
    <3> HIDE DEF call
    <3>3. QED
      BY <3>b, <3>1, <3>2
  <2>2. CASE AnswerRead(c, surface, s)
    <3> DEFINE call == [Idle EXCEPT !.pc = IF surface = "learner" THEN "queued" ELSE "asking",
                                    !.session = s, !.seen = sessions[s]]
    <3>a. Idle \in Call /\ Idle.gated = FALSE /\ Idle.read = 0
      BY IdleSound
    <3>b. call \in Call
      BY <1>1, <3>a DEF Call
    <3>c. /\ call.pc \in {"queued", "asking"} /\ call.gated = FALSE
          /\ call.session = s /\ call.seen = sessions[s] /\ call.read = 0
      BY <3>a DEF Call
    <3>1. call.read <= Len(turns[s])
      BY <1>1, <3>c
    <3>2. calls' = [calls EXCEPT ![c] = call]
      BY <2>2 DEF AnswerRead
    <3> HIDE DEF call
    <3>3. QED
      BY <3>b, <3>c, <3>1, <3>2
  <2>3. QED
    BY <2>1, <2>2
<1>3. /\ calls[c] = Idle /\ slots' = slots
      /\ UNCHANGED <<assignment, now, attempts, sessions, turns, overtaken, miscounted>>
  BY DEF StartRead, AnswerRead
<1>4. /\ calls' \in [Calls -> Call] /\ calls'[c] = call
      /\ \A d \in Calls \ {c} : calls'[d] = calls[d]
  BY <1>2 DEF Examined, Typed
<1>5. Orderly(calls[c].seen)'
  BY <1>1, <1>2, <1>3, <1>4 DEF Orderly
<1>6. CallSound(calls[c])'
  BY <1>1, <1>2, <1>3, <1>4, <1>5 DEF CallSound
<1>7. /\ slots' = slots + (IF calls[c].gated THEN 1 ELSE 0) - (IF calls'[c].gated THEN 1 ELSE 0)
      /\ slots' \in Nat
  BY <1>2, <1>3, <1>4, IdleSound DEF Examined, Typed
<1>8. QED
  BY <1>3, <1>4, <1>6, <1>7, OnlyCalls

\* A request that has loaded its session waits, asks the model, or gives up.
LEMMA WaitKeeps ==
  ASSUME Examined, NEW c \in Calls, TakeSlot(c) \/ Ask(c) \/ Refused(c)
  PROVE  Examined'
<1>1. /\ calls[c] \in Call /\ CallSound(calls[c]) /\ slots \in Nat
      /\ calls[c].pc \in {"queued", "asking", "model"} /\ calls[c].session \in Sessions
      /\ calls[c].refusals \in Nat /\ calls[c].refusals + 1 \in Nat
      /\ calls[c].gated \in BOOLEAN
  <2>1. calls[c] \in Call /\ CallSound(calls[c]) /\ slots \in Nat
    BY DEF Examined, Typed, CallsSound
  <2>2. calls[c].pc \in {"queued", "asking", "model"}
    BY DEF TakeSlot, Ask, Refused
  <2>3. calls[c].refusals \in Nat /\ calls[c].gated \in BOOLEAN
    BY <2>1 DEF Call
  <2>4. QED
    BY <2>1, <2>2, <2>3 DEF CallSound
<1>2. LET s == calls[c].session IN
      /\ sessions[s] \in Row /\ Orderly(sessions[s]) /\ Len(turns[s]) \in Nat
  BY <1>1 DEF Examined, Typed, RowsSound
<1>3. UNCHANGED <<assignment, now, attempts, sessions, turns, overtaken, miscounted>>
  BY DEF TakeSlot, Ask, Refused
<1>4. PICK call \in Call :
        /\ call.pc \in {"asking", "model"} /\ call.session = calls[c].session
        /\ call.seen \in {calls[c].seen, sessions[calls[c].session]}
        /\ call.pc = "model" => call.seen = calls[c].seen /\ calls[c].seen.status = "active"
        /\ call.read \in {calls[c].read, Len(turns[calls[c].session])}
        /\ slots' = slots + (IF calls[c].gated THEN 1 ELSE 0) - (IF call.gated THEN 1 ELSE 0)
        /\ slots' \in Nat
        /\ calls' = [calls EXCEPT ![c] = call]
  <2>1. CASE TakeSlot(c)
    <3> DEFINE call == [calls[c] EXCEPT !.pc = "asking", !.gated = TRUE]
    <3>0. call \in Call
      BY <1>1 DEF Call
    <3>1. /\ call.pc = "asking" /\ call.gated = TRUE
          /\ call.session = calls[c].session /\ call.seen = calls[c].seen
          /\ call.read = calls[c].read
      BY <1>1 DEF Call
    <3>2. /\ calls' = [calls EXCEPT ![c] = call] /\ slots' = slots - 1 /\ slots > 0
          /\ calls[c].pc = "queued"
      BY <2>1 DEF TakeSlot
    <3>3. ~ calls[c].gated
      BY <1>1, <3>2 DEF CallSound
    <3> HIDE DEF call
    <3>4. /\ slots' = slots + (IF calls[c].gated THEN 1 ELSE 0) - (IF call.gated THEN 1 ELSE 0)
          /\ slots' \in Nat
      <4>1. slots \in Nat /\ slots - 1 \in Nat
        BY <1>1, <3>2
      <4>2. QED
        BY <3>1, <3>2, <3>3, <4>1
    <3>5. QED
      BY <3>0, <3>1, <3>2, <3>4
  <2>2. CASE Ask(c)
    <3> DEFINE call == [calls[c] EXCEPT !.pc = "model", !.read = Len(turns[calls[c].session])]
    <3>0. call \in Call
      BY <1>1, <1>2 DEF Call
    <3>1. /\ call.pc = "model" /\ call.gated = calls[c].gated
          /\ call.session = calls[c].session /\ call.seen = calls[c].seen
          /\ call.read = Len(turns[calls[c].session])
      BY <1>1, <1>2 DEF Call
    <3>2. calls' = [calls EXCEPT ![c] = call] /\ slots' = slots /\ calls[c].seen.status = "active"
      BY <2>2 DEF Ask
    <3> HIDE DEF call
    <3>3. /\ slots' = slots + (IF calls[c].gated THEN 1 ELSE 0) - (IF call.gated THEN 1 ELSE 0)
          /\ slots' \in Nat
      <4>1. call.gated = calls[c].gated /\ slots' = slots
        BY <3>1, <3>2
      <4>2. CASE calls[c].gated
        BY <1>1, <4>1, <4>2
      <4>3. CASE ~ calls[c].gated
        BY <1>1, <4>1, <4>3
      <4>4. QED
        BY <4>2, <4>3
    <3>4. QED
      BY <3>0, <3>1, <3>2, <3>3
  <2>3. CASE Refused(c)
    <3> DEFINE call == [calls[c] EXCEPT !.pc = "asking", !.refusals = @ + 1,
                                        !.seen = sessions[calls[c].session]]
    <3>0. call \in Call
      BY <1>1, <1>2 DEF Call
    <3>1. /\ call.pc = "asking" /\ call.gated = calls[c].gated
          /\ call.session = calls[c].session /\ call.seen = sessions[calls[c].session]
          /\ call.read = calls[c].read
      BY <1>1, <1>2 DEF Call
    <3>2. calls' = [calls EXCEPT ![c] = call] /\ slots' = slots
      BY <2>3 DEF Refused
    <3> HIDE DEF call
    <3>3. /\ slots' = slots + (IF calls[c].gated THEN 1 ELSE 0) - (IF call.gated THEN 1 ELSE 0)
          /\ slots' \in Nat
      <4>1. call.gated = calls[c].gated /\ slots' = slots
        BY <3>1, <3>2
      <4>2. CASE calls[c].gated
        BY <1>1, <4>1, <4>2
      <4>3. CASE ~ calls[c].gated
        BY <1>1, <4>1, <4>3
      <4>4. QED
        BY <4>2, <4>3
    <3>4. QED
      BY <3>0, <3>1, <3>2, <3>3
  <2>4. QED
    BY <2>1, <2>2, <2>3
<1>5. /\ calls' \in [Calls -> Call] /\ calls'[c] = call
      /\ \A d \in Calls \ {c} : calls'[d] = calls[d]
  BY <1>4 DEF Examined, Typed
<1>6. /\ Orderly(calls[c].seen) /\ calls[c].read <= Len(turns[calls[c].session])
      /\ calls[c].seen.status \in Begun => sessions[calls[c].session].status \in Begun
  BY <1>1 DEF CallSound
<1>7. Orderly(calls[c].seen)'
  BY <1>2, <1>3, <1>4, <1>5, <1>6 DEF Orderly
<1>8. CallSound(calls[c])'
  BY <1>1, <1>2, <1>3, <1>4, <1>5, <1>6, <1>7 DEF CallSound
<1>9. QED
  BY <1>3, <1>4, <1>5, <1>8, OnlyCalls

LEMMA GiveUpKeeps ==
  ASSUME Examined, NEW c \in Calls, QueueTimeout(c) \/ NotActive(c) \/ ModelFails(c)
  PROVE  Examined'
<1>1. /\ calls' = [calls EXCEPT ![c] = Idle]
      /\ UNCHANGED <<assignment, now, attempts, sessions, turns, overtaken, miscounted>>
  BY DEF QueueTimeout, NotActive, ModelFails, Return
<1>2. /\ calls' \in [Calls -> Call] /\ calls'[c] = Idle
      /\ \A d \in Calls \ {c} : calls'[d] = calls[d]
  BY <1>1, IdleSound DEF Examined, Typed
<1>3. CallSound(calls[c])'
  BY <1>2, IdleSound
<1>4. /\ slots' = slots + (IF calls[c].gated THEN 1 ELSE 0) - (IF calls'[c].gated THEN 1 ELSE 0)
      /\ slots' \in Nat
  <2>1. calls[c] \in Call /\ CallSound(calls[c]) /\ slots \in Nat
    BY DEF Examined, Typed, CallsSound
  <2>2. CASE QueueTimeout(c)
    <3>1. ~ calls[c].gated /\ slots' = slots
      BY <2>1, <2>2 DEF QueueTimeout, CallSound
    <3>2. QED
      BY <1>2, <2>1, <3>1, IdleSound
  <2>3. CASE Return(c)
    BY <1>2, <2>1, <2>3, IdleSound DEF Return
  <2>4. QED
    BY <2>2, <2>3 DEF NotActive, ModelFails
<1>5. QED
  BY <1>1, <1>2, <1>3, <1>4, OnlyCalls

-----------------------------------------------------------------------------
(* Time, teachers and lost processes *)

\* Nothing but the assignment's times and status changes.
LEMMA OutsideKeeps ==
  ASSUME Examined, UpdateAssignment \/ Tick
  PROVE  Examined'
<1>1. UNCHANGED <<attempts, sessions, turns, calls, slots, overtaken, miscounted>>
  BY DEF UpdateAssignment, Tick
<1>2. /\ \E set \in Settings, edit \in Edits : assignment' = Assignment(set, edit)
      /\ assignment'.mode = assignment.mode /\ assignment'.strategy = assignment.strategy
  <2>1. CASE Tick
    BY <2>1 DEF Tick, Examined, Typed
  <2>2. CASE UpdateAssignment
    <3>1. PICK set \in Settings, old \in Edits : assignment = Assignment(set, old)
      BY DEF Examined, Typed
    <3>2. PICK edit \in Edits : assignment' = Assignment(assignment, edit)
      BY <2>2 DEF UpdateAssignment
    <3>3. assignment' = Assignment(set, edit)
      BY <3>1, <3>2 DEF Assignment
    <3>4. QED
      BY <3>1, <3>3 DEF Assignment
  <2>3. QED
    BY <2>1, <2>2
<1>3. now' \in 1..MaxTime
  <2>1. now \in 1..MaxTime /\ MaxTime \in Nat
    BY ExaminationAssumption DEF Examined, Typed
  <2>2. QED
    BY <2>1 DEF UpdateAssignment, Tick
<1>4. Typed'
  BY <1>1, <1>2, <1>3 DEF Examined, Typed
<1>5. RowsSound' /\ Unhelped' /\ SessionsAgree' /\ GateAccounted'
  BY <1>1, <1>2 DEF Examined, RowsSound, Orderly, Unhelped, SessionsAgree, GateAccounted
<1>6. AttemptLimit'
  <2>1. attempts' = attempts /\ miscounted' = miscounted /\ AttemptLimit
    BY <1>1 DEF Examined
  <2>2. \A l : AttemptsOf(l)' = AttemptsOf(l)
    BY <2>1 DEF AttemptsOf
  <2>3. QED
    BY <2>1, <2>2 DEF AttemptLimit
<1>7. CallsSound'
  <2> SUFFICES ASSUME NEW d \in Calls PROVE CallSound(calls[d])'
    BY DEF CallsSound
  <2>1. calls'[d] = calls[d] /\ calls[d] \in Call /\ CallSound(calls[d])
    BY <1>1 DEF Examined, Typed, CallsSound
  <2>2. \A s \in Sessions : Len(turns[s]) <= Len(turns'[s])
    BY <1>1 DEF Examined, Typed
  <2>3. QED
    BY <1>1, <1>2, <1>4, <2>1, <2>2, CallSurvives DEF Examined, Typed
<1>8. QED
  BY <1>4, <1>5, <1>6, <1>7 DEF Examined

\* The requests of a lost process are gone, and its gate is new.
LEMMA RestartKeeps ==
  ASSUME Examined, Restart
  PROVE  Examined'
<1>1. /\ UNCHANGED <<assignment, now, attempts, sessions, turns, overtaken, miscounted>>
      /\ calls' = [c \in Calls |-> Idle] /\ slots' = Capacity
  BY DEF Restart
<1>2. Idle \in Call /\ Idle.gated = FALSE
  BY IdleSound
<1>3. Typed'
  BY <1>1, <1>2, ExaminationAssumption DEF Examined, Typed
<1>4. CallsSound'
  BY <1>1, IdleSound DEF CallsSound
<1>5. GateAccounted'
  <2>1. {c \in Calls : calls'[c].gated} = {}
    BY <1>1, <1>2
  <2>2. Cardinality({}) = 0 /\ Capacity \in Nat
    BY FS_EmptySet, ExaminationAssumption
  <2>3. Cardinality({c \in Calls : calls'[c].gated}) = 0
    BY <2>1, <2>2
  <2>4. QED
    BY <1>1, <2>2, <2>3 DEF GateAccounted
<1>6. RowsSound' /\ Unhelped' /\ SessionsAgree'
  BY <1>1 DEF Examined, RowsSound, Orderly, Unhelped, SessionsAgree
<1>7. AttemptLimit'
  <2>1. attempts' = attempts /\ miscounted' = miscounted /\ AttemptLimit
    BY <1>1 DEF Examined
  <2>2. \A l : AttemptsOf(l)' = AttemptsOf(l)
    BY <2>1 DEF AttemptsOf
  <2>3. QED
    BY <2>1, <2>2 DEF AttemptLimit
<1>8. QED
  BY <1>3, <1>4, <1>5, <1>6, <1>7 DEF Examined

-----------------------------------------------------------------------------
(* Joining *)

\* A session is added.
LEMMA CreateSessionKeeps ==
  ASSUME Examined, NEW c \in Calls, CreateSession(c)
  PROVE  Examined'
<1>1. PICK s \in Sessions :
        /\ sessions[s].status = "none" /\ sessions' = [sessions EXCEPT ![s] = NewSession]
        /\ calls' = [calls EXCEPT ![c].pc = "joined", ![c].session = s]
  <2>1. PICK s \in Sessions :
        /\ \A other \in Sessions : (sessions[other].status = "none") <=> (other >= s)
        /\ sessions' = [sessions EXCEPT ![s] = NewSession]
        /\ calls' = [calls EXCEPT ![c].pc = "joined", ![c].session = s]
    BY DEF CreateSession
  <2>2. s >= s
    BY ExaminationAssumption DEF Sessions
  <2>3. QED
    BY <2>1, <2>2
<1>2. /\ UNCHANGED <<assignment, now, attempts, turns, slots, overtaken, miscounted>>
      /\ calls[c].pc = "joining"
  BY DEF CreateSession
<1> DEFINE call == [calls[c] EXCEPT !.pc = "joined", !.session = s]
<1>3. calls[c] \in Call /\ s \in 0..MaxSessions /\ CallSound(calls[c])
  <2>1. s \in 0..MaxSessions
    BY ExaminationAssumption DEF Sessions
  <2>2. QED
    BY <2>1 DEF Examined, Typed, CallsSound
<1>4. call \in Call
  BY <1>3 DEF Call
<1>5. /\ call.pc = "joined" /\ call.session = s /\ call.gated = calls[c].gated
      /\ call.learner = calls[c].learner /\ call.number = calls[c].number
  BY <1>3 DEF Call
<1>6. calls' = [calls EXCEPT ![c] = call]
  BY <1>1
<1> HIDE DEF call
<1>7. /\ calls' \in [Calls -> Call] /\ calls'[c] = call
      /\ \A d \in Calls \ {c} : calls'[d] = calls[d]
  BY <1>4, <1>6 DEF Examined, Typed
<1>8. /\ sessions' \in [Sessions -> Row] /\ sessions'[s] = NewSession
      /\ \A t \in Sessions \ {s} : sessions'[t] = sessions[t]
  BY <1>1, FreshRows DEF Examined, Typed
<1>9. ~ calls[c].gated
  BY <1>2, <1>3 DEF CallSound
<1>10. GateAccounted' /\ slots' \in Nat
  <2>1. /\ slots' = slots + (IF calls[c].gated THEN 1 ELSE 0) - (IF calls'[c].gated THEN 1 ELSE 0)
        /\ slots' \in Nat
    BY <1>2, <1>5, <1>7, <1>9 DEF Examined, Typed
  <2>2. QED
    BY <1>7, <2>1, GateMoves DEF Examined, Typed
<1>11. Typed'
  BY <1>2, <1>7, <1>8, <1>10 DEF Examined, Typed
<1>12. turns[s] = <<>>
  BY <1>1 DEF Examined, RowsSound, Begun
<1>13. RowsSound'
  <2> SUFFICES ASSUME NEW t \in Sessions
               PROVE  /\ Orderly(sessions[t])'
                      /\ sessions'[t].status \notin Begun =>
                           Fresh(sessions'[t]) /\ turns'[t] = <<>>
    BY DEF RowsSound, Fresh
  <2>1. CASE t = s
    <3>1. Orderly(NewSession)
      BY FreshRows, FreshOrderly
    <3>2. QED
      BY <1>2, <1>8, <1>12, <2>1, <3>1, FreshRows DEF Orderly
  <2>2. CASE t # s
    BY <1>2, <1>8, <2>2 DEF Examined, RowsSound, Orderly
  <2>3. QED
    BY <2>1, <2>2
<1>14. Unhelped'
  BY <1>2 DEF Examined, Unhelped
<1>15. SessionsAgree'
  <2> SUFFICES ASSUME NEW t \in Sessions \ overtaken PROVE Agreed(sessions'[t], turns[t])
    BY <1>2 DEF SessionsAgree
  <2>1. CASE t = s
    <3>1. Agreed(NewSession, <<>>)
      BY FreshRows, FreshAgrees DEF Begun
    <3>2. QED
      BY <1>8, <1>12, <2>1, <3>1
  <2>2. CASE t # s
    BY <1>8, <2>2 DEF Examined, SessionsAgree
  <2>3. QED
    BY <2>1, <2>2
<1>16. AttemptLimit'
  <2>1. attempts' = attempts /\ miscounted' = miscounted /\ AttemptLimit
    BY <1>2 DEF Examined
  <2>2. \A l : AttemptsOf(l)' = AttemptsOf(l)
    BY <2>1 DEF AttemptsOf
  <2>3. QED
    BY <2>1, <2>2 DEF AttemptLimit
<1>17. CallsSound'
  <2> SUFFICES ASSUME NEW d \in Calls PROVE CallSound(calls[d])'
    BY DEF CallsSound
  <2>1. CASE d = c
    BY <1>2, <1>3, <1>5, <1>7, <2>1 DEF CallSound
  <2>2. CASE d # c
    <3>1. calls'[d] = calls[d] /\ calls[d] \in Call /\ CallSound(calls[d])
      BY <1>7, <2>2 DEF Examined, Typed, CallsSound
    <3>2. ASSUME NEW t \in Sessions
          PROVE  /\ sessions[t].status \in Begun => sessions'[t].status \in Begun
                 /\ Len(turns[t]) <= Len(turns'[t])
      <4>1. Len(turns[t]) <= Len(turns'[t])
        BY <1>2 DEF Examined, Typed
      <4>2. QED
        BY <1>1, <1>8, <4>1 DEF Begun
    <3>3. QED
      BY <1>2, <1>11, <3>1, <3>2, CallSurvives DEF Examined, Typed
  <2>3. QED
    BY <2>1, <2>2
<1>18. QED
  BY <1>10, <1>11, <1>13, <1>14, <1>15, <1>16, <1>17 DEF Examined

\* An attempt is added, numbered as it was counted.
LEMMA CreateAttemptKeeps ==
  ASSUME Examined, NEW c \in Calls, CreateAttempt(c)
  PROVE  Examined'
<1> DEFINE l == calls[c].learner
           row == [learner |-> l, session |-> calls[c].session, number |-> calls[c].number]
<1>1. /\ calls[c].pc = "joined" /\ attempts' = Append(attempts, row)
      /\ miscounted' = IF calls[c].number # PriorAttempts(l) + 1
                       THEN miscounted \cup {l} ELSE miscounted
      /\ calls' = [calls EXCEPT ![c] = Idle]
      /\ UNCHANGED <<assignment, now, sessions, turns, slots, overtaken>>
  BY DEF CreateAttempt
<1>2. calls[c] \in Call /\ CallSound(calls[c])
  BY DEF Examined, Typed, CallsSound
<1>3. /\ l \in Learners /\ calls[c].session \in Sessions /\ calls[c].number \in Nat
      /\ Countable(l) => calls[c].number <= MaxAttempts
      /\ ~ calls[c].gated
  BY <1>1, <1>2 DEF CallSound, Call
<1>4. /\ row \in [learner : Learners, session : Sessions, number : Nat]
      /\ row.learner = l /\ row.number = calls[c].number
  BY <1>3
<1>5. attempts \in Seq([learner : Learners, session : Sessions, number : Nat])
  BY DEF Examined, Typed
<1> DEFINE n == Len(attempts)
<1> HIDE DEF row
<1>6. /\ attempts' \in Seq([learner : Learners, session : Sessions, number : Nat])
      /\ DOMAIN attempts' = DOMAIN attempts \cup {n + 1}
      /\ \A i \in DOMAIN attempts : attempts'[i] = attempts[i]
      /\ attempts'[n + 1] = row
  <2>1. attempts' \in Seq([learner : Learners, session : Sessions, number : Nat])
    BY <1>1, <1>4, <1>5
  <2>2. QED
    BY <1>1, <1>4, <1>5, <2>1
<1>7. n + 1 \notin DOMAIN attempts
  BY <1>5
<1>8. /\ calls' \in [Calls -> Call] /\ calls'[c] = Idle
      /\ \A d \in Calls \ {c} : calls'[d] = calls[d]
  BY <1>1, IdleSound DEF Examined, Typed
<1>9. GateAccounted' /\ slots' \in Nat
  <2>1. /\ slots' = slots + (IF calls[c].gated THEN 1 ELSE 0) - (IF calls'[c].gated THEN 1 ELSE 0)
        /\ slots' \in Nat
    BY <1>1, <1>3, <1>8, IdleSound DEF Examined, Typed
  <2>2. QED
    BY <1>8, <2>1, GateMoves DEF Examined, Typed
<1>10. Typed'
  <2>1. miscounted' \subseteq Learners
    BY <1>1, <1>3 DEF Examined, Typed
  <2>2. QED
    BY <1>1, <1>6, <1>8, <1>9, <2>1 DEF Examined, Typed
<1>11. RowsSound' /\ Unhelped' /\ SessionsAgree'
  BY <1>1 DEF Examined, RowsSound, Orderly, Unhelped, SessionsAgree
<1>12. CallsSound'
  <2> SUFFICES ASSUME NEW d \in Calls PROVE CallSound(calls[d])'
    BY DEF CallsSound
  <2>1. CASE d = c
    BY <1>8, <2>1, IdleSound
  <2>2. CASE d # c
    <3>1. calls'[d] = calls[d] /\ calls[d] \in Call /\ CallSound(calls[d])
      BY <1>8, <2>2 DEF Examined, Typed, CallsSound
    <3>2. \A s \in Sessions : Len(turns[s]) <= Len(turns'[s])
      BY <1>1 DEF Examined, Typed
    <3>3. QED
      BY <1>1, <1>10, <3>1, <3>2, CallSurvives DEF Examined, Typed
  <2>3. QED
    BY <2>1, <2>2
<1>13. AttemptLimit'
  <2> SUFFICES ASSUME NEW k \in Learners, k \notin miscounted', k # Anonymous
               PROVE  /\ Cardinality(AttemptsOf(k)') <= MaxAttempts
                      /\ {attempts'[i].number : i \in AttemptsOf(k)'}
                           = 1..Cardinality(AttemptsOf(k)')
    BY DEF AttemptLimit, AttemptsOf
  <2>1. /\ Cardinality(AttemptsOf(k)) <= MaxAttempts
        /\ {attempts[i].number : i \in AttemptsOf(k)} = 1..Cardinality(AttemptsOf(k))
    BY <1>1 DEF Examined, AttemptLimit
  <2>2. /\ IsFiniteSet(AttemptsOf(k)) /\ Cardinality(AttemptsOf(k)) \in Nat
        /\ AttemptsOf(k) \subseteq DOMAIN attempts
    BY <1>5, AttemptsFinite
  <2>3. CASE k # l
    <3>1. AttemptsOf(k)' = AttemptsOf(k)
      BY <1>4, <1>6, <1>7, <2>3 DEF AttemptsOf
    <3>2. {attempts'[i].number : i \in AttemptsOf(k)} = {attempts[i].number : i \in AttemptsOf(k)}
      BY <1>6, <2>2
    <3>3. QED
      BY <2>1, <3>1, <3>2
  <2>4. CASE k = l
    <3>1. AttemptsOf(k)' = AttemptsOf(k) \cup {n + 1}
      BY <1>4, <1>6, <1>7, <2>4 DEF AttemptsOf
    <3>2. n + 1 \notin AttemptsOf(k)
      BY <1>7, <2>2
    <3>3. Cardinality(AttemptsOf(k) \cup {n + 1}) = Cardinality(AttemptsOf(k)) + 1
      BY <2>2, <3>2, FS_AddElement
    <3>4. calls[c].number = Cardinality(AttemptsOf(k)) + 1
      BY <1>1, <2>4 DEF PriorAttempts, Countable
    <3>5. Cardinality(AttemptsOf(k)') <= MaxAttempts
      BY <1>3, <2>4, <3>1, <3>3, <3>4 DEF Countable
    <3>6. {attempts'[i].number : i \in AttemptsOf(k)'}
            = {attempts[i].number : i \in AttemptsOf(k)} \cup {calls[c].number}
      BY <1>4, <1>6, <2>2, <3>1
    <3>7. (1..Cardinality(AttemptsOf(k))) \cup {Cardinality(AttemptsOf(k)) + 1}
            = 1..(Cardinality(AttemptsOf(k)) + 1)
      BY <2>2
    <3>8. QED
      BY <2>1, <3>1, <3>3, <3>4, <3>5, <3>6, <3>7
  <2>5. QED
    BY <2>3, <2>4
<1>14. QED
  BY <1>9, <1>10, <1>11, <1>12, <1>13 DEF Examined

-----------------------------------------------------------------------------
(* Starting and answering *)

\* A commit: the session's row is merged, the turns are added to, and a session
\* that is not overtaken was what the request had loaded.
LEMMA Committed ==
  ASSUME Examined, NEW c \in Calls, calls[c].pc \in {"starting", "model"},
         NEW new \in Row, NEW added \in Seq(TurnRow), Commit(c, new, added)
  PROVE  LET s == calls[c].session IN
         /\ s \in Sessions /\ calls[c].seen \in Row /\ Orderly(calls[c].seen)
         /\ sessions'[s] = Save(sessions[s], calls[c].seen, new)
         /\ turns'[s] = turns[s] \o added
         /\ sessions' \in [Sessions -> Row] /\ turns' \in [Sessions -> Seq(TurnRow)]
         /\ \A t \in Sessions \ {s} : sessions'[t] = sessions[t] /\ turns'[t] = turns[t]
         /\ overtaken \subseteq overtaken' /\ overtaken' \subseteq Sessions
         /\ overtaken' \subseteq overtaken \cup {s}
         /\ s \notin overtaken' => /\ s \notin overtaken /\ calls[c].seen = sessions[s]
                                   /\ calls[c].read = Len(turns[s])
<1> DEFINE s == calls[c].session
<1>1. calls[c] \in Call /\ CallSound(calls[c])
  BY DEF Examined, Typed, CallsSound
<1>2. s \in Sessions /\ Orderly(calls[c].seen) /\ calls[c].seen \in Row
  BY <1>1 DEF CallSound, Call
<1>3. sessions[s] \in Row /\ turns[s] \in Seq(TurnRow)
  BY <1>2 DEF Examined, Typed
<1>4. Save(sessions[s], calls[c].seen, new) \in Row
  BY <1>2, <1>3, Merged
<1>5. turns[s] \o added \in Seq(TurnRow)
  BY <1>3
<1>6. /\ sessions' = [sessions EXCEPT ![s] = Save(sessions[s], calls[c].seen, new)]
      /\ turns' = [turns EXCEPT ![s] = turns[s] \o added]
      /\ overtaken' = IF sessions[s] # calls[c].seen \/ Len(turns[s]) # calls[c].read
                      THEN overtaken \cup {s} ELSE overtaken
  BY DEF Commit, Stale
<1>7. sessions \in [Sessions -> Row] /\ turns \in [Sessions -> Seq(TurnRow)]
      /\ overtaken \subseteq Sessions
  BY DEF Examined, Typed
<1> DEFINE merged == Save(sessions[s], calls[c].seen, new)
           longer == turns[s] \o added
<1> HIDE DEF s, merged, longer
<1>8. /\ sessions'[s] = merged /\ turns'[s] = longer
      /\ sessions' \in [Sessions -> Row] /\ turns' \in [Sessions -> Seq(TurnRow)]
      /\ \A t \in Sessions \ {s} : sessions'[t] = sessions[t] /\ turns'[t] = turns[t]
  BY <1>2, <1>4, <1>5, <1>6, <1>7 DEF merged, longer
<1>9. QED
  BY <1>2, <1>6, <1>7, <1>8 DEF merged, longer, s

\* What was decided on a row that is still the session's is written as it is.
LEMMA Unmerged ==
  ASSUME NEW seen \in Row, NEW new \in Row
  PROVE  Save(seen, seen, new) = new
<1>1. Save(seen, seen, new) = [column \in DOMAIN new |-> new[column]]
  BY DEF Save
<1>2. new = [column \in DOMAIN new |-> new[column]]
  BY DEF Row
<1>3. QED
  BY <1>1, <1>2

\* A request's commit keeps the invariant when what it makes of the row it
\* loaded, and of the turns, does.
LEMMA CommitKeeps ==
  ASSUME Examined, NEW c \in Calls, calls[c].pc \in {"starting", "model"},
         NEW new \in Row, NEW added \in Seq(TurnRow), Commit(c, new, added),
         calls' = [calls EXCEPT ![c] = Idle],
         slots' = IF calls[c].gated THEN slots + 1 ELSE slots,
         UNCHANGED <<assignment, now, attempts, miscounted>>,
         Orderly(Save(sessions[calls[c].session], calls[c].seen, new)),
         Save(sessions[calls[c].session], calls[c].seen, new).status \in Begun,
         assignment.mode = "exam" =>
           \A i \in DOMAIN added : added[i].note \notin {"GIVE_HINT", "CORRECT", "hint"},
         Agreed(calls[c].seen, turns[calls[c].session])
             /\ calls[c].seen = sessions[calls[c].session]
             /\ calls[c].read = Len(turns[calls[c].session])
           => Agreed(new, turns[calls[c].session] \o added)
  PROVE  Examined'
<1> DEFINE s == calls[c].session
           row == Save(sessions[s], calls[c].seen, new)
<1>1. /\ s \in Sessions /\ calls[c].seen \in Row
      /\ sessions'[s] = row /\ turns'[s] = turns[s] \o added
      /\ sessions' \in [Sessions -> Row] /\ turns' \in [Sessions -> Seq(TurnRow)]
      /\ \A t \in Sessions \ {s} : sessions'[t] = sessions[t] /\ turns'[t] = turns[t]
      /\ overtaken \subseteq overtaken' /\ overtaken' \subseteq Sessions
      /\ overtaken' \subseteq overtaken \cup {s}
      /\ s \notin overtaken' => /\ s \notin overtaken /\ calls[c].seen = sessions[s]
                                /\ calls[c].read = Len(turns[s])
  BY Committed
<1>2. turns[s] \in Seq(TurnRow) /\ calls[c] \in Call
  BY <1>1 DEF Examined, Typed
<1> HIDE DEF s, row
<1>3. /\ calls' \in [Calls -> Call] /\ calls'[c] = Idle
      /\ \A d \in Calls \ {c} : calls'[d] = calls[d]
  BY IdleSound DEF Examined, Typed
<1>4. GateAccounted' /\ slots' \in Nat
  <2>1. slots \in Nat /\ calls[c].gated \in BOOLEAN
    BY <1>2 DEF Examined, Typed, Call
  <2>2. /\ slots' = slots + (IF calls[c].gated THEN 1 ELSE 0) - (IF calls'[c].gated THEN 1 ELSE 0)
        /\ slots' \in Nat
    BY <1>3, <2>1, IdleSound
  <2>3. QED
    BY <1>3, <2>2, GateMoves DEF Examined, Typed
<1>5. Typed'
  BY <1>1, <1>3, <1>4 DEF Examined, Typed
<1>6. row.status \in Begun /\ Orderly(row)
  BY DEF row, s
<1>7. RowsSound'
  <2> SUFFICES ASSUME NEW t \in Sessions
               PROVE  /\ Orderly(sessions[t])'
                      /\ sessions'[t].status \notin Begun =>
                           Fresh(sessions'[t]) /\ turns'[t] = <<>>
    BY DEF RowsSound, Fresh
  <2>1. CASE t = s
    BY <1>1, <1>6, <2>1 DEF Orderly
  <2>2. CASE t # s
    BY <1>1, <2>2 DEF Examined, RowsSound, Orderly
  <2>3. QED
    BY <2>1, <2>2
<1>8. Unhelped'
  <2> SUFFICES ASSUME assignment.mode = "exam", NEW t \in Sessions, NEW i \in DOMAIN turns'[t]
               PROVE  turns'[t][i].note \notin {"GIVE_HINT", "CORRECT", "hint"}
    BY DEF Unhelped
  <2>1. CASE t = s
    <3>1. /\ \A j \in DOMAIN turns[s] : turns[s][j].note \notin {"GIVE_HINT", "CORRECT", "hint"}
          /\ \A j \in DOMAIN added : added[j].note \notin {"GIVE_HINT", "CORRECT", "hint"}
      BY <1>1 DEF Examined, Unhelped
    <3>2. CASE i \in DOMAIN turns[s]
      <4>1. turns'[s][i] = turns[s][i]
        BY <1>1, <1>2, <3>2
      <4>2. QED
        BY <2>1, <3>1, <3>2, <4>1
    <3>3. CASE i \notin DOMAIN turns[s]
      <4>1. i - Len(turns[s]) \in DOMAIN added /\ turns'[s][i] = added[i - Len(turns[s])]
        BY <1>1, <1>2, <2>1, <3>3
      <4>2. QED
        BY <2>1, <3>1, <4>1
    <3>4. QED
      BY <3>2, <3>3
  <2>2. CASE t # s
    BY <1>1, <2>2 DEF Examined, Unhelped
  <2>3. QED
    BY <2>1, <2>2
<1>9. SessionsAgree'
  <2> SUFFICES ASSUME NEW t \in Sessions \ overtaken' PROVE Agreed(sessions'[t], turns'[t])
    BY DEF SessionsAgree
  <2>1. CASE t = s
    <3>1. s \notin overtaken /\ calls[c].seen = sessions[s] /\ calls[c].read = Len(turns[s])
      BY <1>1, <2>1
    <3>2. Agreed(sessions[s], turns[s])
      BY <1>1, <3>1 DEF Examined, SessionsAgree
    <3>3. Agreed(new, turns[s] \o added)
      BY <3>1, <3>2 DEF s
    <3>4. row = new
      BY <1>1, <3>1, Unmerged DEF row
    <3>5. QED
      BY <1>1, <2>1, <3>3, <3>4
  <2>2. CASE t # s
    BY <1>1, <2>2 DEF Examined, SessionsAgree
  <2>3. QED
    BY <2>1, <2>2
<1>10. AttemptLimit'
  <2>1. attempts' = attempts /\ miscounted' = miscounted /\ AttemptLimit
    BY DEF Examined
  <2>2. \A l : AttemptsOf(l)' = AttemptsOf(l)
    BY <2>1 DEF AttemptsOf
  <2>3. QED
    BY <2>1, <2>2 DEF AttemptLimit
<1>11. CallsSound'
  <2> SUFFICES ASSUME NEW d \in Calls PROVE CallSound(calls[d])'
    BY DEF CallsSound
  <2>1. CASE d = c
    BY <1>3, <2>1, IdleSound
  <2>2. CASE d # c
    <3>1. calls'[d] = calls[d] /\ calls[d] \in Call /\ CallSound(calls[d])
      BY <1>3, <2>2 DEF Examined, Typed, CallsSound
    <3>2. ASSUME NEW t \in Sessions
          PROVE  /\ sessions[t].status \in Begun => sessions'[t].status \in Begun
                 /\ Len(turns[t]) <= Len(turns'[t])
      <4>1. turns[t] \in Seq(TurnRow)
        BY DEF Examined, Typed
      <4>2. Len(turns[t]) <= Len(turns'[t])
        <5>1. Len(turns[s] \o added) = Len(turns[s]) + Len(added)
              /\ Len(turns[s]) \in Nat /\ Len(added) \in Nat
          BY <1>2
        <5>2. Len(turns[s]) <= Len(turns'[s])
          BY <1>1, <5>1
        <5>3. t # s => Len(turns[t]) <= Len(turns'[t])
          BY <1>1, <4>1
        <5>4. QED
          BY <5>2, <5>3
      <4>3. QED
        BY <1>1, <1>6, <4>2
    <3>3. QED
      BY <1>5, <3>1, <3>2, CallSurvives DEF Examined, Typed
  <2>3. QED
    BY <2>1, <2>2
<1>12. QED
  BY <1>4, <1>5, <1>7, <1>8, <1>9, <1>10, <1>11 DEF Examined

\* The first question is asked.
LEMMA StartKeeps ==
  ASSUME Examined, NEW c \in Calls, StartWrite(c)
  PROVE  Examined'
<1> DEFINE s    == calls[c].session
           seen == calls[c].seen
<1>1. PICK first \in (IF assignment.strategy = "adaptive" THEN Questions ELSE {1}) :
        Commit(c, [seen EXCEPT !.status = "active", !.index = first, !.tries = 0,
                               !.asked = <<first>>],
               <<Turn("assistant", first, "ASK_NEW")>>)
  BY DEF StartWrite
<1>2. /\ calls[c].pc = "starting" /\ calls' = [calls EXCEPT ![c] = Idle] /\ slots' = slots
      /\ UNCHANGED <<assignment, now, attempts, miscounted>>
  BY DEF StartWrite
<1>3. calls[c] \in Call /\ CallSound(calls[c])
  BY DEF Examined, Typed, CallsSound
<1>4. /\ s \in Sessions /\ seen \in Row /\ seen.status = "created" /\ Fresh(seen)
      /\ ~ calls[c].gated
  BY <1>2, <1>3 DEF CallSound, Call
<1>5. first \in Questions /\ (assignment.strategy # "adaptive" => first = 1)
  BY PlanFacts
<1> DEFINE new == [seen EXCEPT !.status = "active", !.index = first, !.tries = 0,
                               !.asked = <<first>>]
           turn == Turn("assistant", first, "ASK_NEW")
<1>6. new \in Row
  <2>1. <<first>> \in Seq(Questions)
    BY <1>5
  <2> DEFINE one == <<first>>
  <2> HIDE DEF one
  <2>2. [seen EXCEPT !.status = "active", !.index = first, !.tries = 0, !.asked = one] \in Row
    BY <1>4, <1>5, <2>1 DEF Row, one
  <2>3. QED
    BY <2>2 DEF one
<1>7. /\ new.status = "active" /\ new.index = first /\ new.tries = 0
      /\ new.asked = <<first>> /\ new.graded = seen.graded
  BY <1>4 DEF Row
<1>8. turn \in TurnRow /\ turn.role = "assistant" /\ turn.question = first /\ turn.note = "ASK_NEW"
  BY <1>5 DEF Turn, TurnRow, Roles, Notes
<1>9. Commit(c, new, <<turn>>)
  BY <1>1
<1> HIDE DEF new, turn, s, seen
<1>10. sessions[s] \in Row /\ turns[s] \in Seq(TurnRow)
  BY <1>4 DEF Examined, Typed
<1> DEFINE row == Save(sessions[s], seen, new)
<1>11. row \in Row /\ row.status = "active" /\ row.asked = <<first>>
  <2>1. new.status # seen.status /\ new.asked # seen.asked
    BY <1>4, <1>7 DEF Fresh
  <2>2. QED
    BY <1>4, <1>6, <1>7, <1>10, <2>1, Merged
<1> HIDE DEF row
<1>12. Orderly(row)
  <2>1. IsInjective(<<first>>) /\ Len(<<first>>) = 1 /\ DOMAIN <<first>> = {1}
        /\ <<first>>[1] = first
    BY DEF IsInjective
  <2>2. 1 <= Limit /\ row.index \in Nat \ {0}
    BY <1>11, PlanFacts DEF Row, Questions
  <2>3. QED
    BY <1>5, <1>11, <2>1, <2>2 DEF Orderly
<1>13. ASSUME seen = sessions[s] PROVE Agreed(new, turns[s] \o <<turn>>)
  <2>1. turns[s] = <<>>
    BY <1>4, <1>13 DEF Examined, RowsSound, Begun
  <2>2. turns[s] \o <<turn>> = <<turn>>
    BY <1>8, <2>1
  <2> DEFINE list == <<turn>>
  <2>3. /\ DOMAIN list = {1} /\ list[1] = turn /\ list # <<>> /\ Last(list) = turn
    BY DEF Last
  <2>4. ToSet(new.asked) = {first} /\ new.asked # <<>> /\ Last(new.asked) = first
    BY <1>7 DEF ToSet, Last
  <2> HIDE DEF list
  <2>5. Put(list) = {1} /\ Given(list) = {} /\ \A q : Followed(list, q) = {}
    BY <1>8, <2>3 DEF Put, Given, Followed
  <2>6. Cardinality({}) = 0 /\ 0 <= Followups
    BY FS_EmptySet, ExaminationAssumption
  <2>7. \A q : Cardinality(Followed(list, q)) = 0
    BY <2>5, <2>6
  <2>8. new.graded = {list[i].question : i \in Given(list)}
    BY <1>4, <1>7, <2>5 DEF Fresh
  <2>9. ToSet(new.asked) = {list[i].question : i \in Put(list)}
    BY <1>8, <2>3, <2>4, <2>5
  <2>10. Agreed(new, list)
    BY <1>7, <1>8, <2>3, <2>4, <2>6, <2>7, <2>8, <2>9 DEF Agreed
  <2>11. QED
    BY <2>2, <2>10 DEF list
<1>14. \A i \in DOMAIN <<turn>> : <<turn>>[i].note \notin {"GIVE_HINT", "CORRECT", "hint"}
  BY <1>8
<1>15. <<turn>> \in Seq(TurnRow)
  BY <1>8
<1>16. row.status \in Begun
  BY <1>11 DEF Begun
<1>17. QED
  BY <1>2, <1>4, <1>6, <1>9, <1>12, <1>13, <1>14, <1>15, <1>16, CommitKeeps DEF row, s, seen

\* A set of turns that is not empty has a last one.
LEMMA LastOf ==
  ASSUME NEW n \in Nat, NEW S, S \subseteq 1..n, S # {}
  PROVE  \E i \in S : \A j \in S : j <= i
<1> DEFINE tails == {(i + 1)..n : i \in S}
<1>1. tails \subseteq FiniteSubsetsOf(Nat) /\ tails # {}
  <2>1. ASSUME NEW i \in S
        PROVE  (i + 1)..n \subseteq Nat /\ IsFiniteSet((i + 1)..n)
    BY FS_Interval
  <2>2. QED
    BY <2>1 DEF FiniteSubsetsOf
<1>2. PICK tail \in tails : \A t \in tails : ~ (<<t, tail>> \in StrictSubsetOrdering(Nat))
  BY <1>1, FS_StrictSubsetOrderingWellFounded, WFMin
<1>3. PICK i \in S : tail = (i + 1)..n
  BY <1>2
<1>4. ASSUME NEW j \in S, j > i
      PROVE  FALSE
  <2>1. /\ (j + 1)..n \subseteq (i + 1)..n /\ (j + 1)..n # (i + 1)..n
        /\ (j + 1)..n \subseteq Nat /\ (i + 1)..n \subseteq Nat
    <3>1. j \in (i + 1)..n /\ j \notin (j + 1)..n
      BY <1>4
    <3>2. QED
      BY <1>4, <3>1
  <2>2. <<(j + 1)..n, tail>> \in StrictSubsetOrdering(Nat)
    BY <1>3, <2>1 DEF StrictSubsetOrdering
  <2>3. QED
    BY <1>2, <2>2
<1>5. QED
  BY <1>4

\* An answer that follows a hint is recorded as hinted, and no answer is when no
\* hint was given.
LEMMA AssistanceFacts ==
  ASSUME turns \in [Sessions -> Seq(TurnRow)], NEW s \in Sessions,
         NEW read \in Nat, read <= Len(turns[s]), NEW tries \in Nat
  PROVE  /\ Assistance(s, read, tries) \in {"direct", "followup", "hint"}
         /\ tries > 0 /\ read = Len(turns[s]) /\ turns[s] # <<>>
              /\ Last(turns[s]).note = "GIVE_HINT" => Assistance(s, read, tries) = "hint"
         /\ (\A i \in DOMAIN turns[s] : turns[s][i].note # "GIVE_HINT")
              => Assistance(s, read, tries) # "hint"
<1> DEFINE helped == {i \in 1..read : turns[s][i].note \in {"GIVE_HINT", "ASK_FOLLOWUP"}}
           latest == CHOOSE i \in helped : \A j \in helped : j <= i
<1>1. turns[s] \in Seq(TurnRow) /\ Len(turns[s]) \in Nat /\ DOMAIN turns[s] = 1..Len(turns[s])
  OBVIOUS
<1>2. helped # {} => latest \in helped /\ \A j \in helped : j <= latest
  <2>1. helped # {} => \E i \in helped : \A j \in helped : j <= i
    BY LastOf
  <2> HIDE DEF helped
  <2>2. QED
    BY <2>1
<1>3. Assistance(s, read, tries) =
        IF tries = 0 THEN "direct"
        ELSE IF helped = {} THEN "followup"
        ELSE IF turns[s][latest].note = "GIVE_HINT" THEN "hint" ELSE "followup"
  BY DEF Assistance
<1>4. helped \subseteq 1..Len(turns[s]) /\ helped \subseteq Nat
  BY <1>1
<1>5. ASSUME tries > 0, read = Len(turns[s]), turns[s] # <<>>, Last(turns[s]).note = "GIVE_HINT"
      PROVE  Assistance(s, read, tries) = "hint"
  <2>1. read \in helped /\ turns[s][read].note = "GIVE_HINT"
    BY <1>1, <1>5 DEF Last
  <2>2. \A j \in helped : j <= read
    OBVIOUS
  <2> HIDE DEF helped, latest
  <2>3. latest \in helped /\ read <= latest /\ latest <= read
    BY <1>2, <2>1, <2>2
  <2>4. latest = read
    <3>1. latest \in Nat
      BY <1>4, <2>3
    <3>2. QED
      BY <2>3, <3>1
  <2>5. QED
    BY <1>3, <1>5, <2>1, <2>4
<1>6. ASSUME \A i \in DOMAIN turns[s] : turns[s][i].note # "GIVE_HINT"
      PROVE  Assistance(s, read, tries) # "hint"
  <2> HIDE DEF helped, latest
  <2>1. QED
    BY <1>1, <1>2, <1>3, <1>4, <1>6
<1>7. QED
  <2> HIDE DEF helped, latest
  <2>1. QED
    BY <1>3, <1>5, <1>6

\* What a request records is a continuation of the row it loaded, and helps in no
\* exam.
LEMMA RecordCommits ==
  ASSUME Examined, NEW c \in Calls, NEW analysis \in Analyses, Record(c, analysis)
  PROVE  LET seen == calls[c].seen
             a == Turn("user", seen.index, Assistance(calls[c].session, calls[c].read, seen.tries))
         IN \E new \in Row, b \in TurnRow :
              /\ Commit(c, new, <<a, b>>) /\ Continues(seen, new, b)
              /\ b.role = "assistant" /\ b.note # "CORRECT"
              /\ assignment.mode = "exam" => b.note # "GIVE_HINT"
<1> DEFINE seen == calls[c].seen
           q == seen.index
           last == Len(seen.asked) >= Limit
           action == Decide(SessionPolicy(assignment), analysis, seen.tries, last)
           graded == [seen EXCEPT !.graded = @ \cup {q}]
           a == Turn("user", q, Assistance(calls[c].session, calls[c].read, seen.tries))
           next == NextQuestions(seen.asked, q)
           Recorded == \E new \in Row, b \in TurnRow :
                         /\ Commit(c, new, <<a, b>>) /\ Continues(seen, new, b)
                         /\ b.role = "assistant" /\ b.note # "CORRECT"
                         /\ assignment.mode = "exam" => b.note # "GIVE_HINT"
<1>1. calls[c].pc = "model" /\ calls[c] \in Call /\ CallSound(calls[c])
  BY DEF Record, Examined, Typed, CallsSound
<1>2. seen \in Row /\ Orderly(seen)
  BY <1>1 DEF CallSound, Call
<1>3. /\ q \in Questions /\ seen.tries \in Nat /\ seen.tries + 1 \in Nat /\ last \in BOOLEAN
      /\ seen.asked \in Seq(Questions) /\ Len(seen.asked) \in Nat
  BY <1>2 DEF Row
<1>4. /\ action \in {"ASK_FOLLOWUP", "GIVE_HINT", "MOVE_ON", "END"}
      /\ action = "ASK_FOLLOWUP" => seen.tries < Followups
      /\ action = "GIVE_HINT" => assignment.mode # "exam"
      /\ action = "MOVE_ON" => ~ last
  <2> DEFINE tries == seen.tries
             policy == SessionPolicy(assignment)
  <2>1. /\ "END" \in policy.allowed
        /\ assignment.mode = "exam" => "GIVE_HINT" \notin policy.allowed
    BY PolicySound DEF Examined
  <2>2. tries \in Nat /\ last \in BOOLEAN
    BY <1>3
  <2> HIDE DEF policy, tries, last
  <2>3. LET act == Decide(policy, analysis, tries, last) IN
         /\ act \in {"ASK_FOLLOWUP", "GIVE_HINT", "MOVE_ON", "END"}
         /\ act = "ASK_FOLLOWUP" => tries < Followups
         /\ act = "GIVE_HINT" => "GIVE_HINT" \in policy.allowed
         /\ act = "MOVE_ON" => ~ last
    BY <2>1, <2>2, Decision
  <2>4. QED
    BY <2>1, <2>3 DEF policy, tries
<1>5. \/ /\ action \in {"ASK_FOLLOWUP", "GIVE_HINT"}
         /\ Commit(c, [graded EXCEPT !.tries = @ + 1], <<a, Turn("assistant", q, action)>>)
      \/ /\ action = "MOVE_ON"
         /\ \E r \in next :
              Commit(c, [graded EXCEPT !.index = r, !.tries = 0, !.asked = Append(@, r)],
                     <<a, Turn("assistant", r, action)>>)
      \/ Commit(c, [graded EXCEPT !.status = "completed"], <<a, Turn("assistant", q, "END")>>)
  BY DEF Record
<1>6. /\ graded \in Row /\ graded.graded = seen.graded \cup {q} /\ graded.status = seen.status
      /\ graded.index = q /\ graded.tries = seen.tries /\ graded.asked = seen.asked
  BY <1>2, <1>3 DEF Row
<1> HIDE DEF seen, action, graded, a, next, last, q
<1>7. ASSUME action \in {"ASK_FOLLOWUP", "GIVE_HINT"},
             Commit(c, [graded EXCEPT !.tries = @ + 1], <<a, Turn("assistant", q, action)>>)
      PROVE  Recorded
  <2> DEFINE new == [graded EXCEPT !.tries = @ + 1]
             b == Turn("assistant", q, action)
  <2>1. graded.tries + 1 \in Nat
    BY <1>3, <1>6
  <2>2. new \in Row
    BY <1>6, <2>1 DEF Row
  <2>3. /\ new.graded = graded.graded /\ new.status = graded.status /\ new.index = graded.index
        /\ new.asked = graded.asked /\ new.tries = graded.tries + 1
    BY <1>6, <2>1 DEF Row
  <2>4. b \in TurnRow /\ b.role = "assistant" /\ b.question = q /\ b.note = action
    BY <1>3, <1>7 DEF Turn, TurnRow, Roles, Notes, Actions
  <2> HIDE DEF new, b
  <2>5. Continues(seen, new, b)
    BY <1>4, <1>6, <1>7, <2>3, <2>4 DEF Continues, q
  <2>6. Commit(c, new, <<a, b>>)
    BY <1>7 DEF new, b
  <2>7. QED
    BY <1>4, <1>7, <2>2, <2>4, <2>5, <2>6
<1>8. ASSUME action = "MOVE_ON", NEW r \in next,
             Commit(c, [graded EXCEPT !.index = r, !.tries = 0, !.asked = Append(@, r)],
                    <<a, Turn("assistant", r, action)>>)
      PROVE  Recorded
  <2> DEFINE longer == Append(graded.asked, r)
             new == [graded EXCEPT !.index = r, !.tries = 0, !.asked = longer]
             b == Turn("assistant", r, action)
  <2>1. r \in Questions
    BY <1>2, NextIsNew DEF next, q
  <2>2. longer \in Seq(Questions)
    BY <1>3, <1>6, <2>1
  <2>3. longer = Append(seen.asked, r)
    BY <1>6
  <2>4. Commit(c, new, <<a, b>>)
    BY <1>8
  <2> HIDE DEF longer
  <2>5. new \in Row
    BY <1>6, <2>1, <2>2 DEF Row
  <2>6. /\ new.graded = graded.graded /\ new.status = graded.status /\ new.index = r
        /\ new.asked = longer /\ new.tries = 0
    BY <1>6 DEF Row
  <2>7. b \in TurnRow /\ b.role = "assistant" /\ b.question = r /\ b.note = "MOVE_ON"
    BY <1>8, <2>1 DEF Turn, TurnRow, Roles, Notes, Actions
  <2> HIDE DEF new, b
  <2>8. Len(seen.asked) < Limit
    BY <1>3, <1>4, <1>8, PlanFacts DEF last
  <2>9. Continues(seen, new, b)
    BY <1>6, <1>8, <2>3, <2>6, <2>7, <2>8 DEF Continues, next, q
  <2>10. QED
    BY <2>4, <2>5, <2>7, <2>9
<1>9. ASSUME Commit(c, [graded EXCEPT !.status = "completed"], <<a, Turn("assistant", q, "END")>>)
      PROVE  Recorded
  <2> DEFINE new == [graded EXCEPT !.status = "completed"]
             b == Turn("assistant", q, "END")
  <2>1. new \in Row
    BY <1>6 DEF Row
  <2>2. /\ new.graded = graded.graded /\ new.status = "completed" /\ new.index = graded.index
        /\ new.asked = graded.asked /\ new.tries = graded.tries
    BY <1>6 DEF Row
  <2>3. b \in TurnRow /\ b.role = "assistant" /\ b.question = q /\ b.note = "END"
    BY <1>3 DEF Turn, TurnRow, Roles, Notes, Actions
  <2> HIDE DEF new, b
  <2>4. Continues(seen, new, b)
    BY <1>6, <2>2, <2>3 DEF Continues, q
  <2>5. Commit(c, new, <<a, b>>)
    BY <1>9 DEF new, b
  <2>6. QED
    BY <2>1, <2>3, <2>4, <2>5 DEF a, seen, q
<1>10. Recorded
  <2> HIDE DEF Recorded
  <2>1. QED
    BY <1>5, <1>7, <1>8, <1>9
<1>11. QED
  BY <1>10 DEF a, seen, q

\* An answer is recorded, and the interview goes on or ends.
LEMMA RecordKeeps ==
  ASSUME Examined, NEW c \in Calls, NEW analysis \in Analyses, Record(c, analysis)
  PROVE  Examined'
<1> DEFINE s    == calls[c].session
           seen == calls[c].seen
           list == turns[s]
           a    == Turn("user", seen.index, Assistance(s, calls[c].read, seen.tries))
<1>1. PICK new \in Row, b \in TurnRow :
        /\ Commit(c, new, <<a, b>>) /\ Continues(seen, new, b)
        /\ b.role = "assistant" /\ b.note # "CORRECT"
        /\ assignment.mode = "exam" => b.note # "GIVE_HINT"
  BY RecordCommits
<1>2. /\ calls[c].pc = "model" /\ calls' = [calls EXCEPT ![c] = Idle]
      /\ slots' = IF calls[c].gated THEN slots + 1 ELSE slots
      /\ UNCHANGED <<assignment, now, attempts, miscounted>>
  BY DEF Record, Return
<1>3. calls[c] \in Call /\ CallSound(calls[c])
  BY DEF Examined, Typed, CallsSound
<1>4. /\ s \in Sessions /\ seen \in Row /\ Orderly(seen) /\ seen.status = "active"
      /\ sessions[s].status \in Begun /\ calls[c].read \in Nat
      /\ calls[c].read <= Len(turns[s])
  BY <1>2, <1>3 DEF CallSound, Call, Begun
<1>5. /\ sessions[s] \in Row /\ Orderly(sessions[s]) /\ list \in Seq(TurnRow)
      /\ turns \in [Sessions -> Seq(TurnRow)]
  BY <1>4 DEF Examined, Typed, RowsSound
<1>6. seen.index \in Questions /\ seen.tries \in Nat /\ seen.asked \in Seq(Questions)
  BY <1>4 DEF Row
<1>7. /\ Assistance(s, calls[c].read, seen.tries) \in {"direct", "followup", "hint"}
      /\ seen.tries > 0 /\ calls[c].read = Len(list) /\ list # <<>>
           /\ Last(list).note = "GIVE_HINT" => Assistance(s, calls[c].read, seen.tries) = "hint"
      /\ (\A i \in DOMAIN list : list[i].note # "GIVE_HINT")
           => Assistance(s, calls[c].read, seen.tries) # "hint"
  BY <1>4, <1>5, <1>6, AssistanceFacts
<1>8. /\ a \in TurnRow /\ a.role = "user" /\ a.question = seen.index
      /\ a.note = Assistance(s, calls[c].read, seen.tries)
  BY <1>6, <1>7 DEF Turn, TurnRow, Roles, Notes
<1> HIDE DEF a, list, s, seen
<1>9. Orderly(Save(sessions[s], seen, new))
  BY <1>1, <1>4, <1>5, OrderlyContinued
<1>10. Save(sessions[s], seen, new).status \in Begun
  <2>1. new.status = seen.status \/ new.status = "completed"
    BY <1>1 DEF Continues
  <2>2. Save(sessions[s], seen, new).status =
          IF new.status = seen.status THEN sessions[s].status ELSE new.status
    BY <1>4, <1>5, Merged
  <2>3. QED
    BY <1>4, <2>1, <2>2 DEF Begun
<1>11. ASSUME assignment.mode = "exam"
       PROVE  \A i \in DOMAIN <<a, b>> : <<a, b>>[i].note \notin {"GIVE_HINT", "CORRECT", "hint"}
  <2>1. \A i \in DOMAIN list : list[i].note # "GIVE_HINT"
    BY <1>4, <1>11 DEF Examined, Unhelped, list
  <2>2. a.note \notin {"GIVE_HINT", "CORRECT", "hint"}
    BY <1>7, <1>8, <2>1
  <2>3. b.note \notin {"GIVE_HINT", "CORRECT", "hint"}
    BY <1>1, <1>11 DEF Continues
  <2>4. QED
    BY <2>2, <2>3
<1>12. ASSUME Agreed(seen, list), calls[c].read = Len(list)
       PROVE  Agreed(new, list \o <<a, b>>)
  <2>1. /\ seen.asked # <<>> /\ list # <<>> /\ seen.index = Last(seen.asked)
        /\ Last(list).note = "GIVE_HINT" => seen.tries > 0
        /\ Cardinality(Followed(list, seen.index)) <= seen.tries
    BY <1>4, <1>12 DEF Agreed
  <2>2. \A q : Cardinality(Followed(list, q)) \in Nat
    BY <1>5, FollowedFinite
  <2>3. seen.index \in ToSet(seen.asked)
    <3>1. Len(seen.asked) \in DOMAIN seen.asked
      BY <1>6, <2>1
    <3>2. QED
      BY <2>1, <3>1 DEF ToSet, Last
  <2>4. new.graded = seen.graded \cup {a.question}
    BY <1>1, <1>8 DEF Continues
  <2>5. list # <<>> /\ Last(list).note = "GIVE_HINT" => a.note = "hint"
    BY <1>7, <1>8, <1>12, <2>1
  <2>6. a.note # "ASK_FOLLOWUP"
    BY <1>7, <1>8
  <2>7. CASE /\ b.note \in {"ASK_FOLLOWUP", "GIVE_HINT"} /\ b.question = seen.index
             /\ b.note = "ASK_FOLLOWUP" => seen.tries < Followups
             /\ new.status = seen.status /\ new.index = seen.index /\ new.asked = seen.asked
             /\ new.tries = seen.tries + 1
    <3>1. ToSet(new.asked) = ToSet(seen.asked) \cup {b.question}
      BY <2>3, <2>7
    <3>2. b.note = "ASK_FOLLOWUP" => Cardinality(Followed(list, b.question)) < Followups
      BY <1>6, <2>1, <2>2, <2>7, ExaminationAssumption
    <3>3. /\ new.asked # <<>> /\ new.index = Last(new.asked) /\ new.index = b.question
          /\ new.tries > 0
          /\ Cardinality(Followed(list, new.index))
               + (IF b.note = "ASK_FOLLOWUP" THEN 1 ELSE 0) <= new.tries
      BY <1>6, <2>1, <2>2, <2>7
    <3>4. QED
      BY <1>1, <1>4, <1>5, <1>8, <1>12, <2>4, <2>5, <2>6, <3>1, <3>2, <3>3, AgreedGrows
  <2>8. CASE /\ b.note = "MOVE_ON" /\ b.question \in NextQuestions(seen.asked, seen.index)
             /\ new.index = b.question /\ new.tries = 0
             /\ new.asked = Append(seen.asked, b.question)
    <3>1. b.question \in Questions /\ b.question \notin ToSet(seen.asked)
      BY <1>4, <2>8, NextIsNew
    <3>2. /\ ToSet(new.asked) = ToSet(seen.asked) \cup {b.question}
          /\ Last(new.asked) = b.question /\ new.asked # <<>>
      BY <1>6, <2>8, <3>1, AppendFacts
    <3>3. Followed(list, b.question) = {}
      <4>1. \A i \in Followed(list, b.question) : i \in Put(list)
        <5>1. \A i \in DOMAIN list : list[i] \in TurnRow
          BY <1>5
        <5>2. QED
          BY <5>1 DEF Followed, Put, TurnRow, Roles
      <4>2. \A i \in Put(list) : list[i].question \in ToSet(seen.asked)
        BY <1>12 DEF Agreed
      <4>3. QED
        BY <3>1, <4>1, <4>2 DEF Followed
    <3>4. Cardinality(Followed(list, b.question)) = 0
      BY <3>3, FS_EmptySet
    <3>5. /\ new.asked # <<>> /\ new.index = Last(new.asked) /\ new.index = b.question
          /\ b.note # "GIVE_HINT" /\ b.note # "ASK_FOLLOWUP"
          /\ Cardinality(Followed(list, new.index))
               + (IF b.note = "ASK_FOLLOWUP" THEN 1 ELSE 0) <= new.tries
      BY <2>8, <3>2, <3>4
    <3>6. QED
      BY <1>1, <1>4, <1>5, <1>8, <1>12, <2>4, <2>5, <2>6, <3>2, <3>5, AgreedGrows
  <2>9. CASE /\ b.note = "END" /\ b.question = seen.index
             /\ new.status = "completed" /\ new.asked = seen.asked
    <3>1. ToSet(new.asked) = ToSet(seen.asked) \cup {b.question}
      BY <2>3, <2>9
    <3>2. QED
      BY <1>1, <1>4, <1>5, <1>8, <1>12, <2>4, <2>5, <2>6, <2>9, <3>1, AgreedGrows
  <2>10. QED
    BY <1>1, <2>7, <2>8, <2>9 DEF Continues
<1>13. <<a, b>> \in Seq(TurnRow)
  BY <1>8
<1>14. QED
  BY <1>1, <1>2, <1>9, <1>10, <1>11, <1>12, <1>13, CommitKeeps DEF s, seen, list

-----------------------------------------------------------------------------
(* The invariant *)

LEMMA InitExamined == Init => Examined
<1> SUFFICES ASSUME Init PROVE Examined
  OBVIOUS
<1>1. /\ attempts = <<>> /\ sessions = [s \in Sessions |-> NoSession]
      /\ turns = [s \in Sessions |-> <<>>] /\ calls = [c \in Calls |-> Idle]
      /\ slots = Capacity /\ overtaken = {} /\ miscounted = {} /\ now = 1
      /\ \E set \in Settings, edit \in Edits : assignment = Assignment(set, edit)
  BY DEF Init
<1>2. Typed
  <2>1. 1 \in 1..MaxTime /\ Capacity \in Nat
    BY ExaminationAssumption
  <2>2. Idle \in Call /\ NoSession \in Row
    BY IdleSound, FreshRows
  <2>3. QED
    BY <1>1, <2>1, <2>2 DEF Typed
<1>3. RowsSound
  BY <1>1, FreshRows, FreshOrderly DEF RowsSound
<1>4. CallsSound
  <2>1. Idle.pc = "idle" /\ Idle.gated = FALSE
    BY IdleSound
  <2>2. QED
    BY <1>1, <2>1 DEF CallsSound, CallSound
<1>5. Unhelped
  BY <1>1 DEF Unhelped
<1>6. SessionsAgree
  BY <1>1, FreshRows, FreshAgrees DEF SessionsAgree, Begun
<1>7. GateAccounted
  <2>1. Idle.gated = FALSE
    BY IdleSound
  <2>2. {c \in Calls : calls[c].gated} = {}
    BY <1>1, <2>1
  <2>3. Cardinality({}) = 0 /\ Capacity \in Nat
    BY FS_EmptySet, ExaminationAssumption
  <2>4. Cardinality({c \in Calls : calls[c].gated}) = 0
    BY <2>2, <2>3
  <2>5. QED
    BY <1>1, <2>3, <2>4 DEF GateAccounted
<1>8. AttemptLimit
  <2> SUFFICES ASSUME NEW l \in Learners
               PROVE  /\ Cardinality(AttemptsOf(l)) <= MaxAttempts
                      /\ {attempts[i].number : i \in AttemptsOf(l)} = 1..Cardinality(AttemptsOf(l))
    BY DEF AttemptLimit
  <2>1. AttemptsOf(l) = {}
    BY <1>1 DEF AttemptsOf
  <2>2. Cardinality({}) = 0 /\ MaxAttempts \in Nat
    BY FS_EmptySet, ExaminationAssumption
  <2>3. Cardinality(AttemptsOf(l)) = 0
    BY <2>1, <2>2
  <2>4. QED
    BY <2>1, <2>2, <2>3
<1>9. QED
  BY <1>2, <1>3, <1>4, <1>5, <1>6, <1>7, <1>8 DEF Examined

LEMMA NextExamined == Examined /\ [Next]_vars => Examined'
<1> SUFFICES ASSUME Examined, [Next]_vars PROVE Examined'
  OBVIOUS
<1>1. CASE \E c \in Calls, l \in Learners : JoinCheck(c, l)
  BY <1>1, JoinKeeps
<1>2. CASE \E c \in Calls, surface \in Surfaces, s \in Sessions :
             StartRead(c, surface, s) \/ AnswerRead(c, surface, s)
  BY <1>2, ReadKeeps
<1>3. CASE \E c \in Calls : Advance(c)
  <2>1. PICK c \in Calls : Advance(c)
    BY <1>3
  <2>2. CASE CreateSession(c) \/ CreateAttempt(c) \/ StartWrite(c)
    BY <2>2, CreateSessionKeeps, CreateAttemptKeeps, StartKeeps
  <2>3. CASE TakeSlot(c) \/ Ask(c) \/ Refused(c)
    BY <2>3, WaitKeeps
  <2>4. CASE QueueTimeout(c) \/ NotActive(c) \/ ModelFails(c)
    BY <2>4, GiveUpKeeps
  <2>5. CASE \E analysis \in Analyses : Record(c, analysis)
    BY <2>5, RecordKeeps
  <2>6. QED
    BY <2>1, <2>2, <2>3, <2>4, <2>5 DEF Advance
<1>4. CASE UpdateAssignment \/ Tick \/ Restart
  BY <1>4, OutsideKeeps, RestartKeeps
<1>5. CASE UNCHANGED vars
  <2>1. UNCHANGED <<assignment, now, attempts, sessions, turns, calls, slots,
                    overtaken, miscounted>>
    BY <1>5 DEF vars
  <2>2. \A l : AttemptsOf(l)' = AttemptsOf(l)
    BY <2>1 DEF AttemptsOf
  <2>3. Typed' /\ RowsSound' /\ Unhelped' /\ SessionsAgree' /\ GateAccounted'
    BY <2>1 DEF Examined, Typed, RowsSound, Orderly, Unhelped, SessionsAgree, GateAccounted
  <2>4. AttemptLimit'
    BY <2>1, <2>2 DEF Examined, AttemptLimit
  <2>5. CallsSound'
    BY <2>1 DEF Examined, CallsSound, CallSound, Orderly
  <2>6. QED
    BY <2>3, <2>4, <2>5 DEF Examined
<1>6. QED
  BY <1>1, <1>2, <1>3, <1>4, <1>5 DEF Next

\* The inductive invariant, of every reachable state.
THEOREM ExaminationInvariant == Spec => []Examined
<1>1. Init => Examined
  BY InitExamined
<1>2. Examined /\ [Next]_vars => Examined'
  BY NextExamined
<1>3. QED
  BY <1>1, <1>2, PTL DEF Spec

-----------------------------------------------------------------------------
(* What the invariant says *)

LEMMA SlotsAndAttempts == Examined => ExaminationSound
<1> SUFFICES ASSUME Examined PROVE ExaminationSound
  OBVIOUS
<1>1. slots \in 0..Capacity
  <2> DEFINE Holders == {c \in Calls : calls[c].gated}
  <2>1. IsFiniteSet(Holders)
    BY ExaminationAssumption, FS_Subset
  <2> HIDE DEF Holders
  <2>2. Cardinality(Holders) \in Nat
    BY <2>1, FS_CardinalityType
  <2>3. slots + Cardinality(Holders) = Capacity
    BY DEF Examined, GateAccounted, Holders
  <2>4. slots \in Nat /\ Capacity \in Nat
    BY ExaminationAssumption DEF Examined, Typed
  <2>5. QED
    BY <2>2, <2>3, <2>4
<1>2. ASSUME NEW i \in DOMAIN attempts
      PROVE  attempts[i].learner \in Learners /\ attempts[i].session \in Sessions
  <2> DEFINE Attempt == [learner : Learners, session : Sessions, number : Nat]
  <2>1. attempts \in Seq(Attempt)
    BY DEF Examined, Typed
  <2> HIDE DEF Attempt
  <2>2. attempts[i] \in Attempt
    BY <2>1
  <2>3. QED
    BY <2>2 DEF Attempt
<1>3. ASSUME NEW s \in Sessions
      PROVE  /\ sessions[s] \in Row
             /\ turns[s] \in Seq([role : Roles, question : Questions, note : Notes])
  <2>1. sessions[s] \in Row /\ turns[s] \in Seq(TurnRow)
    BY DEF Examined, Typed
  <2>2. TurnRow \subseteq [role : Roles, question : Questions, note : Notes]
    BY DEF TurnRow
  <2> DEFINE Plain == [role : Roles, question : Questions, note : Notes]
  <2> HIDE DEF Plain
  <2>3. turns[s] \in Seq(Plain)
    <3>1. TurnRow \subseteq Plain
      BY <2>2 DEF Plain
    <3>2. Len(turns[s]) \in Nat /\ turns[s] \in [1..Len(turns[s]) -> TurnRow]
      BY <2>1
    <3>3. turns[s] \in [1..Len(turns[s]) -> Plain]
      BY <3>1, <3>2
    <3>4. QED
      BY <3>2, <3>3
  <2>4. QED
    BY <2>1, <2>3 DEF Plain
<1>4. ASSUME NEW c \in Calls
      PROVE  calls[c].pc \in
               {"idle", "joining", "joined", "starting", "queued", "asking", "model"}
  <2>1. calls[c] \in Call
    BY DEF Examined, Typed
  <2>2. QED
    BY <2>1 DEF Call
<1>5. TypeOK
  BY <1>1, <1>2, <1>3, <1>4 DEF TypeOK, Examined, Typed
<1>6. QED
  BY <1>5 DEF ExaminationSound, Examined

LEMMA PlanKept == Examined => InterviewWithinPlan
<1> SUFFICES ASSUME Examined, NEW s \in Sessions
             PROVE  /\ IsInjective(sessions[s].asked)
                    /\ Len(sessions[s].asked) <= Limit
                    /\ s \notin overtaken => \A q \in Questions :
                         Cardinality(Followed(turns[s], q)) <= Followups
  BY DEF InterviewWithinPlan, Followed
<1>1. QED
  BY DEF Examined, RowsSound, Orderly, SessionsAgree, Agreed

LEMMA TranscriptTold == Examined => TranscriptSound
<1> SUFFICES ASSUME Examined PROVE TranscriptSound
  OBVIOUS
<1>1. AssistanceHonest
  BY DEF Examined, Unhelped, SessionsAgree, Agreed, AssistanceHonest
<1>2. TranscriptAgrees
  <2> SUFFICES ASSUME NEW s \in Sessions \ overtaken
               PROVE  /\ sessions[s].graded = {turns[s][i].question : i \in Given(turns[s])}
                      /\ ToSet(sessions[s].asked) = {turns[s][i].question : i \in Put(turns[s])}
                      /\ sessions[s].status = "active" =>
                           /\ sessions[s].index = Last(sessions[s].asked)
                           /\ Last(turns[s]).question = sessions[s].index
    BY DEF TranscriptAgrees, Given, Put
  <2>1. Agreed(sessions[s], turns[s])
    BY DEF Examined, SessionsAgree
  <2>2. QED
    BY <2>1 DEF Agreed
<1>3. QED
  BY <1>1, <1>2 DEF TranscriptSound

\* A completed session changes only by a commit on a row that was loaded before.
LEMMA CompletedStays ==
  ASSUME Examined, [Next]_vars, NEW s \in Sessions, sessions[s].status = "completed",
         s \notin overtaken'
  PROVE  sessions'[s] = sessions[s] /\ turns'[s] = turns[s]
<1>1. CASE UNCHANGED <<sessions, turns>>
  BY <1>1
<1>2. ASSUME NEW c \in Calls, CreateSession(c)
      PROVE  sessions'[s] = sessions[s] /\ turns'[s] = turns[s]
  <2>1. PICK t \in Sessions :
          /\ \A other \in Sessions : (sessions[other].status = "none") <=> (other >= t)
          /\ sessions' = [sessions EXCEPT ![t] = NewSession]
    BY <1>2 DEF CreateSession
  <2>2. t >= t
    BY ExaminationAssumption DEF Sessions
  <2>3. s # t
    BY <2>1, <2>2
  <2>4. QED
    BY <1>2, <2>1, <2>3 DEF CreateSession, Examined, Typed
<1>3. ASSUME NEW c \in Calls, NEW new \in Row, NEW added \in Seq(TurnRow),
             Commit(c, new, added), calls[c].pc \in {"starting", "model"}
      PROVE  sessions'[s] = sessions[s] /\ turns'[s] = turns[s]
  <2>1. /\ calls[c].session \notin overtaken' =>
             calls[c].seen = sessions[calls[c].session]
        /\ \A t \in Sessions \ {calls[c].session} :
             sessions'[t] = sessions[t] /\ turns'[t] = turns[t]
    BY <1>3, Committed
  <2>2. calls[c].seen.status # "completed"
    BY <1>3 DEF Examined, CallsSound, CallSound
  <2>3. QED
    BY <2>1, <2>2
<1>4. ASSUME NEW c \in Calls, StartWrite(c)
      PROVE  sessions'[s] = sessions[s] /\ turns'[s] = turns[s]
  <2>1. PICK first \in (IF assignment.strategy = "adaptive" THEN Questions ELSE {1}) :
          Commit(c, [calls[c].seen EXCEPT !.status = "active", !.index = first, !.tries = 0,
                                          !.asked = <<first>>],
                 <<Turn("assistant", first, "ASK_NEW")>>)
    BY <1>4 DEF StartWrite
  <2>2. calls[c].pc = "starting" /\ first \in Questions /\ calls[c].seen \in Row
    BY <1>4, PlanFacts DEF StartWrite, Examined, Typed, Call
  <2> DEFINE one == <<first>>
             turn == Turn("assistant", first, "ASK_NEW")
  <2>3. one \in Seq(Questions)
    BY <2>2
  <2>4. turn \in TurnRow
    BY <2>2 DEF Turn, TurnRow, Roles, Notes
  <2>5. Commit(c, [calls[c].seen EXCEPT !.status = "active", !.index = first, !.tries = 0,
                                        !.asked = one], <<turn>>)
    BY <2>1
  <2> HIDE DEF one, turn
  <2>6. [calls[c].seen EXCEPT !.status = "active", !.index = first, !.tries = 0,
                              !.asked = one] \in Row
    BY <2>2, <2>3 DEF Row
  <2>7. <<turn>> \in Seq(TurnRow)
    BY <2>4
  <2>8. QED
    BY <1>3, <2>2, <2>5, <2>6, <2>7
<1>5. ASSUME NEW c \in Calls, NEW analysis \in Analyses, Record(c, analysis)
      PROVE  sessions'[s] = sessions[s] /\ turns'[s] = turns[s]
  <2> DEFINE seen == calls[c].seen
             a == Turn("user", seen.index, Assistance(calls[c].session, calls[c].read, seen.tries))
  <2>1. PICK new \in Row, b \in TurnRow : Commit(c, new, <<a, b>>)
    BY <1>5, RecordCommits
  <2>2. calls[c].pc = "model" /\ calls[c] \in Call /\ CallSound(calls[c])
    BY <1>5 DEF Record, Examined, Typed, CallsSound
  <2>3. /\ seen.index \in Questions /\ seen.tries \in Nat /\ calls[c].read \in Nat
        /\ calls[c].session \in Sessions /\ calls[c].read <= Len(turns[calls[c].session])
    BY <2>2 DEF CallSound, Call, Row
  <2>4. Assistance(calls[c].session, calls[c].read, seen.tries) \in {"direct", "followup", "hint"}
    BY <2>3, AssistanceFacts DEF Examined, Typed
  <2>5. a \in TurnRow
    BY <2>3, <2>4 DEF Turn, TurnRow, Roles, Notes
  <2> HIDE DEF a
  <2>6. <<a, b>> \in Seq(TurnRow)
    BY <2>5
  <2>7. QED
    BY <1>3, <2>1, <2>2, <2>6
<1>6. QED
  <2>1. \/ UNCHANGED <<sessions, turns>>
        \/ \E c \in Calls : \/ CreateSession(c) \/ StartWrite(c)
                            \/ \E analysis \in Analyses : Record(c, analysis)
    BY DEF Next, Advance, vars, JoinCheck, StartRead, AnswerRead, CreateAttempt, TakeSlot,
           QueueTimeout, Ask, NotActive, Refused, ModelFails, UpdateAssignment, Tick, Restart
  <2>2. QED
    BY <1>1, <1>2, <1>4, <1>5, <2>1

-----------------------------------------------------------------------------

\* Every slot of the gate is free or held by one request, and no learner with a
\* key gets an attempt too many or one out of order (rate_limit.py:65-89,
\* main.py:2988-3068 and 3159-3190), for every set of requests and learners.
THEOREM SlotsAndAttemptsCounted == Spec => []ExaminationSound
BY ExaminationInvariant, SlotsAndAttempts, PTL

\* No question is asked twice, never more than the limit, and none is followed
\* up too often (agents/orchestrator.py:243-289, agents/policy.py:12-60),
\* whatever requests overtake each other.
THEOREM PlanOfEveryInterview == Spec => []InterviewWithinPlan
BY ExaminationInvariant, PlanKept, PTL

\* No exam helps its learner, and a transcript and its grades tell what happened
\* (agents/orchestrator.py:190-289 and 476-485), until a request commits on a
\* row that had changed.
THEOREM TranscriptsTold == Spec => []TranscriptSound
BY ExaminationInvariant, TranscriptTold, PTL

\* A completed session takes no more turns and is never reopened, but by a
\* request that loaded it before (agents/orchestrator.py:164-166).
THEOREM CompletedForGood == Spec => CompletedIsFinal
<1>1. Examined /\ [Next]_vars =>
        [\A s \in Sessions :
            sessions[s].status = "completed" /\ s \notin overtaken' =>
                sessions'[s] = sessions[s] /\ turns'[s] = turns[s]]_vars
  BY CompletedStays
<1>2. QED
  BY <1>1, ExaminationInvariant, PTL DEF Spec, CompletedIsFinal

----------------------------------------------------------------------------
(* The learner's page: the inductive invariant *)

Stati == {"not_started", "in_progress", "submitted"}
Paper == [status : Stati, answers : Seq(Written)]
PageState == [screen : {"code", "chat", "report"}, details : BOOLEAN, begins : BOOLEAN, held : Nat,
              box : 0..Len(Text), log : Seq(Written), told : Nat]
Replying == [is : {"none", "ok", "failed", "conflict"}, status : Stati \cup {"none"},
             answers : Seq(Written), paper : Nat]
Points == {"idle", "viewing", "creating", "starting", "resuming", "restarting",
           "answering", "reconciling", "reporting"}
Flow == [at : Points, paper : Nat, answer : 0..Len(Text), conflict : BOOLEAN, reply : Replying]

PageTyped ==
    /\ papers \in Seq(Paper) /\ page \in PageState /\ saved \in Nat /\ storing \in BOOLEAN
    /\ flows \in [Handlers -> Flow] /\ IsFiniteSet(strays) /\ \A s \in strays : s.flow \in Flow
    /\ written \in 0..Len(Text) /\ cleared \subseteq Written /\ unsure \in [Written -> 0..Needed]
    /\ excuses \in 0..MaxPapers /\ overlaps \in BOOLEAN

\* The attempts, and who knows of them.
Known(a) == a = None \/ a \in Papers
PapersKept ==
    /\ Len(papers) <= MaxPapers
    /\ \A a \in Papers :
         /\ Len(papers[a].answers) <= Needed
         /\ papers[a].status = "not_started" => papers[a].answers = <<>>
         /\ papers[a].status = "in_progress" => Len(papers[a].answers) < Needed
         /\ \A i \in DOMAIN papers[a].answers : papers[a].answers[i] <= written
    /\ Known(page.held) /\ Known(saved) /\ Known(page.told)
    /\ \A h \in Handlers : Known(flows[h].paper)
    /\ \A s \in strays : Known(s.flow.paper)

Has(answers, n) == \E i \in DOMAIN answers : answers[i] = n
Taken(n) == \E a \in Papers : Has(papers[a].answers, n)

\* What a reply tells is still so, as attempts only proceed.
Tells(h) ==
    LET flow == flows[h] IN
    /\ flow.reply.is = "none" => flow.reply = NoReply
    /\ flow.reply.is = "ok" /\ flow.at = "creating" => flow.reply.paper \in Papers
    /\ flow.reply.is = "ok" /\ flow.at \notin {"idle", "viewing", "creating"} =>
         /\ flow.paper \in Papers
         /\ \A n \in Written : Has(flow.reply.answers, n) => Taken(n)
         /\ flow.reply.status = "submitted" => papers[flow.paper].status = "submitted"
         /\ flow.reply.status # "not_started" => papers[flow.paper].status # "not_started"
         /\ flow.at \in {"starting", "restarting"} => flow.reply.status # "not_started"
         /\ flow.at = "answering" => \A n \in Written : flow.answer = n => Taken(n)
RepliesTell == \A h \in Handlers : Tells(h)

\* An attempt that was created and is not taken up is nobody's.
Offers(h, a) ==
    flows[h].at = "creating" /\ flows[h].reply.is = "ok" /\ flows[h].reply.paper = a
Untouched(a) ==
    /\ papers[a].answers = <<>> /\ page.held # a /\ saved # a
    /\ \A h \in Handlers : flows[h].paper # a
    /\ \A s \in strays : s.flow.paper # a
Unclaimed ==
    \A h \in Handlers, a \in Papers : Offers(h, a) =>
        Untouched(a) /\ \A g \in Handlers : Offers(g, a) => g = h

\* Attempts and requests that may still create one; and whether the learner can
\* begin another without anything being to blame.
Creates == {h \in Handlers : flows[h].at = "creating" /\ flows[h].reply.is = "none"}
Pending == {s \in strays : s.flow.at = "creating"}
Attempts == Len(papers) + Cardinality(Creates) + Cardinality(Pending)
Open ==
    \/ page.screen = "code" /\ page.begins
    \/ page.screen = "code" /\ Beginning = {} /\ saved = None
    \/ storing /\ saved = None /\ \A h \in Handlers : flows[h].at # "creating"
Owed == excuses = MaxPapers \/ Attempts + (IF Open THEN 1 ELSE 0) <= 1 + excuses
Shut ==
    page.screen = "code" /\ Beginning = {} /\ ~page.begins /\ saved # None =>
        \A h \in Handlers : flows[h].at # "viewing"

\* The page holds what it stored, once it looked it up.
HeldAsSaved ==
    /\ ~storing => saved = None /\ Resuming = {}
    /\ storing => page.held = saved \/ (page = NewPage /\ \A h \in Handlers : flows[h].at = "idle")

\* One answer is written and submitted at a time.
Boxed ==
    /\ page.screen = "code" => page.box = None /\ Submitters = {}
    /\ page.box # None => page.box = written
    /\ \A g \in Submitters : page.box # None /\ flows[g].answer = page.box /\ Submitters = {g}
    /\ \A s \in strays : s.flow.at = "answering" => s.flow.answer \in 1..written

\* An answer that was counted and nothing excuses a second time.
Over(a, n) == Times(a, n) > unsure[n]
Closes(answers, n) == answers # <<>> /\ answers[Len(answers)] = n

\* While it is submitted, the page will find it as the last one.
Submitted(h) ==
    \A a \in Papers, n \in Written : flows[h].answer = n /\ Over(a, n) =>
        /\ page.held = a => flows[h].paper = a
        /\ flows[h].paper = a =>
             /\ flows[h].at = "answering" => flows[h].reply.is # "none"
             /\ flows[h].at = "answering" \/ flows[h].reply.is = "none" =>
                  Closes(papers[a].answers, n)
             /\ flows[h].at = "reconciling" /\ flows[h].reply.is = "ok" =>
                  Included(flows[h].reply.answers, n)

\* Afterwards the box is empty, or the answer may be submitted again; when the
\* page was opened anew, it shows the answer.
Shown(a, n) ==
    /\ \A h \in Resuming : /\ flows[h].paper = a
                           /\ flows[h].reply.is = "ok" => Has(flows[h].reply.answers, n)
    /\ \A h \in Handlers : flows[h].at # "starting"
    /\ page.screen = "chat" => Has(page.log, n)
Shows ==
    \A a \in Papers, n \in Written : page.held = a /\ Over(a, n) =>
        /\ Submitters = {} => page.box # n
        /\ page.box = None /\ written = n /\ n \notin cleared => Shown(a, n)

Counting == CountedOnce /\ (\A h \in Submitters : Submitted(h)) /\ Shows
ClearedTaken == \A n \in cleared : Repeats(n) \/ Taken(n)

\* Unless a lookup and a beginning overlapped, all handlers are at one attempt.
IsAt(a, status) == a # None => papers[a].status \in status
Together ==
    /\ \A h \in Handlers : flows[h].at \in {"resuming", "restarting", "answering", "reconciling"} =>
         page.held \in {None, flows[h].paper}
    /\ \A h \in Beginning :
         /\ page.screen = "code" /\ ~page.begins /\ Beginning = {h}
         /\ flows[h].at = "starting" => page.held = flows[h].paper
    /\ \A h \in Handlers :
         /\ flows[h].at = "answering" => IsAt(flows[h].paper, {"in_progress", "submitted"})
         /\ flows[h].at = "answering" /\ flows[h].reply.is = "conflict" =>
              IsAt(flows[h].paper, {"submitted"})
         /\ flows[h].at = "reconciling" /\ flows[h].conflict => IsAt(flows[h].paper, {"submitted"})
         /\ flows[h].at = "reporting" => IsAt(flows[h].paper, {"submitted"})
    /\ page.screen # "code" => IsAt(page.held, {"in_progress", "submitted"})
    /\ page.screen = "report" => IsAt(page.held, {"submitted"})
    /\ IsAt(page.told, {"submitted"})

PageInvariant ==
    /\ PageTyped /\ PapersKept /\ RepliesTell /\ Unclaimed /\ Owed /\ Shut /\ HeldAsSaved /\ Boxed
    /\ Counting /\ ClearedTaken /\ (~overlaps => Together)

\* The smaller of two numbers, which the page's counters are capped with.
LEMMA LeastOfTwo ==
    ASSUME NEW a \in Nat, NEW b \in Nat
    PROVE  Min({a, b}) = IF a <= b THEN a ELSE b
<1>1. \A x \in {a, b} : (\A y \in {a, b} : x <= y) <=> x = (IF a <= b THEN a ELSE b)
  OBVIOUS
<1>2. Min({a, b}) = CHOOSE x \in {a, b} : \A y \in {a, b} : x <= y
  BY DEF Min
<1>3. QED
  BY <1>1, <1>2

LEMMA ExcuseCounts ==
    ASSUME ClientAssumption, PageTyped, NEW n \in {0, 1}, Excuse(n)
    PROVE  /\ excuses' \in 0..MaxPapers /\ excuses' >= excuses
           /\ excuses' = MaxPapers \/ excuses' = excuses + n
BY LeastOfTwo, excuses + n \in Nat, MaxPapers \in Nat
   DEF ClientAssumption, PageTyped, Excuse

LEMMA DoubtCounts ==
    ASSUME ClientAssumption, PageTyped, NEW answers, Doubt(answers)
    PROVE  /\ unsure' \in [Written -> 0..Needed]
           /\ \A n \in Written : n \notin answers => unsure'[n] = unsure[n]
           /\ \A n \in answers \cap Written : unsure'[n] = Needed \/ unsure'[n] = unsure[n] + 1
<1>1. /\ Needed \in Nat /\ unsure \in [Written -> 0..Needed]
      /\ unsure' = [n \in Written |->
             IF n \in answers THEN Min({unsure[n] + 1, Needed}) ELSE unsure[n]]
  BY DEF ClientAssumption, PageTyped, Doubt
<1>2. \A n \in Written : /\ unsure[n] + 1 \in Nat
                         /\ Min({unsure[n] + 1, Needed}) =
                              IF unsure[n] + 1 <= Needed THEN unsure[n] + 1 ELSE Needed
  BY <1>1, LeastOfTwo
<1>3. \A n \in Written : unsure[n] \in 0..Needed
  BY <1>1
<1>4. QED
  BY <1>1, <1>2, <1>3

\* The request a handler sends next, and what becomes of the handlers.
Asked(flow, at, holder) ==
    [flow EXCEPT !.at = at, !.paper = holder.held, !.answer = holder.box, !.reply = NoReply]

LEMMA EmptyReply == NoReply \in Replying /\ NoReply.is = "none" /\ Resting \in Flow
<1>1. <<>> \in Seq(Written)
  OBVIOUS
<1>2. NoReply \in Replying /\ NoReply.is = "none"
  BY <1>1 DEF NoReply, Replying, None
<1>3. 0 \in 0..Len(Text)
  OBVIOUS
<1>4. QED
  BY <1>2, <1>3 DEF Resting, Flow, Points, None

LEMMA FailureReply ==
    ASSUME NEW is \in {"failed", "conflict"}
    PROVE  /\ Failure(is) \in Replying /\ Failure(is).is = is /\ Failure(is) # NoReply
           /\ Failure(is).status = "none"
<1>1. <<>> \in Seq(Written)
  OBVIOUS
<1>2. QED
  BY <1>1 DEF NoReply, Failure, Replying, None, Stati

LEMMA AskedShape ==
    ASSUME NEW flow \in Flow, NEW at \in Points, NEW holder \in PageState
    PROVE  /\ Asked(flow, at, holder) \in Flow
           /\ Asked(flow, at, holder).at = at
           /\ Asked(flow, at, holder).paper = holder.held
           /\ Asked(flow, at, holder).answer = holder.box
           /\ Asked(flow, at, holder).conflict = flow.conflict
           /\ Asked(flow, at, holder).reply = NoReply
<1>1. holder.held \in Nat /\ holder.box \in 0..Len(Text)
  BY DEF PageState
<1>2. QED
  BY <1>1, EmptyReply DEF Flow, Asked

Turns(h, flow) ==
    /\ flows' \in [Handlers -> Flow] /\ flows'[h] = flow
    /\ \A g \in Handlers : g # h => flows'[g] = flows[g]

LEMMA TurnedFlows ==
    ASSUME PageTyped, NEW h \in Handlers, NEW flow \in Flow,
           flows' = [flows EXCEPT ![h] = flow]
    PROVE  Turns(h, flow)
BY DEF PageTyped, Turns

LEMMA AsksTurns ==
    ASSUME PageTyped, NEW h \in Handlers, NEW at \in Points, NEW holder \in PageState,
           Asks(h, at, holder)
    PROVE  /\ Turns(h, flows'[h]) /\ flows'[h].at = at /\ flows'[h].paper = holder.held
           /\ flows'[h].answer = holder.box /\ flows'[h].conflict = flows[h].conflict
           /\ flows'[h].reply = NoReply /\ flows'[h].reply.is = "none"
<1>1. flows[h] \in Flow
  BY DEF PageTyped
<1>2. flows' = [flows EXCEPT ![h] = Asked(flows[h], at, holder)]
  BY DEF Asks, Asked
<1>3. Turns(h, Asked(flows[h], at, holder))
  BY <1>1, <1>2, AskedShape, TurnedFlows
<1>4. flows'[h] = Asked(flows[h], at, holder)
  BY <1>3 DEF Turns
<1>5. QED
  BY <1>1, <1>3, <1>4, AskedShape, EmptyReply

LEMMA EndsTurns ==
    ASSUME PageTyped, NEW h \in Handlers, Ends(h)
    PROVE  /\ Turns(h, flows'[h]) /\ flows'[h].at = "idle" /\ flows'[h].paper = None
           /\ flows'[h].answer = None /\ flows'[h].conflict = FALSE
           /\ flows'[h].reply = NoReply /\ flows'[h].reply.is = "none"
<1>1. Turns(h, Resting)
  BY EmptyReply, TurnedFlows DEF Ends
<1>2. flows'[h] = Resting
  BY <1>1 DEF Turns
<1>3. QED
  BY <1>1, <1>2, EmptyReply DEF Resting

\* What a served request does to the attempts: one is added, one is started or
\* one takes an answer, as each was asked for; and what it replies.
Adds(flow) ==
    /\ flow.at = "creating" /\ Len(papers') = Len(papers) + 1
    /\ papers'[Len(papers) + 1] = [status |-> "not_started", answers |-> <<>>]
Starts(flow, a) ==
    /\ flow.at \in {"starting", "restarting"} /\ a = flow.paper
    /\ papers[a].status = "not_started"
    /\ papers'[a].status = "in_progress" /\ papers'[a].answers = papers[a].answers
Counts(flow, a) ==
    /\ flow.at = "answering" /\ a = flow.paper /\ papers[a].status = "in_progress"
    /\ papers'[a].answers = Append(papers[a].answers, flow.answer)
    /\ papers'[a].status =
         IF Len(papers[a].answers) + 1 >= Needed THEN "submitted" ELSE "in_progress"
Grows(flow) ==
    /\ papers' \in Seq(Paper)
    /\ Adds(flow) \/ (flow.at # "creating" /\ Len(papers') = Len(papers))
    /\ \A a \in Papers : papers'[a] = papers[a] \/ Starts(flow, a) \/ Counts(flow, a)
Replies(flow, reply) ==
    /\ reply \in Replying /\ reply # NoReply /\ reply.is # "none"
    /\ reply.is = "ok" /\ flow.at = "creating" => reply.paper = Len(papers) + 1
    /\ reply.is = "ok" /\ flow.at \notin {"viewing", "creating"} =>
         /\ flow.paper \in Papers
         /\ reply.answers = papers'[flow.paper].answers
         /\ reply.status = papers'[flow.paper].status
         /\ flow.at \in {"starting", "restarting"} => Starts(flow, flow.paper)
         /\ flow.at = "answering" => Counts(flow, flow.paper)
    /\ reply.is = "conflict" =>
         /\ flow.at \in {"starting", "restarting", "answering"} /\ flow.paper \in Papers
         /\ papers' = papers
         /\ flow.at = "answering" => papers[flow.paper].status # "in_progress"

LEMMA PaperFields ==
    ASSUME PageTyped, NEW a \in Papers
    PROVE  /\ papers[a] \in Paper /\ papers[a].status \in Stati
           /\ papers[a].answers \in Seq(Written)
<1>1. papers[a] \in Paper
  BY DEF PageTyped, Papers
<1>2. QED
  BY <1>1 DEF Paper

LEMMA ReplacedPaper ==
    ASSUME PageTyped, NEW a \in Papers, NEW paper \in Paper,
           papers' = [papers EXCEPT ![a] = paper]
    PROVE  /\ papers' \in Seq(Paper) /\ Len(papers') = Len(papers)
           /\ papers'[a] = paper /\ \A b \in Papers : b # a => papers'[b] = papers[b]
<1>1. papers \in Seq(Paper) /\ a \in 1..Len(papers)
  BY DEF PageTyped, Papers
<1>2. QED
  BY <1>1 DEF Papers

LEMMA ServedUnchanged ==
    ASSUME PageTyped, NEW flow \in Flow, Known(flow.paper),
           papers' = Served(flow).papers,
           \/ flow.at = "viewing"
           \/ flow.at \notin {"viewing", "creating"} /\ flow.paper = None
           \/ flow.at \in {"starting", "restarting"} /\ flow.paper # None
              /\ papers[flow.paper].status # "not_started"
           \/ flow.at = "answering" /\ flow.paper # None
              /\ papers[flow.paper].status # "in_progress"
           \/ flow.at \notin {"viewing", "creating", "starting", "restarting", "answering"}
              /\ flow.paper # None
    PROVE  papers' = papers /\ Grows(flow) /\ Replies(flow, Served(flow).reply)
<1>1. flow.paper # None => flow.paper \in Papers
  BY DEF Known
<1>2. papers \in Seq(Paper)
  BY DEF PageTyped
<1>3. CASE flow.at = "viewing"
  <2>1. Served(flow) = [papers |-> papers, reply |-> [NoReply EXCEPT !.is = "ok"]]
    BY <1>3 DEF Served
  <2>2. [NoReply EXCEPT !.is = "ok"] \in Replying /\ [NoReply EXCEPT !.is = "ok"].is = "ok"
    BY EmptyReply DEF Replying
  <2> DEFINE reply == [NoReply EXCEPT !.is = "ok"]
  <2>3. papers' = papers /\ Served(flow).reply = reply /\ reply \in Replying /\ reply.is = "ok"
    BY <2>1, <2>2
  <2> HIDE DEF reply
  <2>4. Grows(flow)
    BY <1>2, <1>3, <2>3 DEF Grows
  <2>5. QED
    BY <1>3, <2>3, <2>4, EmptyReply DEF Replies
<1>4. CASE flow.at \notin {"viewing", "creating"} /\ flow.paper = None
  <2>1. Served(flow) = [papers |-> papers, reply |-> Failure("failed")]
    BY <1>4 DEF Served
  <2>2. QED
    BY <1>2, <1>4, <2>1, FailureReply DEF Grows, Replies
<1>5. CASE flow.at \in {"starting", "restarting"} /\ flow.paper # None
           /\ papers[flow.paper].status # "not_started"
  <2>1. Served(flow) = [papers |-> papers, reply |-> Failure("conflict")]
    BY <1>5 DEF Served
  <2>2. QED
    BY <1>1, <1>2, <1>5, <2>1, FailureReply DEF Grows, Replies
<1>6. CASE flow.at = "answering" /\ flow.paper # None
           /\ papers[flow.paper].status # "in_progress"
  <2>1. Served(flow) = [papers |-> papers, reply |-> Failure("conflict")]
    BY <1>6 DEF Served
  <2>2. QED
    BY <1>1, <1>2, <1>6, <2>1, FailureReply DEF Grows, Replies
<1>7. CASE flow.at \notin {"viewing", "creating", "starting", "restarting", "answering"}
           /\ flow.paper # None
  <2>1. Served(flow) = [papers |-> papers, reply |-> Seen(flow.paper)]
    BY <1>7 DEF Served
  <2>2. flow.paper \in Nat
    BY DEF Flow
  <2>3. /\ Seen(flow.paper) \in Replying /\ Seen(flow.paper).is = "ok"
        /\ Seen(flow.paper).answers = papers[flow.paper].answers
        /\ Seen(flow.paper).status = papers[flow.paper].status
    BY <1>1, <1>7, <2>2, PaperFields DEF Seen, Replying
  <2>4. QED
    BY <1>1, <1>2, <1>7, <2>1, <2>3, EmptyReply DEF Grows, Replies
<1>8. QED
  BY <1>3, <1>4, <1>5, <1>6, <1>7

LEMMA ServedCreating ==
    ASSUME PageTyped, NEW flow \in Flow, flow.at = "creating",
           papers' = Served(flow).papers
    PROVE  Grows(flow) /\ Replies(flow, Served(flow).reply) /\ Adds(flow)
<1> DEFINE new == [status |-> "not_started", answers |-> <<>>]
           reply == [is |-> "ok", status |-> "not_started", answers |-> <<>>,
                     paper |-> Len(papers) + 1]
<1>1. Served(flow) = [papers |-> Append(papers, new), reply |-> reply]
  BY DEF Served
<1>2. papers \in Seq(Paper) /\ Len(papers) \in Nat
  BY DEF PageTyped
<1>3. <<>> \in Seq(Written)
  OBVIOUS
<1>4. new \in Paper
  BY <1>3 DEF Paper, Stati
<1>5. reply \in Replying /\ reply # NoReply
  BY <1>2, <1>3, EmptyReply DEF Replying, Stati
<1>6. reply.is = "ok" /\ reply.paper = Len(papers) + 1
  OBVIOUS
<1>7. papers' = Append(papers, new) /\ Served(flow).reply = reply
  BY <1>1
<1> HIDE DEF new
<1>8. /\ papers' \in Seq(Paper) /\ Len(papers') = Len(papers) + 1
      /\ papers'[Len(papers) + 1] = new
      /\ \A a \in Papers : papers'[a] = papers[a]
  BY <1>2, <1>4, <1>7 DEF Papers
<1> HIDE DEF reply
<1>9. Replies(flow, reply)
  BY <1>5, <1>6 DEF Replies
<1>10. QED
  BY <1>7, <1>8, <1>9 DEF Grows, Adds, new

LEMMA ServedReplaces ==
    ASSUME PageTyped, NEW flow \in Flow, flow.paper \in Papers,
           papers' = Served(flow).papers, NEW paper \in Paper,
           Served(flow) = [papers |-> [papers EXCEPT ![flow.paper] = paper],
                           reply |-> [is |-> "ok", status |-> paper.status,
                                      answers |-> paper.answers, paper |-> flow.paper]],
           \/ /\ flow.at \in {"starting", "restarting"}
              /\ papers[flow.paper].status = "not_started"
              /\ paper.status = "in_progress" /\ paper.answers = papers[flow.paper].answers
           \/ /\ flow.at = "answering" /\ papers[flow.paper].status = "in_progress"
              /\ paper.answers = Append(papers[flow.paper].answers, flow.answer)
              /\ paper.status = IF Len(papers[flow.paper].answers) + 1 >= Needed
                                THEN "submitted" ELSE "in_progress"
    PROVE  Grows(flow) /\ Replies(flow, Served(flow).reply)
<1>1. /\ papers' \in Seq(Paper) /\ Len(papers') = Len(papers) /\ papers'[flow.paper] = paper
      /\ \A b \in Papers : b # flow.paper => papers'[b] = papers[b]
  <2>1. papers' = [papers EXCEPT ![flow.paper] = paper]
    OBVIOUS
  <2>2. QED
    BY <2>1, ReplacedPaper
<1>2. Starts(flow, flow.paper) \/ Counts(flow, flow.paper)
  BY <1>1 DEF Starts, Counts
<1>3. Grows(flow)
  BY <1>1, <1>2 DEF Grows
<1> DEFINE reply == [is |-> "ok", status |-> paper.status, answers |-> paper.answers,
                     paper |-> flow.paper]
<1>4. paper.status \in Stati /\ paper.answers \in Seq(Written) /\ flow.paper \in Nat
  BY DEF Paper, Flow
<1>5. reply \in Replying /\ reply # NoReply
  BY <1>4, EmptyReply DEF Replying
<1>6. /\ reply.is = "ok" /\ reply.status = paper.status /\ reply.answers = paper.answers
      /\ Served(flow).reply = reply
  OBVIOUS
<1> HIDE DEF reply
<1>7. Replies(flow, reply)
  BY <1>1, <1>2, <1>5, <1>6 DEF Replies, Starts, Counts
<1>8. QED
  BY <1>3, <1>6, <1>7

LEMMA ServedGrows ==
    ASSUME ClientAssumption, PageTyped, NEW flow \in Flow, Known(flow.paper),
           flow.at = "answering" => flow.answer \in Written,
           papers' = Served(flow).papers
    PROVE  Grows(flow) /\ Replies(flow, Served(flow).reply)
<1>1. flow.paper # None => flow.paper \in Papers
  BY DEF Known
<1>2. CASE /\ flow.at \in {"starting", "restarting"} /\ flow.paper # None
           /\ papers[flow.paper].status = "not_started"
  <2> DEFINE paper == [papers[flow.paper] EXCEPT !.status = "in_progress"]
  <2>1. papers[flow.paper] \in Paper
    BY <1>1, <1>2, PaperFields
  <2>2. /\ paper \in Paper /\ paper.status = "in_progress"
        /\ paper.answers = papers[flow.paper].answers
    BY <2>1 DEF Paper, Stati
  <2>3. Served(flow) = [papers |-> [papers EXCEPT ![flow.paper] = paper],
                        reply |-> [is |-> "ok", status |-> paper.status,
                                   answers |-> paper.answers, paper |-> flow.paper]]
    BY <1>2 DEF Served
  <2> HIDE DEF paper
  <2>4. QED
    BY <1>1, <1>2, <2>2, <2>3, ServedReplaces
<1>3. CASE /\ flow.at = "answering" /\ flow.paper # None
           /\ papers[flow.paper].status = "in_progress"
  <2> DEFINE paper == Answered(papers[flow.paper], flow.answer)
  <2>1. papers[flow.paper].answers \in Seq(Written)
    BY <1>1, <1>3, PaperFields
  <2>2. Append(papers[flow.paper].answers, flow.answer) \in Seq(Written)
    BY <1>3, <2>1
  <2>3. Len(Append(papers[flow.paper].answers, flow.answer)) = Len(papers[flow.paper].answers) + 1
    BY <2>1
  <2>4. /\ paper \in Paper
        /\ paper.answers = Append(papers[flow.paper].answers, flow.answer)
        /\ paper.status = IF Len(papers[flow.paper].answers) + 1 >= Needed
                          THEN "submitted" ELSE "in_progress"
    BY <2>2, <2>3 DEF Answered, Paper, Stati
  <2>5. Served(flow) = [papers |-> [papers EXCEPT ![flow.paper] = paper],
                        reply |-> [is |-> "ok", status |-> paper.status,
                                   answers |-> paper.answers, paper |-> flow.paper]]
    BY <1>3 DEF Served
  <2> HIDE DEF paper
  <2>6. QED
    BY <1>1, <1>3, <2>4, <2>5, ServedReplaces
<1>4. CASE flow.at = "creating"
  BY <1>4, ServedCreating
<1>5. QED
  BY <1>2, <1>3, <1>4, ServedUnchanged

\* What is so of every handler that goes on without the server: it hands over
\* only attempts it knows of, and waits for a reply or rests.
Handed(h) ==
    {None, page.held, saved, flows[h].paper} \cup
    {a \in Papers : flows[h].at = "creating" /\ flows[h].reply.is = "ok" /\ flows[h].reply.paper = a}
Proceeds(h) ==
    /\ papers' = papers /\ strays' = strays /\ storing' = storing
    /\ Turns(h, flows'[h]) /\ flows'[h].reply = NoReply /\ flows'[h].reply.is = "none"
    /\ page'.held \in Handed(h) /\ saved' \in Handed(h) /\ flows'[h].paper \in Handed(h)
    /\ page'.told \in {page.told, flows[h].paper}

LEMMA FlowFields ==
    ASSUME PageTyped, NEW h \in Handlers
    PROVE  /\ flows[h] \in Flow /\ flows[h].at \in Points /\ flows[h].paper \in Nat
           /\ flows[h].answer \in 0..Len(Text) /\ flows[h].conflict \in BOOLEAN
           /\ flows[h].reply \in Replying
           /\ flows[h].reply.is \in {"none", "ok", "failed", "conflict"}
           /\ flows[h].reply.status \in Stati \cup {"none"}
           /\ flows[h].reply.answers \in Seq(Written) /\ flows[h].reply.paper \in Nat
<1>1. flows[h] \in Flow
  BY DEF PageTyped
<1>2. flows[h].reply \in Replying
  BY <1>1 DEF Flow
<1>3. QED
  BY <1>1, <1>2 DEF Flow, Replying

LEMMA PageFields ==
    ASSUME PageTyped
    PROVE  /\ page.screen \in {"code", "chat", "report"} /\ page.details \in BOOLEAN
           /\ page.begins \in BOOLEAN /\ page.held \in Nat /\ page.box \in 0..Len(Text)
           /\ page.log \in Seq(Written) /\ page.told \in Nat
BY DEF PageTyped, PageState

LEMMA HandedKnown ==
    ASSUME PapersKept, NEW h \in Handlers, NEW a \in Handed(h)
    PROVE  a = None \/ a \in Papers
BY DEF Handed, PapersKept, Known

LEMMA ProceedsKnown ==
    ASSUME PageTyped, PapersKept, NEW h \in Handlers, Proceeds(h), written' = written
    PROVE  PapersKept'
<1>1. /\ Known(page'.held) /\ Known(saved') /\ Known(page'.told) /\ Known(flows'[h].paper)
  BY HandedKnown DEF Proceeds, PapersKept, Known
<1>2. \A g \in Handlers : flows'[g].paper = None \/ flows'[g].paper \in Papers
  BY <1>1 DEF Proceeds, Turns, PapersKept, Known
<1>3. papers' = papers /\ strays' = strays
  BY DEF Proceeds
<1>4. QED
  BY <1>1, <1>2, <1>3 DEF PapersKept, Known, Papers

LEMMA ProceedsTells ==
    ASSUME PageTyped, RepliesTell, NEW h \in Handlers, Proceeds(h)
    PROVE  RepliesTell'
<1>1. papers' = papers /\ Turns(h, flows'[h]) /\ flows'[h].reply = NoReply /\ flows'[h].reply.is = "none"
  BY DEF Proceeds
<1>2. ASSUME NEW g \in Handlers
      PROVE  Tells(g)'
  <2>1. CASE g = h
    BY <1>1, <2>1 DEF Tells
  <2>2. CASE g # h
    <3>1. flows'[g] = flows[g]
      BY <1>1, <2>2 DEF Turns
    <3>2. Tells(g)
      BY DEF RepliesTell
    <3>3. QED
      BY <1>1, <3>1, <3>2 DEF Tells, Taken, Papers
  <2>3. QED
    BY <2>1, <2>2
<1>3. QED
  BY <1>2 DEF RepliesTell

LEMMA ProceedsUnclaimed ==
    ASSUME PageTyped, PapersKept, RepliesTell, Unclaimed, NEW h \in Handlers, Proceeds(h)
    PROVE  Unclaimed'
<1>1. /\ papers' = papers /\ strays' = strays /\ Turns(h, flows'[h]) /\ flows'[h].reply.is = "none"
      /\ page'.held \in Handed(h) /\ saved' \in Handed(h) /\ flows'[h].paper \in Handed(h)
  BY DEF Proceeds
<1>2. SUFFICES ASSUME NEW g \in Handlers, NEW a \in Papers, Offers(g, a)'
               PROVE  Untouched(a)' /\ \A k \in Handlers : Offers(k, a)' => k = g
  BY <1>1 DEF Unclaimed, Papers
<1>3. g # h
  BY <1>1, <1>2 DEF Offers
<1>4. \A k \in Handlers : Offers(k, a)' => k # h /\ Offers(k, a)
  BY <1>1 DEF Offers, Turns
<1>5. Offers(g, a) /\ Untouched(a) /\ \A k \in Handlers : Offers(k, a) => k = g
  BY <1>2, <1>4 DEF Unclaimed
<1>6. a \notin Handed(h)
  <2>1. a # None
    BY DEF Papers, None, PageTyped
  <2>2. ~Offers(h, a)
    BY <1>3, <1>5
  <2>3. page.held # a /\ saved # a /\ flows[h].paper # a
    BY <1>5 DEF Untouched
  <2>4. QED
    BY <2>1, <2>2, <2>3 DEF Handed, Offers
<1>7. Untouched(a)'
  BY <1>1, <1>5, <1>6 DEF Untouched, Turns
<1>8. QED
  BY <1>4, <1>5, <1>7

\* The requests that may still create an attempt.
LEMMA ProceedsAttempts ==
    ASSUME NEW h \in Handlers, Proceeds(h), h \notin Creates, flows'[h].at # "creating"
    PROVE  Attempts' = Attempts
<1>1. /\ papers' = papers /\ strays' = strays /\ Turns(h, flows'[h])
  BY DEF Proceeds
<1>2. Creates' = Creates
  BY <1>1 DEF Creates, Turns
<1>3. Pending' = Pending
  BY <1>1 DEF Pending
<1>4. QED
  BY <1>1, <1>2, <1>3 DEF Attempts

LEMMA RequestsFinite ==
    ASSUME ClientAssumption, PageTyped
    PROVE  /\ IsFiniteSet(Creates) /\ IsFiniteSet(Pending)
           /\ Cardinality(Creates) \in Nat /\ Cardinality(Pending) \in Nat
           /\ Len(papers) \in Nat /\ Attempts \in Nat
<1>1. IsFiniteSet(Creates)
  <2>1. Creates \in SUBSET Handlers /\ IsFiniteSet(Handlers)
    BY DEF Creates, ClientAssumption
  <2>2. QED
    BY <2>1, FS_Subset
<1>2. IsFiniteSet(Pending)
  <2>1. Pending \in SUBSET strays /\ IsFiniteSet(strays)
    BY DEF Pending, PageTyped
  <2>2. QED
    BY <2>1, FS_Subset
<1>3. Len(papers) \in Nat
  BY DEF PageTyped
<1>4. Cardinality(Creates) \in Nat /\ Cardinality(Pending) \in Nat
  BY <1>1, <1>2, FS_CardinalityType
<1>5. QED
  BY <1>1, <1>2, <1>3, <1>4 DEF Attempts

LEMMA OwedSum ==
    ASSUME NEW a \in Nat, NEW e \in Nat, NEW more \in Nat, NEW o \in {0, 1}, NEW p \in {0, 1},
           a + o <= 1 + e, more >= e, more = e + 1 \/ p <= o
    PROVE  a + p <= 1 + more
OBVIOUS

LEMMA OwedStays ==
    ASSUME ClientAssumption, PageTyped, Owed, Attempts' = Attempts,
           excuses' \in 0..MaxPapers, excuses' >= excuses,
           \/ excuses' = MaxPapers
           \/ excuses' = excuses + 1
           \/ Open' => Open
    PROVE  Owed'
<1>1. Attempts \in Nat /\ excuses \in 0..MaxPapers /\ MaxPapers \in Nat
  BY RequestsFinite DEF PageTyped, ClientAssumption
<1> DEFINE open == IF Open THEN 1 ELSE 0
           opens == IF Open' THEN 1 ELSE 0
<1>2. open \in {0, 1} /\ opens \in {0, 1} /\ ((Open' => Open) => opens <= open)
  OBVIOUS
<1>3. Owed = (excuses = MaxPapers \/ Attempts + open <= 1 + excuses)
  BY DEF Owed
<1>4. Owed' = (excuses' = MaxPapers \/ Attempts' + opens <= 1 + excuses')
  BY DEF Owed
<1> HIDE DEF open, opens
<1>5. excuses = MaxPapers => excuses' = MaxPapers
  BY <1>1
<1>6. Attempts + open <= 1 + excuses =>
        excuses' = MaxPapers \/ Attempts + opens <= 1 + excuses'
  BY <1>1, <1>2, OwedSum, excuses \in Nat, excuses' \in Nat
<1>7. QED
  BY <1>3, <1>4, <1>5, <1>6

LEMMA RepliedShape ==
    ASSUME PageTyped, RepliesTell, NEW h \in Handlers, NEW at, Replied(h, at)
    PROVE  /\ flows[h].at = at /\ h \notin Creates
           /\ flows[h].reply.is \in {"ok", "failed", "conflict"}
           /\ Ok(h) = (flows[h].reply.is = "ok")
           /\ Failing(h) = (flows[h].reply.is # "ok")
<1>1. flows[h].reply.is # "none"
  BY DEF RepliesTell, Tells, Replied
<1>2. flows[h].reply.is \in {"none", "ok", "failed", "conflict"}
  BY FlowFields
<1>3. QED
  BY <1>1, <1>2 DEF Replied, Creates, Ok, Failing, Reply

\* A handler that goes on without an answer being submitted.
Quiet(h) ==
    /\ Proceeds(h) /\ page'.box = page.box
    /\ cleared' = cleared /\ written' = written /\ unsure' = unsure
    /\ h \notin Submitters /\ flows'[h].at \notin {"answering", "reconciling"}
    /\ page'.screen = "code" => page.screen = "code"

LEMMA QuietSubmitters ==
    ASSUME NEW h \in Handlers, Quiet(h)
    PROVE  /\ Submitters' = Submitters
           /\ \A g \in Submitters : g # h /\ flows'[g] = flows[g]
BY DEF Quiet, Proceeds, Turns, Submitters

LEMMA QuietBoxed ==
    ASSUME NEW h \in Handlers, Quiet(h), Boxed
    PROVE  Boxed'
<1>1. /\ page'.box = page.box /\ written' = written /\ strays' = strays
      /\ page'.screen = "code" => page.screen = "code"
  BY DEF Quiet, Proceeds
<1>2. QED
  BY <1>1, QuietSubmitters DEF Boxed

LEMMA TimesStay ==
    ASSUME papers' = papers
    PROVE  Papers' = Papers /\ \A a, n : Times(a, n)' = Times(a, n)
BY DEF Papers, Times

LEMMA OverStays ==
    ASSUME papers' = papers, unsure' = unsure
    PROVE  /\ Papers' = Papers /\ \A a, n : Over(a, n)' = Over(a, n)
           /\ CountedOnce => CountedOnce'
BY TimesStay DEF Over, CountedOnce

LEMMA QuietSubmitted ==
    ASSUME NEW h \in Handlers, Quiet(h), \A g \in Submitters : Submitted(g),
           \A a \in Papers, n \in Written :
               page'.held = a /\ Over(a, n) /\ Submitters # {} => page.held = a
    PROVE  \A g \in Submitters' : Submitted(g)'
<1>1. papers' = papers /\ unsure' = unsure
  BY DEF Quiet, Proceeds
<1>2. Papers' = Papers /\ \A a, n : Over(a, n)' = Over(a, n)
  BY <1>1, OverStays
<1>3. SUFFICES ASSUME NEW g \in Submitters PROVE Submitted(g)'
  BY QuietSubmitters
<1>4. flows'[g] = flows[g] /\ Submitted(g)
  BY QuietSubmitters
<1>5. QED
  BY <1>1, <1>2, <1>4 DEF Submitted

LEMMA QuietCounts ==
    ASSUME NEW h \in Handlers, Quiet(h), Counting,
           page'.held = page.held, page'.log = page.log,
           page'.screen = "chat" => page.screen = "chat",
           flows'[h].at # "starting",
           flows'[h].at \in {"resuming", "restarting"} => flows'[h].paper = page.held
    PROVE  Counting'
<1>1. /\ papers' = papers /\ unsure' = unsure /\ cleared' = cleared /\ written' = written
      /\ page'.box = page.box /\ Turns(h, flows'[h]) /\ flows'[h].reply.is = "none"
  BY DEF Quiet, Proceeds
<1>2. /\ Papers' = Papers /\ (\A a, n : Over(a, n)' = Over(a, n)) /\ CountedOnce'
  BY <1>1, OverStays DEF Counting
<1>3. \A g \in Submitters' : Submitted(g)'
  BY QuietSubmitted DEF Counting
<1>4. Submitters' = Submitters
  BY QuietSubmitters
<1>5. ASSUME NEW a \in Papers, NEW n \in Written, page'.held = a, Over(a, n)
      PROVE  /\ Submitters' = {} => page'.box # n
             /\ page'.box = None /\ written' = n /\ n \notin cleared' => Shown(a, n)'
  <2>1. /\ Submitters = {} => page.box # n
        /\ page.box = None /\ written = n /\ n \notin cleared => Shown(a, n)
    BY <1>5 DEF Counting, Shows
  <2>2. ASSUME Shown(a, n) PROVE Shown(a, n)'
    <3>1. \A g \in Handlers : flows'[g].at # "starting"
      BY <1>1, <2>2 DEF Shown, Turns
    <3>2. \A g \in Resuming' : flows'[g].paper = a /\
              (flows'[g].reply.is = "ok" => Has(flows'[g].reply.answers, n))
      BY <1>1, <1>5, <2>2 DEF Shown, Turns, Resuming
    <3>3. page'.screen = "chat" => Has(page'.log, n)
      BY <2>2 DEF Shown
    <3>4. QED
      BY <3>1, <3>2, <3>3 DEF Shown, Has
  <2>3. QED
    BY <1>1, <1>4, <2>1, <2>2
<1>6. Shows'
  BY <1>2, <1>5 DEF Shows
<1>7. QED
  BY <1>2, <1>3, <1>6 DEF Counting

\* An attempt that has no answer too many leaves nothing to be shown.
LEMMA QuietHolds ==
    ASSUME NEW h \in Handlers, Quiet(h), Counting,
           \A a \in Papers, n \in Written : page'.held = a => ~Over(a, n)
    PROVE  Counting'
<1>1. papers' = papers /\ unsure' = unsure
  BY DEF Quiet, Proceeds
<1>2. /\ Papers' = Papers /\ (\A a, n : Over(a, n)' = Over(a, n)) /\ CountedOnce'
  BY <1>1, OverStays DEF Counting
<1>3. \A g \in Submitters' : Submitted(g)'
  BY QuietSubmitted DEF Counting
<1>4. Shows'
  BY <1>2 DEF Shows
<1>5. QED
  BY <1>2, <1>3, <1>4 DEF Counting

LEMMA ClearedStays ==
    ASSUME ClearedTaken, papers' = papers, cleared' = cleared
    PROVE  ClearedTaken'
BY DEF ClearedTaken, Taken, Papers

LEMMA ProceedsTyped ==
    ASSUME PageTyped, PapersKept, NEW h \in Handlers, Proceeds(h), page' \in PageState,
           written' = written, cleared' \subseteq Written, unsure' \in [Written -> 0..Needed],
           excuses' \in 0..MaxPapers, overlaps' \in BOOLEAN
    PROVE  PageTyped'
<1>1. saved' \in Nat
  <2>1. saved' = None \/ saved' \in Papers
    BY HandedKnown DEF Proceeds
  <2>2. QED
    BY <2>1 DEF None, Papers, PageTyped
<1>2. /\ papers' = papers /\ strays' = strays /\ storing' = storing
      /\ flows' \in [Handlers -> Flow]
  BY DEF Proceeds, Turns
<1>3. QED
  BY <1>1, <1>2 DEF PageTyped

\* A handler that is not beginning an attempt opens no way to begin one.
Apart(h) == /\ Turns(h, flows'[h])
            /\ flows[h].at \notin {"creating", "starting"}
            /\ flows'[h].at \notin {"creating", "starting"}

LEMMA ApartBeginning ==
    ASSUME NEW h \in Handlers, Apart(h)
    PROVE  Beginning' = Beginning
BY DEF Apart, Turns, Beginning

LEMMA ApartOpen ==
    ASSUME NEW h \in Handlers, Apart(h), storing' = storing, saved' = saved,
           page'.begins = page.begins, page'.screen = "code" => page.screen = "code"
    PROVE  Open' => Open
<1>1. Beginning' = Beginning
  BY ApartBeginning
<1>2. (\A g \in Handlers : flows'[g].at # "creating") => \A g \in Handlers : flows[g].at # "creating"
  BY DEF Apart, Turns
<1>3. QED
  BY <1>1, <1>2 DEF Open

LEMMA ApartShut ==
    ASSUME NEW h \in Handlers, Apart(h), Shut, saved' = saved,
           page'.begins = page.begins, page'.screen = "code" => page.screen = "code",
           flows'[h].at = "viewing" => saved = None
    PROVE  Shut'
<1>1. Beginning' = Beginning
  BY ApartBeginning
<1>2. Turns(h, flows'[h])
  BY DEF Apart
<1>3. QED
  BY <1>1, <1>2 DEF Shut, Turns

LEMMA StoredStays ==
    ASSUME NEW h \in Handlers, Turns(h, flows'[h]), HeldAsSaved, storing' = storing, saved' = saved,
           page'.held = page.held, flows[h].at # "idle" \/ page # NewPage \/ page.held = saved,
           flows'[h].at \in {"resuming", "restarting"} => h \in Resuming
    PROVE  HeldAsSaved'
<1>1. storing => page.held = saved
  BY DEF HeldAsSaved
<1>2. Resuming' \subseteq Resuming
  BY DEF Turns, Resuming
<1>3. QED
  BY <1>1, <1>2 DEF HeldAsSaved

LEMMA QuietParts ==
    ASSUME ClientAssumption, PageInvariant, NEW h \in Handlers, Quiet(h), page' \in PageState,
           excuses' \in 0..MaxPapers, overlaps' \in BOOLEAN
    PROVE  /\ PageTyped' /\ PapersKept' /\ RepliesTell' /\ Unclaimed' /\ Boxed' /\ ClearedTaken'
           /\ (h \notin Creates /\ flows'[h].at # "creating" => Attempts' = Attempts)
<1> USE DEF PageInvariant
<1>1. Proceeds(h) /\ written' = written /\ cleared' = cleared /\ unsure' = unsure
  BY DEF Quiet
<1>2. papers' = papers
  BY <1>1 DEF Proceeds
<1>3. cleared' \subseteq Written /\ unsure' \in [Written -> 0..Needed]
  BY <1>1 DEF PageTyped
<1>4. QED
  BY <1>1, <1>2, <1>3, ProceedsTyped, ProceedsKnown, ProceedsTells, ProceedsUnclaimed,
     QuietBoxed, ClearedStays, ProceedsAttempts

LEMMA SameExcuses ==
    ASSUME PageTyped, excuses' = excuses
    PROVE  excuses' \in 0..MaxPapers /\ excuses' >= excuses
BY DEF PageTyped

\* Looking up, and resuming.
LEMMA LookKeeps ==
    ASSUME ClientAssumption, PageInvariant, NEW h \in Handlers, Look(h)
    PROVE  PageInvariant'
<1> USE DEF PageInvariant
<1>1. /\ flows[h].at = "idle" /\ page.screen = "code"
      /\ UNCHANGED <<papers, saved, storing, strays, written, cleared, unsure, excuses, overlaps>>
  BY DEF Look
<1>2. page \in PageState
  BY DEF PageTyped
<1> DEFINE held == [page EXCEPT !.held = saved]
<1>3. /\ held \in PageState /\ held.held = saved
      /\ \A field \in {"screen", "details", "begins", "box", "log", "told"} : held[field] = page[field]
  BY <1>2 DEF PageState, PageTyped
<1>4. \/ saved # None /\ page' = held /\ Asks(h, "resuming", held)
      \/ saved = None /\ page' = page /\ Asks(h, "viewing", page)
  BY DEF Look
<1> HIDE DEF held
<1>5. /\ page' \in PageState /\ page'.held \in {page.held, saved}
      /\ page'.screen = page.screen /\ page'.begins = page.begins /\ page'.box = page.box
      /\ page'.log = page.log /\ page'.told = page.told
  BY <1>2, <1>3, <1>4
<1>6. /\ Turns(h, flows'[h]) /\ flows'[h].reply = NoReply /\ flows'[h].reply.is = "none"
      /\ flows'[h].paper = page'.held
      /\ \/ flows'[h].at = "resuming" /\ page'.held = saved /\ saved # None
         \/ flows'[h].at = "viewing" /\ saved = None /\ page'.held = page.held
  <2>1. "resuming" \in Points /\ "viewing" \in Points
    BY DEF Points
  <2>2. QED
    BY <1>2, <1>3, <1>4, <2>1, AsksTurns
<1>7. Proceeds(h) /\ Apart(h)
  BY <1>1, <1>5, <1>6 DEF Proceeds, Handed, Apart
<1>8. h \notin Creates /\ Quiet(h)
  BY <1>1, <1>5, <1>6, <1>7 DEF Quiet, Submitters, Creates
<1>9. PageTyped' /\ PapersKept' /\ RepliesTell' /\ Unclaimed' /\ Boxed' /\ ClearedTaken'
  BY <1>1, <1>5, <1>8, QuietParts, SameExcuses DEF PageTyped
<1>10. Owed'
  <2>1. Open' => Open
    BY <1>1, <1>5, <1>7, ApartOpen
  <2>2. Attempts' = Attempts
    BY <1>6, <1>7, <1>8, ProceedsAttempts
  <2>3. QED
    BY <1>1, <2>1, <2>2, SameExcuses, OwedStays
<1>11. Shut'
  BY <1>1, <1>5, <1>6, <1>7, ApartShut
<1>12. HeldAsSaved' /\ (page'.held = page.held \/ \A g \in Handlers : flows[g].at = "idle")
  <2>1. page.held = saved \/ ~storing \/ (page = NewPage /\ \A g \in Handlers : flows[g].at = "idle")
    BY DEF HeldAsSaved
  <2>2. page = NewPage => page.held = None
    BY DEF NewPage
  <2>3. storing => page'.held = saved
    BY <1>6, <2>1, <2>2
  <2>4. ~storing => saved = None /\ Resuming' = {}
    BY <1>6 DEF HeldAsSaved, Resuming, Turns
  <2>5. QED
    BY <1>1, <1>6, <2>1, <2>3, <2>4 DEF HeldAsSaved
<1>13. Counting'
  <2>1. CASE page'.held = page.held
    BY <1>5, <1>6, <1>8, <2>1, QuietCounts
  <2>2. CASE \A g \in Handlers : flows[g].at = "idle"
    <3>1. Submitters = {}
      BY <2>2 DEF Submitters
    <3>2. /\ Papers' = Papers /\ (\A a, n : Over(a, n)' = Over(a, n)) /\ CountedOnce'
          /\ \A g \in Submitters' : Submitted(g)'
      <4>1. papers' = papers /\ unsure' = unsure
        BY <1>1
      <4>2. QED
        BY <1>8, <3>1, <4>1, OverStays, QuietSubmitted DEF Counting
    <3>3. page'.box = None /\ page'.screen = "code"
      BY <1>1, <1>5 DEF Boxed
    <3>4. \A g \in Handlers : g # h => flows'[g].at = "idle"
      BY <1>6, <2>2 DEF Turns
    <3>5. \A g \in Resuming' : g = h
      BY <3>4 DEF Resuming
    <3>6. \A g \in Handlers : flows'[g].at # "starting"
      BY <1>6, <3>4
    <3>7. ASSUME NEW a, NEW n, page'.held = a PROVE Shown(a, n)'
      BY <1>6, <3>3, <3>5, <3>6, <3>7 DEF Shown
    <3>8. Shows'
      <4>1. ASSUME NEW a \in Papers', NEW n \in Written, page'.held = a, Over(a, n)'
            PROVE  /\ page'.box # n
                   /\ Shown(a, n)'
        BY <3>3, <3>7, <4>1 DEF None, Written
      <4>2. QED
        BY <4>1 DEF Shows
    <3>9. QED
      BY <3>2, <3>8 DEF Counting
  <2>3. QED
    BY <1>12, <2>1, <2>2
<1>14. ASSUME ~overlaps' PROVE Together'
  <2>1. Together
    BY <1>1, <1>14
  <2>2. Beginning' = Beginning
    BY <1>7, ApartBeginning
  <2>3. /\ papers' = papers /\ page'.screen = "code" /\ page'.begins = page.begins
        /\ page'.told = page.told
    BY <1>1, <1>5
  <2>4. \A g \in Handlers : g # h => flows'[g] = flows[g] /\ (flows[g].at # "idle" => page'.held = page.held)
    BY <1>6, <1>12 DEF Turns
  <2>5. \A g \in Handlers : flows'[g].at \in {"resuming", "restarting", "answering", "reconciling"} =>
            page'.held \in {None, flows'[g].paper}
    BY <1>6, <2>1, <2>4 DEF Together
  <2>6. \A g \in Beginning' : /\ page'.screen = "code" /\ ~page'.begins /\ Beginning' = {g}
                              /\ flows'[g].at = "starting" => page'.held = flows'[g].paper
    BY <1>6, <2>1, <2>2, <2>3, <2>4 DEF Together, Beginning
  <2>7. QED
    BY <1>6, <2>1, <2>3, <2>4, <2>5, <2>6 DEF Together, IsAt
<1>15. QED
  BY <1>9, <1>10, <1>11, <1>12, <1>13, <1>14

\* What a handler does is known from where it goes: it rests or sends a request
\* for the attempt the page then holds.
Goes(h) ==
    /\ Turns(h, flows'[h]) /\ flows'[h].reply = NoReply /\ flows'[h].reply.is = "none"
    /\ IF flows'[h].at = "idle"
       THEN flows'[h].paper = None /\ flows'[h].answer = None /\ flows'[h].conflict = FALSE
       ELSE flows'[h].paper = page'.held /\ flows'[h].answer = page'.box
            /\ flows'[h].conflict = flows[h].conflict

LEMMA AsksGoes ==
    ASSUME PageTyped, NEW h \in Handlers, NEW at \in Points \ {"idle"}, page' \in PageState,
           NEW holder \in PageState, holder = page', Asks(h, at, holder)
    PROVE  Goes(h) /\ flows'[h].at = at
BY AsksTurns DEF Goes

LEMMA EndsGoes ==
    ASSUME PageTyped, NEW h \in Handlers, Ends(h)
    PROVE  Goes(h) /\ flows'[h].at = "idle"
BY EndsTurns DEF Goes

LEMMA GoesProceeds ==
    ASSUME NEW h \in Handlers, Goes(h), UNCHANGED <<papers, strays, storing>>,
           page'.held \in Handed(h), saved' \in Handed(h), page'.told \in {page.told, flows[h].paper}
    PROVE  Proceeds(h)
<1>1. flows'[h].paper \in Handed(h)
  BY DEF Goes, Handed
<1>2. QED
  BY <1>1 DEF Goes, Proceeds

LEMMA ResumeShape ==
    ASSUME ClientAssumption, PageInvariant, NEW h \in Handlers, Resume(h)
    PROVE  /\ flows[h].at \in {"resuming", "restarting"} /\ h \notin Creates
           /\ Quiet(h) /\ Apart(h) /\ Goes(h) /\ page' \in PageState
           /\ overlaps' = (overlaps \/ Beginning # {})
           /\ excuses' \in 0..MaxPapers /\ excuses' >= excuses
           /\ page'.begins = page.begins /\ page'.told = page.told
           /\ \/ /\ flows[h].reply.is # "ok"
                 /\ page'.held = None /\ page'.screen = page.screen /\ page'.log = page.log
                 /\ saved' = None /\ flows'[h].at = "viewing"
                 /\ excuses' = MaxPapers \/ excuses' = excuses + 1
              \/ /\ flows[h].reply.is = "ok" /\ page'.held = page.held /\ saved' = saved
                 /\ \/ /\ page'.screen = "chat" /\ page'.log = flows[h].reply.answers
                       /\ flows[h].reply.status # "not_started" /\ flows'[h].at = "idle"
                    \/ /\ page'.screen = "report" /\ page'.log = page.log
                       /\ flows[h].reply.status = "submitted" /\ flows'[h].at = "reporting"
                    \/ /\ page'.screen = page.screen /\ page'.log = page.log
                       /\ flows'[h].at = "restarting"
<1> USE DEF PageInvariant
<1>1. /\ flows[h].at \in {"resuming", "restarting"} /\ h \notin Creates
      /\ flows[h].reply.is \in {"ok", "failed", "conflict"}
      /\ Ok(h) = (flows[h].reply.is = "ok") /\ Failing(h) = (flows[h].reply.is # "ok")
  BY RepliedShape DEF Resume
<1>2. /\ UNCHANGED <<papers, storing, strays, written, cleared, unsure>>
      /\ overlaps' = (overlaps \/ Beginning # {})
  BY DEF Resume, Overlaps
<1>3. /\ excuses' \in 0..MaxPapers /\ excuses' >= excuses
      /\ flows[h].reply.is # "ok" => excuses' = MaxPapers \/ excuses' = excuses + 1
  <2>1. Excuse(IF Failing(h) THEN 1 ELSE 0)
    BY DEF Resume, Excused
  <2>2. QED
    BY <1>1, <2>1, ExcuseCounts
<1>4. page \in PageState /\ flows[h].reply.answers \in Seq(Written)
  BY FlowFields DEF PageTyped
<1> DEFINE gone == [page EXCEPT !.held = None]
           chat == Chat(page, flows[h].reply.answers)
           report == [page EXCEPT !.screen = "report"]
<1>5. /\ gone \in PageState /\ gone.held = None /\ gone.screen = page.screen
      /\ gone.log = page.log /\ gone.begins = page.begins /\ gone.told = page.told
      /\ gone.box = page.box
  BY <1>4 DEF PageState, None
<1>6. /\ chat \in PageState /\ chat.held = page.held /\ chat.screen = "chat"
      /\ chat.log = flows[h].reply.answers /\ chat.begins = page.begins /\ chat.told = page.told
      /\ chat.box = page.box
  BY <1>4 DEF PageState, Chat
<1>7. /\ report \in PageState /\ report.held = page.held /\ report.screen = "report"
      /\ report.log = page.log /\ report.begins = page.begins /\ report.told = page.told
      /\ report.box = page.box
  BY <1>4 DEF PageState
<1>8. {"viewing", "restarting", "reporting"} \subseteq Points \ {"idle"}
  BY DEF Points
<1>9. \/ Failing(h) /\ saved' = None /\ page' = gone /\ Asks(h, "viewing", gone)
      \/ /\ ~Failing(h) /\ saved' = saved
         /\ \/ /\ flows[h].at = "restarting" \/ flows[h].reply.status = "in_progress"
               /\ page' = chat /\ Ends(h)
            \/ /\ flows[h].reply.status = "submitted" /\ page' = report
               /\ Asks(h, "reporting", page)
            \/ page' = page /\ Asks(h, "restarting", page)
  BY DEF Resume, OpensReport, Reply
<1> HIDE DEF gone, chat, report
<1>10. CASE Failing(h) /\ saved' = None /\ page' = gone /\ Asks(h, "viewing", gone)
  <2>1. Goes(h) /\ flows'[h].at = "viewing"
    BY <1>5, <1>8, <1>10, AsksGoes
  <2>2. Proceeds(h)
    BY <1>2, <1>5, <1>10, <2>1, GoesProceeds DEF Handed
  <2>3. Quiet(h) /\ Apart(h)
    BY <1>1, <1>2, <1>5, <1>10, <2>1, <2>2 DEF Quiet, Apart, Submitters, Goes
  <2>4. QED
    BY <1>1, <1>2, <1>3, <1>5, <1>10, <2>1, <2>3
<1>11. CASE ~Failing(h) /\ saved' = saved /\ page' = chat /\ Ends(h)
            /\ (flows[h].at = "restarting" \/ flows[h].reply.status = "in_progress")
  <2>1. Goes(h) /\ flows'[h].at = "idle"
    BY <1>11, EndsGoes
  <2>2. Proceeds(h)
    BY <1>2, <1>6, <1>11, <2>1, GoesProceeds DEF Handed
  <2>3. Quiet(h) /\ Apart(h)
    BY <1>1, <1>2, <1>6, <1>11, <2>1, <2>2 DEF Quiet, Apart, Submitters, Goes
  <2>4. flows[h].reply.status # "not_started"
    BY <1>1, <1>11 DEF RepliesTell, Tells
  <2>5. QED
    BY <1>1, <1>2, <1>3, <1>6, <1>11, <2>1, <2>3, <2>4
<1>12. CASE /\ ~Failing(h) /\ saved' = saved /\ flows[h].reply.status = "submitted"
            /\ page' = report /\ Asks(h, "reporting", page)
  <2>1. Asks(h, "reporting", report)
    BY <1>7, <1>12 DEF Asks, report
  <2>2. Goes(h) /\ flows'[h].at = "reporting"
    BY <1>7, <1>8, <1>12, <2>1, AsksGoes
  <2>3. Proceeds(h)
    BY <1>2, <1>7, <1>12, <2>2, GoesProceeds DEF Handed
  <2>4. Quiet(h) /\ Apart(h)
    BY <1>1, <1>2, <1>7, <1>12, <2>2, <2>3 DEF Quiet, Apart, Submitters, Goes
  <2>5. QED
    BY <1>1, <1>2, <1>3, <1>7, <1>12, <2>2, <2>4
<1>13. CASE ~Failing(h) /\ saved' = saved /\ page' = page /\ Asks(h, "restarting", page)
  <2>1. Goes(h) /\ flows'[h].at = "restarting"
    BY <1>4, <1>8, <1>13, AsksGoes
  <2>2. Proceeds(h)
    BY <1>2, <1>13, <2>1, GoesProceeds DEF Handed
  <2>3. Quiet(h) /\ Apart(h)
    BY <1>1, <1>2, <1>13, <2>1, <2>2 DEF Quiet, Apart, Submitters, Goes
  <2>4. QED
    BY <1>1, <1>2, <1>3, <1>4, <1>13, <2>1, <2>3
<1>14. QED
  BY <1>9, <1>10, <1>11, <1>12, <1>13

LEMMA NoPaper ==
    ASSUME PageTyped, NEW a \in Papers
    PROVE  a # None
BY DEF PageTyped, Papers, None

LEMMA ResumeKeeps ==
    ASSUME ClientAssumption, PageInvariant, NEW h \in Handlers, Resume(h)
    PROVE  PageInvariant'
<1> USE DEF PageInvariant
<1>1. /\ flows[h].at \in {"resuming", "restarting"} /\ h \notin Creates
      /\ Quiet(h) /\ Apart(h) /\ Goes(h) /\ page' \in PageState
      /\ overlaps' = (overlaps \/ Beginning # {})
      /\ excuses' \in 0..MaxPapers /\ excuses' >= excuses
      /\ page'.begins = page.begins /\ page'.told = page.told
  BY ResumeShape
<1>2. \/ /\ page'.held = None /\ page'.screen = page.screen /\ saved' = None
         /\ flows'[h].at = "viewing" /\ (excuses' = MaxPapers \/ excuses' = excuses + 1)
      \/ /\ flows[h].reply.is = "ok" /\ page'.held = page.held /\ saved' = saved
         /\ \/ /\ page'.screen = "chat" /\ page'.log = flows[h].reply.answers
               /\ flows[h].reply.status # "not_started" /\ flows'[h].at = "idle"
            \/ /\ page'.screen = "report" /\ page'.log = page.log
               /\ flows[h].reply.status = "submitted" /\ flows'[h].at = "reporting"
            \/ /\ page'.screen = page.screen /\ page'.log = page.log
               /\ flows'[h].at = "restarting"
  BY ResumeShape
<1>3. overlaps' \in BOOLEAN
  BY <1>1 DEF PageTyped
<1>4. PageTyped' /\ PapersKept' /\ RepliesTell' /\ Unclaimed' /\ Boxed' /\ ClearedTaken'
  BY <1>1, <1>3, QuietParts
<1>5. /\ papers' = papers /\ strays' = strays /\ storing' = storing /\ Turns(h, flows'[h])
      /\ unsure' = unsure /\ cleared' = cleared /\ written' = written /\ page'.box = page.box
      /\ page'.screen = "code" => page.screen = "code"
  BY <1>1 DEF Quiet, Proceeds
<1>6. Owed'
  <2>1. Attempts' = Attempts
    BY <1>1, <1>2, <1>3, QuietParts
  <2>2. saved' = saved => (Open' => Open)
    BY <1>1, <1>5, ApartOpen
  <2>3. QED
    BY <1>1, <1>2, <2>1, <2>2, OwedStays
<1>7. Shut'
  <2>1. saved' = None => Shut'
    BY DEF Shut
  <2>2. QED
    BY <1>1, <1>2, <1>5, <2>1, ApartShut
<1>8. HeldAsSaved'
  <2>1. h \in Resuming
    BY <1>1 DEF Resuming
  <2>2. CASE page'.held = None /\ saved' = None
    BY <1>5, <2>1, <2>2 DEF HeldAsSaved
  <2>3. CASE page'.held = page.held /\ saved' = saved
    BY <1>1, <1>5, <2>1, <2>3, StoredStays
  <2>4. QED
    BY <1>2, <2>2, <2>3
<1>9. Counting'
  <2>1. CASE page'.held = None
    BY <1>1, <2>1, NoPaper, QuietHolds
  <2>2. CASE page'.held = page.held /\ page'.log = page.log
             /\ flows'[h].at \in {"reporting", "restarting"}
             /\ (page'.screen = "chat" => page.screen = "chat")
    BY <1>1, <2>2, QuietCounts DEF Goes
  <2>3. CASE /\ flows[h].reply.is = "ok" /\ page'.held = page.held
             /\ page'.screen = "chat" /\ page'.log = flows[h].reply.answers
             /\ flows'[h].at = "idle"
    <3>1. /\ Papers' = Papers /\ (\A a, n : Over(a, n)' = Over(a, n)) /\ CountedOnce'
      BY <1>5, OverStays DEF Counting
    <3>2. \A g \in Submitters' : Submitted(g)'
      BY <1>1, <2>3, QuietSubmitted DEF Counting
    <3>3. Submitters' = Submitters
      BY <1>1, QuietSubmitters
    <3>4. ASSUME NEW a \in Papers, NEW n \in Written, page'.held = a, Over(a, n)
          PROVE  /\ Submitters' = {} => page'.box # n
                 /\ page'.box = None /\ written' = n /\ n \notin cleared' => Shown(a, n)'
      <4>1. /\ Submitters = {} => page.box # n
            /\ page.box = None /\ written = n /\ n \notin cleared => Shown(a, n)
        BY <2>3, <3>4 DEF Counting, Shows
      <4>2. ASSUME Shown(a, n) PROVE Shown(a, n)'
        <5>1. Has(flows[h].reply.answers, n)
          BY <1>1, <2>3, <4>2 DEF Shown, Resuming
        <5>2. \A g \in Handlers : flows'[g].at # "starting"
          BY <1>5, <2>3, <4>2 DEF Shown, Turns
        <5>3. \A g \in Resuming' : flows'[g].paper = a /\
                  (flows'[g].reply.is = "ok" => Has(flows'[g].reply.answers, n))
          BY <1>5, <2>3, <4>2 DEF Shown, Turns, Resuming
        <5>4. Has(page'.log, n)
          BY <2>3, <5>1
        <5>5. QED
          BY <5>2, <5>3, <5>4 DEF Shown, Has
      <4>3. QED
        BY <1>5, <3>3, <4>1, <4>2
    <3>5. Shows'
      BY <3>1, <3>4 DEF Shows
    <3>6. QED
      BY <3>1, <3>2, <3>5 DEF Counting
  <2>4. QED
    BY <1>2, <2>1, <2>2, <2>3
<1>10. ASSUME ~overlaps' PROVE Together'
  <2>1. Together /\ Beginning = {} /\ Beginning' = {}
    BY <1>1, <1>10, ApartBeginning
  <2>2. \A g \in Handlers : g # h => flows'[g] = flows[g]
    BY <1>5 DEF Turns
  <2>3. /\ page.held \in {None, flows[h].paper} /\ page'.held \in {None, page.held}
        /\ flows'[h].at \notin {"idle"} => flows'[h].paper = page'.held
    BY <1>1, <1>2, <2>1 DEF Together, Goes
  <2>4. \A g \in Handlers : flows'[g].at \in {"resuming", "restarting", "answering", "reconciling"} =>
            page'.held \in {None, flows'[g].paper}
    BY <2>1, <2>2, <2>3 DEF Together
  <2>5. /\ page'.screen # "code" => IsAt(page'.held, {"in_progress", "submitted"})
        /\ page'.screen = "report" => IsAt(page'.held, {"submitted"})
    <3>1. flows[h].reply.is = "ok" =>
            /\ flows[h].paper \in Papers
            /\ flows[h].reply.status = "submitted" => papers[flows[h].paper].status = "submitted"
            /\ flows[h].reply.status # "not_started" => papers[flows[h].paper].status # "not_started"
      BY <1>1 DEF RepliesTell, Tells
    <3>2. \A a \in Papers : papers[a].status \in Stati
      BY PaperFields
    <3>3. QED
      BY <1>2, <2>1, <2>3, <3>1, <3>2 DEF Together, IsAt, Stati
  <2>6. flows'[h].at = "reporting" => IsAt(flows'[h].paper, {"submitted"})
    BY <1>2, <2>3, <2>5
  <2>7. flows'[h].at \notin {"answering", "reconciling"}
    BY <1>1 DEF Quiet
  <2>8. \A g \in Handlers :
          /\ flows'[g].at = "answering" => IsAt(flows'[g].paper, {"in_progress", "submitted"})
          /\ flows'[g].at = "answering" /\ flows'[g].reply.is = "conflict" =>
               IsAt(flows'[g].paper, {"submitted"})
          /\ flows'[g].at = "reconciling" /\ flows'[g].conflict => IsAt(flows'[g].paper, {"submitted"})
          /\ flows'[g].at = "reporting" => IsAt(flows'[g].paper, {"submitted"})
    BY <2>1, <2>2, <2>6, <2>7 DEF Together
  <2>9. IsAt(page'.told, {"submitted"})
    BY <1>1, <2>1 DEF Together
  <2>10. QED
    BY <1>5, <2>1, <2>4, <2>5, <2>8, <2>9 DEF Together, IsAt
<1>11. QED
  BY <1>4, <1>6, <1>7, <1>8, <1>9, <1>10

\* What holds of the handlers together still does when one rests or goes on
\* where the others are.
LEMMA TogetherStays ==
    ASSUME Together, NEW h \in Handlers, Turns(h, flows'[h]), papers' = papers,
           page'.held = page.held \/ \A g \in Handlers : g # h =>
               flows[g].at \notin {"resuming", "restarting", "answering", "reconciling"},
           flows'[h].at \in {"resuming", "restarting", "answering", "reconciling"} =>
               page'.held \in {None, flows'[h].paper},
           \A g \in Beginning' : /\ page'.screen = "code" /\ ~page'.begins /\ Beginning' = {g}
                                 /\ flows'[g].at = "starting" => page'.held = flows'[g].paper,
           flows'[h].at = "answering" =>
               /\ IsAt(flows'[h].paper, {"in_progress", "submitted"})
               /\ flows'[h].reply.is = "conflict" => IsAt(flows'[h].paper, {"submitted"}),
           flows'[h].at = "reconciling" /\ flows'[h].conflict => IsAt(flows'[h].paper, {"submitted"}),
           flows'[h].at = "reporting" => IsAt(flows'[h].paper, {"submitted"}),
           page'.screen # "code" => IsAt(page'.held, {"in_progress", "submitted"}),
           page'.screen = "report" => IsAt(page'.held, {"submitted"}),
           IsAt(page'.told, {"submitted"})
    PROVE  Together'
<1>1. \A g \in Handlers : g # h => flows'[g] = flows[g]
  BY DEF Turns
<1>2. \A g \in Handlers : flows'[g].at \in {"resuming", "restarting", "answering", "reconciling"} =>
          page'.held \in {None, flows'[g].paper}
  BY <1>1 DEF Together
<1>3. \A g \in Handlers :
        /\ flows'[g].at = "answering" => IsAt(flows'[g].paper, {"in_progress", "submitted"})
        /\ flows'[g].at = "answering" /\ flows'[g].reply.is = "conflict" =>
             IsAt(flows'[g].paper, {"submitted"})
        /\ flows'[g].at = "reconciling" /\ flows'[g].conflict => IsAt(flows'[g].paper, {"submitted"})
        /\ flows'[g].at = "reporting" => IsAt(flows'[g].paper, {"submitted"})
  BY <1>1 DEF Together
<1>4. QED
  BY <1>2, <1>3 DEF Together, IsAt

LEMMA ViewKeeps ==
    ASSUME ClientAssumption, PageInvariant, NEW h \in Handlers, View(h)
    PROVE  PageInvariant'
<1> USE DEF PageInvariant
<1>1. /\ flows[h].at = "viewing" /\ h \notin Creates
      /\ Ends(h) /\ Excuse(IF Beginning = {} THEN 0 ELSE 1)
      /\ overlaps' = (overlaps \/ Beginning # {})
      /\ UNCHANGED <<papers, saved, storing, strays, written, cleared, unsure>>
  BY RepliedShape DEF View, Overlaps
<1>2. /\ page' \in PageState /\ page'.screen = page.screen /\ page'.held = page.held
      /\ page'.box = page.box /\ page'.log = page.log /\ page'.told = page.told
      /\ page.begins => page'.begins
  <2>1. page \in PageState /\ Ok(h) \in BOOLEAN
    BY DEF PageTyped, Ok
  <2>2. page' = [page EXCEPT !.details = Ok(h), !.begins = IF Ok(h) THEN TRUE ELSE page.begins]
    BY DEF View
  <2>3. QED
    BY <2>1, <2>2 DEF PageState
<1>3. Goes(h) /\ flows'[h].at = "idle" /\ Turns(h, flows'[h])
  BY <1>1, EndsGoes DEF Goes
<1>4. Proceeds(h)
  BY <1>1, <1>2, <1>3, GoesProceeds DEF Handed
<1>5. Quiet(h) /\ Apart(h)
  BY <1>1, <1>2, <1>3, <1>4 DEF Quiet, Apart, Submitters
<1>6. /\ excuses' \in 0..MaxPapers /\ excuses' >= excuses /\ overlaps' \in BOOLEAN
      /\ Beginning = {} \/ excuses' = MaxPapers \/ excuses' = excuses + 1
  BY <1>1, ExcuseCounts DEF PageTyped
<1>7. PageTyped' /\ PapersKept' /\ RepliesTell' /\ Unclaimed' /\ Boxed' /\ ClearedTaken'
      /\ Attempts' = Attempts
  BY <1>1, <1>2, <1>3, <1>5, <1>6, QuietParts
<1>8. Beginning' = Beginning
  BY <1>5, ApartBeginning
<1>9. Owed'
  <2>1. ASSUME Beginning = {}, Open' PROVE Open
    <3>1. (\A g \in Handlers : flows'[g].at # "creating") => \A g \in Handlers : flows[g].at # "creating"
      BY <1>1, <1>3 DEF Turns
    <3>2. page.screen = "code" => page.begins \/ saved = None
      BY <1>1, <2>1 DEF Shut
    <3>3. QED
      BY <1>1, <1>2, <2>1, <3>1, <3>2 DEF Open
  <2>2. QED
    BY <1>6, <1>7, <2>1, OwedStays
<1>10. Shut'
  BY <1>1, <1>2, <1>3, <1>8 DEF Shut, Turns
<1>11. HeldAsSaved'
  BY <1>1, <1>2, <1>3, StoredStays
<1>12. Counting'
  BY <1>2, <1>3, <1>5, QuietCounts
<1>13. ASSUME ~overlaps' PROVE Together'
  <2>1. Together /\ Beginning' = {}
    BY <1>1, <1>8, <1>13
  <2>2. QED
    BY <1>1, <1>2, <1>3, <2>1, TogetherStays DEF Together
<1>14. QED
  BY <1>7, <1>9, <1>10, <1>11, <1>12, <1>13

\* Beginning an attempt.
LEMMA BeginKeeps ==
    ASSUME ClientAssumption, PageInvariant, NEW h \in Handlers, Begin(h)
    PROVE  PageInvariant'
<1> USE DEF PageInvariant
<1>1. /\ flows[h].at = "idle" /\ page.screen = "code" /\ page.details /\ page.begins
      /\ UNCHANGED <<papers, saved, storing, strays, written, cleared, unsure, excuses, overlaps>>
  BY DEF Begin
<1>2. /\ page' \in PageState /\ page'.screen = page.screen /\ page'.held = page.held
      /\ page'.box = page.box /\ page'.log = page.log /\ page'.told = page.told
      /\ ~page'.begins
  <2>1. page \in PageState
    BY DEF PageTyped
  <2>2. page' = [page EXCEPT !.begins = FALSE]
    BY DEF Begin
  <2>3. QED
    BY <2>1, <2>2 DEF PageState
<1>3. Goes(h) /\ flows'[h].at = "creating" /\ Turns(h, flows'[h])
  <2>1. "creating" \in Points \ {"idle"} /\ page \in PageState
    BY DEF Points, PageTyped
  <2>2. Turns(h, flows'[h]) /\ flows'[h].at = "creating" /\ flows'[h].paper = page.held
        /\ flows'[h].answer = page.box /\ flows'[h].conflict = flows[h].conflict
        /\ flows'[h].reply = NoReply /\ flows'[h].reply.is = "none"
    BY <2>1, AsksTurns DEF Begin
  <2>3. QED
    BY <1>2, <2>2 DEF Goes
<1>4. Proceeds(h)
  BY <1>1, <1>2, <1>3, GoesProceeds DEF Handed
<1>5. Quiet(h)
  BY <1>1, <1>2, <1>3, <1>4 DEF Quiet, Submitters
<1>6. PageTyped' /\ PapersKept' /\ RepliesTell' /\ Unclaimed' /\ Boxed' /\ ClearedTaken'
  BY <1>1, <1>2, <1>5, QuietParts, SameExcuses DEF PageTyped
<1>7. h \in Beginning' /\ Beginning' = Beginning \cup {h}
  BY <1>1, <1>3 DEF Beginning, Turns
<1>8. Owed'
  <2>1. ~Open' /\ Open
    BY <1>1, <1>2, <1>3, <1>7 DEF Open
  <2>2. Attempts' = Attempts + 1
    <3>1. Creates' = Creates \cup {h} /\ h \notin Creates
      BY <1>1, <1>3, <1>4 DEF Creates, Turns, Goes
    <3>2. Pending' = Pending /\ papers' = papers
      BY <1>1 DEF Pending
    <3>3. /\ IsFiniteSet(Creates) /\ Cardinality(Creates) \in Nat
          /\ Cardinality(Pending) \in Nat /\ Len(papers) \in Nat
      BY RequestsFinite
    <3>4. Cardinality(Creates \cup {h}) = Cardinality(Creates) + 1
      BY <3>1, <3>3, FS_AddElement
    <3>5. QED
      BY <3>1, <3>2, <3>3, <3>4 DEF Attempts
  <2>3. Attempts \in Nat /\ excuses \in Nat /\ excuses' = excuses
    BY <1>1, RequestsFinite DEF PageTyped
  <2>4. Owed = (excuses = MaxPapers \/ Attempts + 1 <= 1 + excuses)
    BY <2>1 DEF Owed
  <2>5. Owed' = (excuses' = MaxPapers \/ Attempts' + 0 <= 1 + excuses')
    BY <2>1 DEF Owed
  <2>6. QED
    BY <2>2, <2>3, <2>4, <2>5
<1>9. Shut'
  BY <1>7 DEF Shut
<1>10. HeldAsSaved'
  <2>1. page # NewPage
    BY <1>1 DEF NewPage
  <2>2. QED
    BY <1>1, <1>2, <1>3, <2>1, StoredStays
<1>11. Counting'
  BY <1>2, <1>3, <1>5, QuietCounts
<1>12. ASSUME ~overlaps' PROVE Together'
  <2>1. Together /\ Beginning = {}
    BY <1>1, <1>12 DEF Together
  <2>2. QED
    BY <1>1, <1>2, <1>3, <1>7, <2>1, TogetherStays DEF Together
<1>13. QED
  BY <1>6, <1>8, <1>9, <1>10, <1>11, <1>12

LEMMA CreatedShape ==
    ASSUME ClientAssumption, PageInvariant, NEW h \in Handlers, Created(h)
    PROVE  /\ flows[h].at = "creating" /\ h \notin Creates
           /\ UNCHANGED <<papers, storing, strays, written, cleared, unsure>>
           /\ overlaps' = (overlaps \/ Resuming # {})
           /\ excuses' \in 0..MaxPapers /\ excuses' >= excuses
           /\ page' \in PageState /\ Goes(h)
           /\ page'.screen = page.screen /\ page'.box = page.box /\ page'.log = page.log
           /\ page'.told = page.told
           /\ \/ /\ flows[h].reply.is = "ok" /\ page'.held = flows[h].reply.paper
                 /\ page'.begins = page.begins
                 /\ saved' = IF storing THEN flows[h].reply.paper ELSE saved
                 /\ flows'[h].at = "starting"
              \/ /\ page'.held = page.held /\ page'.begins /\ saved' = saved
                 /\ flows'[h].at = "idle"
                 /\ excuses' = MaxPapers \/ excuses' = excuses + 1
<1> USE DEF PageInvariant
<1>1. /\ flows[h].at = "creating" /\ h \notin Creates
      /\ Ok(h) = (flows[h].reply.is = "ok") /\ Failing(h) = (flows[h].reply.is # "ok")
  BY RepliedShape DEF Created
<1>2. /\ UNCHANGED <<papers, storing, strays, written, cleared, unsure>>
      /\ overlaps' = (overlaps \/ Resuming # {})
  BY DEF Created
<1>3. /\ excuses' \in 0..MaxPapers /\ excuses' >= excuses
      /\ ~Ok(h) => excuses' = MaxPapers \/ excuses' = excuses + 1
  <2>1. Excuse(IF Failing(h) THEN 1 ELSE 0)
    BY DEF Created, Excused
  <2>2. QED
    BY <1>1, <2>1, ExcuseCounts
<1>4. page \in PageState /\ flows[h].reply.paper \in Nat
  BY FlowFields DEF PageTyped
<1> DEFINE holds == [page EXCEPT !.held = flows[h].reply.paper]
           again == [page EXCEPT !.begins = TRUE]
<1>5. /\ holds \in PageState /\ holds.held = flows[h].reply.paper /\ holds.begins = page.begins
      /\ holds.screen = page.screen /\ holds.box = page.box /\ holds.log = page.log
      /\ holds.told = page.told
  BY <1>4 DEF PageState
<1>6. /\ again \in PageState /\ again.held = page.held /\ again.begins
      /\ again.screen = page.screen /\ again.box = page.box /\ again.log = page.log
      /\ again.told = page.told
  BY <1>4 DEF PageState
<1>7. \/ /\ Ok(h) /\ page' = holds /\ saved' = (IF storing THEN flows[h].reply.paper ELSE saved)
         /\ Asks(h, "starting", holds)
      \/ ~Ok(h) /\ page' = again /\ saved' = saved /\ Ends(h)
  BY DEF Created, Reply, Remembered
<1>8. "starting" \in Points \ {"idle"}
  BY DEF Points
<1> HIDE DEF holds, again
<1>9. CASE Ok(h) /\ page' = holds /\ saved' = (IF storing THEN flows[h].reply.paper ELSE saved)
           /\ Asks(h, "starting", holds)
  <2>1. Goes(h) /\ flows'[h].at = "starting"
    BY <1>5, <1>8, <1>9, AsksGoes
  <2>2. QED
    BY <1>1, <1>2, <1>3, <1>5, <1>9, <2>1
<1>10. CASE ~Ok(h) /\ page' = again /\ saved' = saved /\ Ends(h)
  <2>1. Goes(h) /\ flows'[h].at = "idle"
    BY <1>10, EndsGoes
  <2>2. QED
    BY <1>1, <1>2, <1>3, <1>6, <1>10, <2>1
<1>11. QED
  BY <1>7, <1>9, <1>10

LEMMA NoneTaken ==
    ASSUME PageTyped, NEW a \in Papers, papers[a].answers = <<>>, NEW n \in Written
    PROVE  ~Over(a, n)
<1>1. {i \in DOMAIN papers[a].answers : papers[a].answers[i] = n} = {}
  OBVIOUS
<1>2. Times(a, n) = 0
  BY <1>1, FS_EmptySet DEF Times
<1>3. unsure[n] \in 0..Needed
  BY DEF PageTyped
<1>4. QED
  BY <1>2, <1>3 DEF Over

LEMMA CreatedKeeps ==
    ASSUME ClientAssumption, PageInvariant, NEW h \in Handlers, Created(h)
    PROVE  PageInvariant'
<1> USE DEF PageInvariant
<1>1. /\ flows[h].at = "creating" /\ h \notin Creates
      /\ UNCHANGED <<papers, storing, strays, written, cleared, unsure>>
      /\ overlaps' = (overlaps \/ Resuming # {})
      /\ excuses' \in 0..MaxPapers /\ excuses' >= excuses
      /\ page' \in PageState /\ Goes(h)
      /\ page'.screen = page.screen /\ page'.box = page.box /\ page'.log = page.log
      /\ page'.told = page.told
  BY CreatedShape
<1>2. \/ /\ flows[h].reply.is = "ok" /\ page'.held = flows[h].reply.paper
         /\ page'.begins = page.begins
         /\ saved' = IF storing THEN flows[h].reply.paper ELSE saved
         /\ flows'[h].at = "starting"
      \/ /\ page'.held = page.held /\ page'.begins /\ saved' = saved
         /\ flows'[h].at = "idle"
         /\ excuses' = MaxPapers \/ excuses' = excuses + 1
  BY CreatedShape
<1>3. flows[h].reply.is = "ok" =>
        /\ flows[h].reply.paper \in Papers
        /\ Untouched(flows[h].reply.paper) /\ flows[h].reply.paper \in Handed(h)
  BY <1>1 DEF RepliesTell, Tells, Unclaimed, Offers, Handed
<1>4. Proceeds(h) /\ Turns(h, flows'[h])
  BY <1>1, <1>2, <1>3, GoesProceeds DEF Handed, Goes
<1>5. Quiet(h)
  BY <1>1, <1>2, <1>4 DEF Quiet, Submitters
<1>6. overlaps' \in BOOLEAN
  BY <1>1 DEF PageTyped
<1>7. PageTyped' /\ PapersKept' /\ RepliesTell' /\ Unclaimed' /\ Boxed' /\ ClearedTaken'
      /\ Attempts' = Attempts
  BY <1>1, <1>2, <1>5, <1>6, QuietParts
<1>8. CASE /\ flows[h].reply.is = "ok" /\ page'.held = flows[h].reply.paper
           /\ page'.begins = page.begins
           /\ saved' = IF storing THEN flows[h].reply.paper ELSE saved
           /\ flows'[h].at = "starting"
  <2>1. h \in Beginning' /\ h \in Beginning
    BY <1>1, <1>8 DEF Beginning
  <2>2. Owed'
    <3>1. storing => saved' # None
      BY <1>3, <1>8, NoPaper
    <3>2. Open' => Open
      BY <1>1, <1>8, <2>1, <3>1 DEF Open
    <3>3. QED
      BY <1>1, <1>7, <3>2, OwedStays
  <2>3. Shut'
    BY <2>1 DEF Shut
  <2>4. HeldAsSaved'
    <3>1. Resuming' \subseteq Resuming
      BY <1>4, <1>8 DEF Resuming, Turns
    <3>2. QED
      BY <1>1, <1>8, <3>1 DEF HeldAsSaved
  <2>5. Counting'
    <3>1. \A a \in Papers, n \in Written : page'.held = a => ~Over(a, n)
      BY <1>3, <1>8, NoneTaken DEF Untouched
    <3>2. QED
      BY <1>5, <3>1, QuietHolds
  <2>6. ASSUME ~overlaps' PROVE Together'
    <3>1. Together /\ Resuming = {}
      BY <1>1, <2>6
    <3>2. page.screen = "code" /\ ~page.begins /\ Beginning = {h}
      BY <2>1, <3>1 DEF Together
    <3>3. Submitters = {}
      BY <3>2 DEF Boxed
    <3>4. Beginning' = {h}
      BY <1>4, <2>1, <3>2 DEF Beginning, Turns
    <3>5. \A g \in Handlers :
            flows[g].at \notin {"resuming", "restarting", "answering", "reconciling"}
      BY <3>1, <3>3 DEF Resuming, Submitters
    <3>6. flows'[h].paper = page'.held
      BY <1>1, <1>8 DEF Goes
    <3>7. IsAt(page'.told, {"submitted"})
      BY <1>1, <3>1 DEF Together
    <3>8. QED
      BY <1>1, <1>4, <1>8, <3>1, <3>2, <3>4, <3>5, <3>6, <3>7, TogetherStays
  <2>7. QED
    BY <1>7, <2>2, <2>3, <2>4, <2>5, <2>6
<1>9. CASE /\ page'.held = page.held /\ page'.begins /\ saved' = saved
           /\ flows'[h].at = "idle" /\ (excuses' = MaxPapers \/ excuses' = excuses + 1)
  <2>1. Owed' /\ Shut'
    BY <1>1, <1>7, <1>9, OwedStays DEF Shut
  <2>2. HeldAsSaved'
    BY <1>1, <1>4, <1>9, StoredStays
  <2>3. Counting'
    BY <1>1, <1>5, <1>9, QuietCounts
  <2>4. ASSUME ~overlaps' PROVE Together'
    <3>1. Together /\ h \in Beginning
      BY <1>1, <2>4 DEF Beginning
    <3>2. page.screen = "code" /\ Beginning = {h}
      BY <3>1 DEF Together
    <3>3. Beginning' = {}
      BY <1>4, <1>9, <3>2 DEF Beginning, Turns
    <3>4. IsAt(page'.told, {"submitted"})
      BY <1>1, <3>1 DEF Together
    <3>5. QED
      BY <1>1, <1>4, <1>9, <3>1, <3>2, <3>3, <3>4, TogetherStays
  <2>5. QED
    BY <1>7, <2>1, <2>2, <2>3, <2>4
<1>10. QED
  BY <1>2, <1>8, <1>9

LEMMA StartedShape ==
    ASSUME ClientAssumption, PageInvariant, NEW h \in Handlers, Started(h)
    PROVE  /\ flows[h].at = "starting" /\ h \notin Creates
           /\ UNCHANGED <<papers, saved, storing, strays, written, cleared, unsure, overlaps>>
           /\ excuses' \in 0..MaxPapers /\ excuses' >= excuses
           /\ page' \in PageState /\ Goes(h) /\ flows'[h].at = "idle"
           /\ page'.held = page.held /\ page'.box = page.box /\ page'.told = page.told
           /\ page'.begins
           /\ \/ flows[h].reply.is = "ok" /\ page'.screen = "chat" /\ page'.log = <<>>
              \/ /\ page'.screen = page.screen /\ page'.log = page.log
                 /\ excuses' = MaxPapers \/ excuses' = excuses + 1
<1> USE DEF PageInvariant
<1>1. /\ flows[h].at = "starting" /\ h \notin Creates
      /\ Ok(h) = (flows[h].reply.is = "ok") /\ Failing(h) = (flows[h].reply.is # "ok")
  BY RepliedShape DEF Started
<1>2. /\ UNCHANGED <<papers, saved, storing, strays, written, cleared, unsure, overlaps>>
      /\ Goes(h) /\ flows'[h].at = "idle"
  BY EndsGoes DEF Started
<1>3. /\ excuses' \in 0..MaxPapers /\ excuses' >= excuses
      /\ ~Ok(h) => excuses' = MaxPapers \/ excuses' = excuses + 1
  <2>1. Excuse(IF Failing(h) THEN 1 ELSE 0)
    BY DEF Started, Excused
  <2>2. QED
    BY <1>1, <2>1, ExcuseCounts
<1>4. page \in PageState /\ <<>> \in Seq(Written)
  BY DEF PageTyped
<1>5. CASE Ok(h)
  <2>1. page' = [Chat(page, <<>>) EXCEPT !.begins = TRUE]
    BY <1>5 DEF Started
  <2>2. /\ page' \in PageState /\ page'.held = page.held /\ page'.box = page.box
        /\ page'.told = page.told /\ page'.begins /\ page'.screen = "chat" /\ page'.log = <<>>
    BY <1>4, <2>1 DEF Chat, PageState
  <2>3. QED
    BY <1>1, <1>2, <1>3, <1>5, <2>2
<1>6. CASE ~Ok(h)
  <2>1. page' = [page EXCEPT !.begins = TRUE]
    BY <1>6 DEF Started
  <2>2. /\ page' \in PageState /\ page'.held = page.held /\ page'.box = page.box
        /\ page'.told = page.told /\ page'.begins /\ page'.screen = page.screen
        /\ page'.log = page.log
    BY <1>4, <2>1 DEF PageState
  <2>3. QED
    BY <1>1, <1>2, <1>3, <1>6, <2>2
<1>7. QED
  BY <1>5, <1>6

LEMMA StartedKeeps ==
    ASSUME ClientAssumption, PageInvariant, NEW h \in Handlers, Started(h)
    PROVE  PageInvariant'
<1> USE DEF PageInvariant
<1>1. /\ flows[h].at = "starting" /\ h \notin Creates
      /\ UNCHANGED <<papers, saved, storing, strays, written, cleared, unsure, overlaps>>
      /\ excuses' \in 0..MaxPapers /\ excuses' >= excuses
      /\ page' \in PageState /\ Goes(h) /\ flows'[h].at = "idle"
      /\ page'.held = page.held /\ page'.box = page.box /\ page'.told = page.told
      /\ page'.begins
  BY StartedShape
<1>2. \/ flows[h].reply.is = "ok" /\ page'.screen = "chat" /\ page'.log = <<>>
      \/ /\ page'.screen = page.screen /\ page'.log = page.log
         /\ excuses' = MaxPapers \/ excuses' = excuses + 1
  BY StartedShape
<1>3. Proceeds(h) /\ Turns(h, flows'[h])
  BY <1>1, GoesProceeds DEF Handed, Goes
<1>4. Quiet(h)
  BY <1>1, <1>2, <1>3 DEF Quiet, Submitters
<1>5. PageTyped' /\ PapersKept' /\ RepliesTell' /\ Unclaimed' /\ Boxed' /\ ClearedTaken'
      /\ Attempts' = Attempts
  BY <1>1, <1>4, QuietParts DEF PageTyped
<1>6. Owed'
  <2>1. (\A g \in Handlers : flows'[g].at # "creating") => \A g \in Handlers : flows[g].at # "creating"
    BY <1>1, <1>3 DEF Turns
  <2>2. page'.screen = "chat" => (Open' => Open)
    BY <1>1, <2>1 DEF Open
  <2>3. QED
    BY <1>1, <1>2, <1>5, <2>2, OwedStays
<1>7. Shut'
  BY <1>1 DEF Shut
<1>8. HeldAsSaved'
  BY <1>1, <1>3, StoredStays
<1>9. Counting'
  <2>1. CASE page'.screen = page.screen /\ page'.log = page.log
    BY <1>1, <1>4, <2>1, QuietCounts
  <2>2. CASE page'.screen = "chat"
    <3>1. /\ Papers' = Papers /\ (\A a, n : Over(a, n)' = Over(a, n)) /\ CountedOnce'
      BY <1>1, OverStays DEF Counting
    <3>2. \A g \in Submitters' : Submitted(g)'
      BY <1>1, <1>4, QuietSubmitted DEF Counting
    <3>3. Submitters' = Submitters
      BY <1>4, QuietSubmitters
    <3>4. \A a \in Papers, n \in Written : page.held = a /\ Over(a, n) =>
            /\ Submitters = {} => page.box # n
            /\ ~(page.box = None /\ written = n /\ n \notin cleared)
      BY <1>1 DEF Counting, Shows, Shown
    <3>5. Shows'
      BY <1>1, <3>1, <3>3, <3>4 DEF Shows
    <3>6. QED
      BY <3>1, <3>2, <3>5 DEF Counting
  <2>3. QED
    BY <1>2, <2>1, <2>2
<1>10. ASSUME ~overlaps' PROVE Together'
  <2>1. Together /\ h \in Beginning
    BY <1>1, <1>10 DEF Beginning
  <2>2. page.screen = "code" /\ Beginning = {h} /\ page.held = flows[h].paper
    BY <1>1, <2>1 DEF Together
  <2>3. Beginning' = {}
    BY <1>1, <1>3, <2>2 DEF Beginning, Turns
  <2>4. flows[h].reply.is = "ok" => IsAt(page'.held, {"in_progress", "submitted"})
    <3>1. flows[h].reply.is = "ok" =>
            flows[h].paper \in Papers /\ papers[flows[h].paper].status # "not_started"
      BY <1>1 DEF RepliesTell, Tells
    <3>2. QED
      BY <1>1, <2>2, <3>1, PaperFields DEF IsAt, Stati
  <2>5. IsAt(page'.told, {"submitted"})
    BY <1>1, <2>1 DEF Together
  <2>6. QED
    BY <1>1, <1>2, <1>3, <2>1, <2>2, <2>3, <2>4, <2>5, TogetherStays
<1>11. QED
  BY <1>5, <1>6, <1>7, <1>8, <1>9, <1>10

\* The report.
LEMMA ReportShown ==
    ASSUME PageTyped, NEW h \in Handlers, OpensReport(h)
    PROVE  /\ page' \in PageState /\ page'.screen = "report" /\ page'.held = page.held
           /\ page'.box = page.box /\ page'.log = page.log /\ page'.told = page.told
           /\ page'.begins = page.begins
           /\ Goes(h) /\ flows'[h].at = "reporting" /\ flows'[h].paper = page.held
<1>1. page \in PageState /\ "reporting" \in Points \ {"idle"}
  BY DEF PageTyped, Points
<1>2. page' = [page EXCEPT !.screen = "report"] /\ Asks(h, "reporting", page)
  BY DEF OpensReport
<1>3. /\ page' \in PageState /\ page'.screen = "report" /\ page'.held = page.held
      /\ page'.box = page.box /\ page'.log = page.log /\ page'.told = page.told
      /\ page'.begins = page.begins
  BY <1>1, <1>2 DEF PageState
<1>4. /\ Turns(h, flows'[h]) /\ flows'[h].at = "reporting" /\ flows'[h].paper = page.held
      /\ flows'[h].answer = page.box /\ flows'[h].conflict = flows[h].conflict
      /\ flows'[h].reply = NoReply /\ flows'[h].reply.is = "none"
  BY <1>1, <1>2, AsksTurns
<1>5. QED
  BY <1>3, <1>4 DEF Goes

LEMMA ReportKeeps ==
    ASSUME ClientAssumption, PageInvariant, NEW h \in Handlers, Report(h) \/ RefreshReport(h)
    PROVE  PageInvariant'
<1> USE DEF PageInvariant
<1>1. /\ flows[h].at = "reporting" \/ (flows[h].at = "idle" /\ page.screen = "report")
      /\ UNCHANGED <<papers, saved, storing, strays, written, cleared, unsure, excuses, overlaps>>
  BY DEF Report, RefreshReport, Replied
<1>2. /\ page' \in PageState /\ page'.held = page.held /\ page'.box = page.box
      /\ page'.log = page.log /\ page'.begins = page.begins /\ Goes(h)
      /\ \/ /\ flows[h].at = "reporting" /\ flows'[h].at = "idle" /\ page'.screen = page.screen
            /\ page'.told \in {page.told, flows[h].paper}
         \/ /\ flows'[h].at = "reporting" /\ page'.screen = "report" /\ page.screen = "report"
            /\ page'.told = page.told
  <2>1. CASE Report(h)
    <3>1. page \in PageState /\ flows[h].paper \in Nat
      BY FlowFields DEF PageTyped
    <3>2. page' = [page EXCEPT !.told = flows[h].paper] \/ page' = page
      BY <2>1 DEF Report
    <3>3. /\ page' \in PageState /\ page'.held = page.held /\ page'.box = page.box
          /\ page'.log = page.log /\ page'.begins = page.begins /\ page'.screen = page.screen
          /\ page'.told \in {page.told, flows[h].paper}
      BY <3>1, <3>2 DEF PageState
    <3>4. Goes(h) /\ flows'[h].at = "idle" /\ flows[h].at = "reporting"
      BY <2>1, EndsGoes DEF Report, Replied
    <3>5. QED
      BY <3>3, <3>4
  <2>2. CASE RefreshReport(h)
    <3>1. OpensReport(h) /\ page.screen = "report"
      BY <2>2 DEF RefreshReport
    <3>2. QED
      BY <3>1, ReportShown
  <2>3. QED
    BY <2>1, <2>2
<1>3. Proceeds(h) /\ Turns(h, flows'[h])
  BY <1>1, <1>2, GoesProceeds DEF Handed, Goes
<1>4. Quiet(h) /\ Apart(h) /\ h \notin Creates
  BY <1>1, <1>2, <1>3 DEF Quiet, Submitters, Apart, Creates
<1>5. PageTyped' /\ PapersKept' /\ RepliesTell' /\ Unclaimed' /\ Boxed' /\ ClearedTaken'
      /\ Attempts' = Attempts
  BY <1>1, <1>2, <1>4, QuietParts, SameExcuses DEF PageTyped
<1>6. Owed'
  <2>1. Open' => Open
    BY <1>1, <1>2, <1>4, ApartOpen
  <2>2. QED
    BY <1>1, <1>5, <2>1, SameExcuses, OwedStays
<1>7. Shut'
  BY <1>1, <1>2, <1>4, ApartShut
<1>8. HeldAsSaved'
  <2>1. page.screen = "report" => page # NewPage
    BY DEF NewPage
  <2>2. QED
    BY <1>1, <1>2, <1>3, <2>1, StoredStays
<1>9. Counting'
  BY <1>2, <1>4, QuietCounts
<1>10. ASSUME ~overlaps' PROVE Together'
  <2>1. Together /\ Beginning' = Beginning
    BY <1>1, <1>4, <1>10, ApartBeginning
  <2>2. \A g \in Beginning' : /\ page'.screen = "code" /\ ~page'.begins /\ Beginning' = {g}
                              /\ flows'[g].at = "starting" => page'.held = flows'[g].paper
    BY <1>2, <1>3, <1>4, <2>1 DEF Together, Beginning, Turns, Apart
  <2>3. /\ page'.screen # "code" => IsAt(page'.held, {"in_progress", "submitted"})
        /\ page'.screen = "report" => IsAt(page'.held, {"submitted"})
    BY <1>2, <2>1 DEF Together
  <2>4. IsAt(page'.told, {"submitted"})
    BY <1>1, <1>2, <2>1 DEF Together
  <2>5. flows'[h].at = "reporting" => IsAt(flows'[h].paper, {"submitted"})
    BY <1>2, <2>3 DEF Goes
  <2>6. QED
    BY <1>1, <1>2, <1>3, <2>1, <2>2, <2>3, <2>4, <2>5, TogetherStays
<1>11. QED
  BY <1>5, <1>6, <1>7, <1>8, <1>9, <1>10

\* Submitting an answer.
LEMMA SubmitKeeps ==
    ASSUME ClientAssumption, PageInvariant, NEW h \in Handlers, Submit(h)
    PROVE  PageInvariant'
<1> USE DEF PageInvariant
<1>1. /\ flows[h].at = "idle" /\ page.screen = "chat" /\ page.box # None /\ Submitters = {}
      /\ UNCHANGED <<papers, page, saved, storing, strays, written, cleared, unsure, excuses,
                     overlaps>>
  BY DEF Submit, Submitting
<1>2. /\ Turns(h, flows'[h]) /\ flows'[h].at = "answering" /\ flows'[h].paper = page.held
      /\ flows'[h].answer = page.box /\ flows'[h].reply = NoReply /\ flows'[h].reply.is = "none"
  <2>1. "answering" \in Points /\ page \in PageState
    BY DEF Points, PageTyped
  <2>2. QED
    BY <2>1, AsksTurns DEF Submit
<1>3. Proceeds(h) /\ Apart(h) /\ h \notin Creates
  BY <1>1, <1>2 DEF Proceeds, Handed, Apart, Creates
<1>4. PageTyped' /\ PapersKept' /\ RepliesTell' /\ Unclaimed' /\ ClearedTaken'
      /\ Attempts' = Attempts
  <2>1. /\ page' \in PageState /\ cleared' \subseteq Written /\ unsure' \in [Written -> 0..Needed]
        /\ overlaps' \in BOOLEAN
    BY <1>1 DEF PageTyped
  <2>2. QED
    BY <1>1, <1>2, <1>3, <2>1, SameExcuses, ProceedsTyped, ProceedsKnown, ProceedsTells,
       ProceedsUnclaimed, ClearedStays, ProceedsAttempts
<1>5. Submitters' = {h}
  BY <1>1, <1>2 DEF Submitters, Turns
<1>6. Boxed'
  <2>1. page' = page /\ written' = written /\ strays' = strays
    BY <1>1
  <2>2. QED
    BY <1>1, <1>2, <1>5, <2>1 DEF Boxed
<1>7. Owed'
  <2>1. Open' => Open
    BY <1>1, <1>3, ApartOpen
  <2>2. QED
    BY <1>1, <1>4, <2>1, SameExcuses, OwedStays
<1>8. Shut'
  BY <1>1, <1>2, <1>3, ApartShut
<1>9. HeldAsSaved'
  <2>1. page # NewPage
    BY <1>1 DEF NewPage
  <2>2. QED
    BY <1>1, <1>2, <2>1, StoredStays
<1>10. Counting'
  <2>1. /\ Papers' = Papers /\ (\A a, n : Over(a, n)' = Over(a, n)) /\ CountedOnce'
    BY <1>1, OverStays DEF Counting
  <2>2. \A a \in Papers, n \in Written : page.held = a /\ Over(a, n) => page.box # n
    BY <1>1 DEF Counting, Shows
  <2>3. Submitted(h)'
    BY <1>1, <1>2, <2>1, <2>2 DEF Submitted
  <2>4. Shows'
    BY <1>1, <1>5, <2>1 DEF Shows
  <2>5. QED
    BY <1>5, <2>1, <2>3, <2>4 DEF Counting
<1>11. ASSUME ~overlaps' PROVE Together'
  <2>1. Together /\ Beginning' = Beginning
    BY <1>1, <1>3, <1>11, ApartBeginning
  <2>2. Beginning' = {}
    BY <1>1, <2>1 DEF Together
  <2>3. page' = page
    BY <1>1
  <2>4. /\ page'.screen # "code" => IsAt(page'.held, {"in_progress", "submitted"})
        /\ page'.screen = "report" => IsAt(page'.held, {"submitted"})
        /\ IsAt(page'.told, {"submitted"})
    BY <2>1, <2>3 DEF Together
  <2>5. IsAt(flows'[h].paper, {"in_progress", "submitted"})
    BY <1>1, <1>2, <2>3, <2>4
  <2>6. QED
    BY <1>1, <1>2, <2>1, <2>2, <2>3, <2>4, <2>5, TogetherStays
<1>12. QED
  BY <1>4, <1>6, <1>7, <1>8, <1>9, <1>10, <1>11

LEMMA SubmitterAlone ==
    ASSUME PageTyped, Boxed, NEW h \in Submitters
    PROVE  /\ Submitters = {h} /\ flows[h].answer = page.box /\ page.box = written
           /\ page.box \in Written /\ page.screen # "code"
           /\ flows[h].at \in {"answering", "reconciling"} /\ h \in Handlers /\ h \notin Creates
<1>1. Submitters = {h} /\ flows[h].answer = page.box /\ page.box # None /\ page.box = written
  BY DEF Boxed
<1>2. page.box \in Written /\ page.screen # "code"
  BY <1>1, PageFields DEF Boxed, Written, None
<1>3. QED
  BY <1>1, <1>2 DEF Submitters, Creates

\* What all ways to leave off submitting an answer share.
LEMMA LeavingParts ==
    ASSUME ClientAssumption, PageInvariant, NEW h \in Submitters, Proceeds(h),
           page' \in PageState, page'.box \in {None, page.box}, page'.held = page.held,
           page'.begins = page.begins, page'.told = page.told,
           \/ page'.screen = page.screen /\ flows'[h].at = "idle"
           \/ page'.screen = "report" /\ flows'[h].at = "reporting" /\ flows'[h].paper = page.held
              /\ (~overlaps => IsAt(page.held, {"submitted"})),
           UNCHANGED <<saved, written, excuses, overlaps>>,
           cleared' \subseteq Written, unsure' \in [Written -> 0..Needed]
    PROVE  /\ PageTyped' /\ PapersKept' /\ RepliesTell' /\ Unclaimed' /\ Owed' /\ Shut' /\ HeldAsSaved'
           /\ Boxed' /\ Submitters' = {} /\ (~overlaps' => Together')
<1> USE DEF PageInvariant
<1>1. /\ Submitters = {h} /\ page.screen # "code" /\ h \in Handlers /\ h \notin Creates
      /\ flows[h].at \in {"answering", "reconciling"}
  BY SubmitterAlone
<1>2. /\ papers' = papers /\ strays' = strays /\ storing' = storing /\ Turns(h, flows'[h])
  BY DEF Proceeds
<1>3. Apart(h)
  BY <1>1, <1>2 DEF Apart
<1>4. PageTyped' /\ PapersKept' /\ RepliesTell' /\ Unclaimed'
  BY <1>1, SameExcuses, ProceedsTyped, ProceedsKnown, ProceedsTells, ProceedsUnclaimed
     DEF PageTyped
<1>5. Owed'
  <2>1. Open' => Open
    BY <1>1, <1>2, <1>3, ApartOpen
  <2>2. Attempts' = Attempts
    BY <1>1, ProceedsAttempts
  <2>3. QED
    BY <2>1, <2>2, SameExcuses, OwedStays
<1>6. Shut'
  BY <1>1, <1>3, ApartShut
<1>7. HeldAsSaved'
  BY <1>1, <1>2, StoredStays
<1>8. Submitters' = {}
  BY <1>1, <1>2 DEF Submitters, Turns
<1>9. Boxed'
  BY <1>1, <1>2, <1>8 DEF Boxed
<1>10. ASSUME ~overlaps' PROVE Together'
  <2>1. Together /\ Beginning' = Beginning
    BY <1>1, <1>3, <1>10, ApartBeginning
  <2>2. Beginning' = {}
    BY <1>1, <2>1 DEF Together
  <2>3. /\ page'.screen # "code" => IsAt(page'.held, {"in_progress", "submitted"})
        /\ page'.screen = "report" => IsAt(page'.held, {"submitted"})
        /\ IsAt(page'.told, {"submitted"})
        /\ flows'[h].at = "reporting" => IsAt(flows'[h].paper, {"submitted"})
    BY <1>1, <1>10, <2>1 DEF Together, IsAt
  <2>4. QED
    BY <1>1, <1>2, <2>1, <2>2, <2>3, TogetherStays
<1>11. QED
  BY <1>4, <1>5, <1>6, <1>7, <1>8, <1>9, <1>10

\* The answer was taken.
LEMMA TakesKeeps ==
    ASSUME ClientAssumption, PageInvariant, NEW h \in Submitters, flows[h].reply.is = "ok",
           NEW log \in Seq(Written), Takes(h, log),
           UNCHANGED <<papers, saved, storing, strays, written, unsure, excuses, overlaps>>,
           \A n \in Written : flows[h].answer = n => Repeats(n) \/ Taken(n)
    PROVE  PageInvariant'
<1> USE DEF PageInvariant
<1>1. /\ Submitters = {h} /\ flows[h].answer = page.box /\ page.box = written
      /\ page.box \in Written /\ h \in Handlers /\ flows[h].at \in {"answering", "reconciling"}
  BY SubmitterAlone
<1>2. page \in PageState /\ 0 \in 0..Len(Text) /\ "reporting" \in Points
  BY DEF PageTyped, Points
<1> DEFINE report == [page EXCEPT !.box = None, !.log = log, !.screen = "report"]
           emptied == [page EXCEPT !.box = None, !.log = log]
<1>3. /\ report \in PageState /\ report.box = None /\ report.held = page.held
      /\ report.begins = page.begins /\ report.told = page.told /\ report.screen = "report"
  BY <1>2 DEF PageState, None
<1>4. /\ emptied \in PageState /\ emptied.box = None /\ emptied.held = page.held
      /\ emptied.begins = page.begins /\ emptied.told = page.told /\ emptied.screen = page.screen
  BY <1>2 DEF PageState, None
<1>5. \/ flows[h].reply.status = "submitted" /\ page' = report /\ Asks(h, "reporting", page)
      \/ page' = emptied /\ Ends(h)
  BY DEF Takes, Reply
<1> HIDE DEF report, emptied
<1>6. /\ page' \in PageState /\ page'.box = None /\ page'.held = page.held
      /\ page'.begins = page.begins /\ page'.told = page.told
  BY <1>3, <1>4, <1>5
<1>7. /\ Turns(h, flows'[h]) /\ flows'[h].reply = NoReply /\ flows'[h].reply.is = "none"
      /\ \/ page'.screen = page.screen /\ flows'[h].at = "idle" /\ flows'[h].paper = None
         \/ /\ page'.screen = "report" /\ flows'[h].at = "reporting"
            /\ flows'[h].paper = page.held /\ flows[h].reply.status = "submitted"
  BY <1>1, <1>2, <1>3, <1>4, <1>5, AsksTurns, EndsTurns
<1>8. Proceeds(h)
  BY <1>6, <1>7 DEF Proceeds, Handed
<1>9. ~overlaps /\ flows[h].reply.status = "submitted" => IsAt(page.held, {"submitted"})
  BY <1>1 DEF Together, RepliesTell, Tells, IsAt
<1>10. cleared' = cleared \cup {flows[h].answer}
  BY DEF Takes
<1>11. cleared' \subseteq Written /\ unsure' \in [Written -> 0..Needed]
  BY <1>1, <1>10 DEF PageTyped
<1>12. /\ PageTyped' /\ PapersKept' /\ RepliesTell' /\ Unclaimed' /\ Owed' /\ Shut' /\ HeldAsSaved'
       /\ Boxed' /\ Submitters' = {} /\ (~overlaps' => Together')
  BY <1>6, <1>7, <1>8, <1>9, <1>11, LeavingParts
<1>13. Counting'
  <2>1. /\ Papers' = Papers /\ (\A a, n : Over(a, n)' = Over(a, n)) /\ CountedOnce'
    BY OverStays DEF Counting
  <2>2. written' \in cleared'
    BY <1>1, <1>10
  <2>3. \A n \in Written : n # None
    BY DEF Written, None
  <2>4. Shows'
    BY <1>6, <2>2, <2>3 DEF Shows
  <2>5. QED
    BY <1>12, <2>1, <2>4 DEF Counting
<1>14. ClearedTaken'
  <2>1. \A n \in cleared' : Repeats(n) \/ Taken(n)
    BY <1>1, <1>10 DEF ClearedTaken
  <2>2. QED
    BY <2>1 DEF ClearedTaken, Taken, Papers
<1>15. QED
  BY <1>12, <1>13, <1>14

LEMMA TimesBound ==
    ASSUME PageTyped, NEW a \in Papers, NEW n
    PROVE  Times(a, n) \in Nat /\ Times(a, n) <= Len(papers[a].answers)
<1> DEFINE list == papers[a].answers
           all == 1..Len(list)
           found == {i \in DOMAIN list : list[i] = n}
<1>1. list \in Seq(Written)
  BY PaperFields
<1>2. Len(list) \in Nat /\ Len(list) \in Int /\ 1 \in Int /\ found \in SUBSET all
  BY <1>1
<1>3. IsFiniteSet(all) /\ Cardinality(all) = IF 1 > Len(list) THEN 0 ELSE Len(list) - 1 + 1
  BY <1>2, FS_Interval
<1>4. Times(a, n) = Cardinality(found)
  BY DEF Times
<1> HIDE DEF list, all, found
<1>5. Cardinality(all) = Len(list)
  BY <1>2, <1>3
<1>6. IsFiniteSet(found) /\ Cardinality(found) <= Cardinality(all)
  BY <1>2, <1>3, FS_Subset
<1>7. Cardinality(found) \in Nat
  BY <1>6, FS_CardinalityType
<1>8. QED
  BY <1>4, <1>5, <1>6, <1>7 DEF list

\* A learner who gave up may submit the answer again: it was not counted.
LEMMA LeavesKeeps ==
    ASSUME ClientAssumption, PageInvariant, NEW h \in Submitters,
           UNCHANGED <<papers, saved, storing, strays, written, cleared, excuses, overlaps>>,
           OpensReport(h) \/ (page' = page /\ Ends(h)),
           OpensReport(h) /\ ~overlaps => IsAt(page.held, {"submitted"}),
           unsure' \in [Written -> 0..Needed], \A n \in Written : unsure'[n] >= unsure[n],
           \A a \in Papers, n \in Written :
               page.held = a /\ flows[h].answer = n => Times(a, n) <= unsure'[n]
    PROVE  PageInvariant'
<1> USE DEF PageInvariant
<1>1. /\ Submitters = {h} /\ flows[h].answer = page.box /\ page.box \in Written /\ h \in Handlers
  BY SubmitterAlone
<1>2. page \in PageState /\ cleared' \subseteq Written
  BY DEF PageTyped
<1>3. /\ page' \in PageState /\ page'.box = page.box /\ page'.held = page.held
      /\ page'.begins = page.begins /\ page'.told = page.told
      /\ Turns(h, flows'[h]) /\ flows'[h].reply = NoReply /\ flows'[h].reply.is = "none"
      /\ \/ page'.screen = page.screen /\ flows'[h].at = "idle" /\ flows'[h].paper = None
         \/ /\ page'.screen = "report" /\ flows'[h].at = "reporting" /\ flows'[h].paper = page.held
            /\ ~overlaps => IsAt(page.held, {"submitted"})
  BY <1>1, <1>2, ReportShown, EndsTurns DEF Goes
<1>4. Proceeds(h)
  BY <1>3 DEF Proceeds, Handed
<1>5. /\ PageTyped' /\ PapersKept' /\ RepliesTell' /\ Unclaimed' /\ Owed' /\ Shut' /\ HeldAsSaved'
      /\ Boxed' /\ Submitters' = {} /\ (~overlaps' => Together')
  BY <1>2, <1>3, <1>4, LeavingParts
<1>6. Counting'
  <2>1. Papers' = Papers /\ \A a, n : Times(a, n)' = Times(a, n)
    BY TimesStay
  <2>2. \A a \in Papers, n \in Written : Times(a, n) \in Nat
    BY TimesBound
  <2>3. \A n \in Written : unsure[n] \in Nat /\ unsure'[n] \in Nat
    BY DEF PageTyped
  <2>4. CountedOnce'
    <3>1. \A a \in Papers, n \in Written : Times(a, n) <= 1 + unsure'[n]
      BY <2>2, <2>3 DEF Counting, CountedOnce
    <3>2. QED
      BY <2>1, <3>1 DEF CountedOnce
  <2>5. ASSUME NEW a \in Papers, NEW n \in Written, page.held = a, Over(a, n)'
        PROVE  page'.box # n /\ page'.box # None
    <3>1. ~(Times(a, n) <= unsure'[n])
      BY <2>1, <2>2, <2>3, <2>5 DEF Over
    <3>2. QED
      BY <1>1, <1>3, <2>5, <3>1 DEF Written, None
  <2>6. Shows'
    BY <1>3, <2>1, <2>5 DEF Shows
  <2>7. QED
    BY <1>5, <2>4, <2>6 DEF Counting
<1>7. ClearedTaken'
  BY ClearedStays
<1>8. QED
  BY <1>5, <1>6, <1>7

LEMMA AnswerTakenKeeps ==
    ASSUME ClientAssumption, PageInvariant, NEW h \in Handlers, AnswerTaken(h)
    PROVE  PageInvariant'
<1> USE DEF PageInvariant
<1>1. /\ flows[h].at = "answering" /\ flows[h].reply.is = "ok"
      /\ Takes(h, Append(page.log, flows[h].answer))
      /\ UNCHANGED <<papers, saved, storing, strays, written, unsure, excuses, overlaps>>
  BY DEF AnswerTaken, Replied, Ok, Reply
<1>2. h \in Submitters
  BY <1>1 DEF Submitters
<1>3. flows[h].answer \in Written /\ page.log \in Seq(Written)
  BY <1>2, SubmitterAlone, PageFields
<1>4. Append(page.log, flows[h].answer) \in Seq(Written)
  BY <1>3
<1>5. \A n \in Written : flows[h].answer = n => Taken(n)
  BY <1>1 DEF RepliesTell, Tells
<1>6. QED
  BY <1>1, <1>2, <1>4, <1>5, TakesKeeps

LEMMA ReconcileKeeps ==
    ASSUME ClientAssumption, PageInvariant, NEW h \in Handlers, Reconcile(h)
    PROVE  PageInvariant'
<1> USE DEF PageInvariant
<1>1. /\ flows[h].at = "reconciling" /\ Ok(h) = (flows[h].reply.is = "ok")
      /\ UNCHANGED <<papers, saved, storing, strays, written, excuses, overlaps>>
  BY RepliedShape DEF Reconcile
<1>2. h \in Submitters
  BY <1>1 DEF Submitters
<1>3. /\ flows[h].answer \in Written /\ flows[h].answer = written
      /\ flows[h].reply.answers \in Seq(Written)
  BY <1>2, SubmitterAlone, FlowFields
<1>4. CASE Ok(h) /\ Included(Reply(h).answers, flows[h].answer)
  <2>1. Takes(h, flows[h].reply.answers) /\ unsure' = unsure
    BY <1>4 DEF Reconcile, Reply
  <2> DEFINE list == flows[h].reply.answers
             m == list[Len(list)]
  <2>2. list # <<>> /\ Text[m] = Text[flows[h].answer]
    BY <1>4 DEF Included, Reply
  <2>3. Has(list, m) /\ m \in Written
    BY <1>3, <2>2 DEF Has
  <2>4. Taken(m)
    BY <1>1, <1>4, <2>3 DEF RepliesTell, Tells
  <2>5. m <= written
    BY <2>4 DEF Taken, Has, PapersKept
  <2>6. m = flows[h].answer \/ m \in 1..(flows[h].answer - 1)
    BY <1>3, <2>3, <2>5 DEF Written
  <2>7. Repeats(flows[h].answer) \/ Taken(flows[h].answer)
    BY <2>2, <2>4, <2>6 DEF Repeats
  <2>8. QED
    BY <1>1, <1>2, <1>3, <1>4, <2>1, <2>7, TakesKeeps
<1>5. CASE ~(Ok(h) /\ Included(Reply(h).answers, flows[h].answer))
  <2>1. /\ IF flows[h].conflict THEN OpensReport(h) ELSE page' = page /\ Ends(h)
        /\ IF Ok(h) THEN unsure' = unsure ELSE Doubt({flows[h].answer})
        /\ cleared' = cleared
    BY <1>5 DEF Reconcile
  <2>2. OpensReport(h) \/ (page' = page /\ Ends(h))
    BY <2>1
  <2>3. ~flows[h].conflict \/ (~overlaps => IsAt(page.held, {"submitted"}))
    BY <1>1 DEF Together, IsAt
  <2>4. /\ unsure' \in [Written -> 0..Needed] /\ \A n \in Written : unsure'[n] >= unsure[n]
        /\ ~Ok(h) => unsure'[flows[h].answer] \in {Needed, unsure[flows[h].answer] + 1}
    <3>1. CASE Ok(h)
      BY <2>1, <3>1 DEF PageTyped
    <3>2. CASE ~Ok(h)
      <4>1. /\ unsure' \in [Written -> 0..Needed]
            /\ \A n \in Written : n \notin {flows[h].answer} => unsure'[n] = unsure[n]
            /\ \A n \in {flows[h].answer} \cap Written :
                 unsure'[n] = Needed \/ unsure'[n] = unsure[n] + 1
        BY <2>1, <3>2, DoubtCounts
      <4>2. \A n \in Written : unsure[n] \in 0..Needed
        BY DEF PageTyped
      <4>3. \A n \in Written : unsure'[n] >= unsure[n]
        BY <4>1, <4>2
      <4>4. QED
        BY <1>3, <4>1, <4>3
    <3>3. QED
      BY <3>1, <3>2
  <2>5. ASSUME NEW a \in Papers, NEW n \in Written, page.held = a, flows[h].answer = n
        PROVE  Times(a, n) <= unsure'[n]
    <3>1. Times(a, n) \in Nat /\ Times(a, n) <= Needed /\ unsure[n] \in Nat
      <4>1. Len(papers[a].answers) <= Needed /\ Len(papers[a].answers) \in Nat
        BY PaperFields DEF PapersKept
      <4>2. Times(a, n) \in Nat /\ Times(a, n) <= Len(papers[a].answers)
        BY TimesBound
      <4>3. QED
        BY <4>1, <4>2 DEF PageTyped, ClientAssumption
    <3>2. Times(a, n) <= 1 + unsure[n]
      BY DEF Counting, CountedOnce
    <3>3. CASE Ok(h)
      <4>1. ~Included(flows[h].reply.answers, n)
        BY <1>5, <2>5, <3>3 DEF Reply
      <4>2. ~Over(a, n)
        BY <1>1, <1>2, <2>5, <3>3, <4>1 DEF Counting, Submitted
      <4>3. QED
        BY <2>1, <3>1, <3>3, <4>2 DEF Over
    <3>4. CASE ~Ok(h)
      BY <2>4, <2>5, <3>1, <3>2, <3>4
    <3>5. QED
      BY <3>3, <3>4
  <2>6. flows[h].conflict \/ (page' = page /\ Ends(h))
    BY <2>1
  <2>7. CASE flows[h].conflict
    BY <1>1, <1>2, <2>1, <2>2, <2>3, <2>4, <2>5, <2>7, LeavesKeeps
  <2>8. CASE ~flows[h].conflict
    <3>1. OpensReport(h) /\ ~overlaps => IsAt(page.held, {"submitted"})
      <4>1. page' = page /\ Ends(h)
        BY <2>1, <2>8
      <4>2. OpensReport(h) => flows'[h].at = "reporting"
        BY ReportShown
      <4>3. flows'[h].at = "idle"
        BY <4>1, EndsTurns
      <4>4. QED
        BY <4>2, <4>3
    <3>2. QED
      BY <1>1, <1>2, <2>1, <2>2, <2>4, <2>5, <3>1, LeavesKeeps
  <2>9. QED
    BY <2>7, <2>8
<1>6. QED
  BY <1>4, <1>5

LEMMA AnswerFailedShape ==
    ASSUME PageTyped, NEW h \in Handlers, AnswerFailed(h)
    PROVE  /\ Turns(h, flows'[h]) /\ flows'[h].at = "reconciling" /\ flows'[h].paper = page.held
           /\ flows'[h].answer = flows[h].answer
           /\ flows'[h].conflict = (flows[h].reply.is = "conflict")
           /\ flows'[h].reply = NoReply /\ flows'[h].reply.is = "none"
<1> DEFINE conflict == flows[h].reply.is = "conflict"
           flow == [flows[h] EXCEPT !.at = "reconciling", !.paper = page.held,
                        !.conflict = conflict, !.reply = NoReply]
<1>1. conflict \in BOOLEAN
  OBVIOUS
<1>2. flows' = [flows EXCEPT ![h] = [flows[h] EXCEPT !.at = "reconciling", !.paper = page.held,
                        !.conflict = conflict, !.reply = NoReply]]
  BY DEF AnswerFailed, Reply, PageTyped
<1> HIDE DEF conflict
<1>3. flows[h] \in Flow /\ page.held \in Nat /\ "reconciling" \in Points
  BY FlowFields, PageFields DEF Points
<1>4. /\ flow \in Flow /\ flow.at = "reconciling" /\ flow.paper = page.held
      /\ flow.answer = flows[h].answer /\ flow.conflict = conflict /\ flow.reply = NoReply
  BY <1>1, <1>3, EmptyReply DEF Flow
<1>5. flows' = [flows EXCEPT ![h] = flow]
  BY <1>2
<1> HIDE DEF flow
<1>6. Turns(h, flow)
  BY <1>4, <1>5, TurnedFlows
<1>7. flows'[h] = flow
  BY <1>6 DEF Turns
<1>8. QED
  BY <1>4, <1>6, <1>7, EmptyReply DEF conflict

LEMMA AnswerFailedKeeps ==
    ASSUME ClientAssumption, PageInvariant, NEW h \in Handlers, AnswerFailed(h)
    PROVE  PageInvariant'
<1> USE DEF PageInvariant
<1>1. /\ flows[h].at = "answering" /\ h \in Submitters
      /\ UNCHANGED <<papers, page, saved, storing, strays, written, cleared, unsure, excuses,
                     overlaps>>
  BY DEF AnswerFailed, Replied, Submitters
<1>2. /\ Turns(h, flows'[h]) /\ flows'[h].at = "reconciling" /\ flows'[h].paper = page.held
      /\ flows'[h].answer = flows[h].answer
      /\ flows'[h].conflict = (flows[h].reply.is = "conflict")
      /\ flows'[h].reply = NoReply /\ flows'[h].reply.is = "none"
  BY AnswerFailedShape
<1>3. Proceeds(h) /\ Apart(h) /\ h \notin Creates
  BY <1>1, <1>2 DEF Proceeds, Handed, Apart, Creates
<1>4. PageTyped' /\ PapersKept' /\ RepliesTell' /\ Unclaimed' /\ ClearedTaken'
      /\ Attempts' = Attempts
  <2>1. /\ page' \in PageState /\ cleared' \subseteq Written /\ unsure' \in [Written -> 0..Needed]
        /\ overlaps' \in BOOLEAN
    BY <1>1 DEF PageTyped
  <2>2. QED
    BY <1>1, <1>2, <1>3, <2>1, SameExcuses, ProceedsTyped, ProceedsKnown, ProceedsTells,
       ProceedsUnclaimed, ClearedStays, ProceedsAttempts
<1>5. /\ Submitters = {h} /\ flows[h].answer = page.box /\ page.box = written
      /\ page.box \in Written /\ page.screen # "code"
  BY <1>1, SubmitterAlone
<1>6. Submitters' = {h}
  BY <1>1, <1>2, <1>5 DEF Submitters, Turns
<1>7. Boxed'
  <2>1. page' = page /\ written' = written /\ strays' = strays /\ page.box # None
    BY <1>1, <1>5 DEF Written, None
  <2>2. QED
    BY <1>2, <1>5, <1>6, <2>1 DEF Boxed
<1>8. Owed'
  <2>1. Open' => Open
    BY <1>1, <1>3, ApartOpen
  <2>2. QED
    BY <1>1, <1>4, <2>1, SameExcuses, OwedStays
<1>9. Shut'
  BY <1>1, <1>2, <1>3, ApartShut
<1>10. HeldAsSaved'
  BY <1>1, <1>2, StoredStays
<1>11. Counting'
  <2>1. /\ Papers' = Papers /\ (\A a, n : Over(a, n)' = Over(a, n)) /\ CountedOnce'
    BY <1>1, OverStays DEF Counting
  <2>2. \A a \in Papers, n \in Written : flows[h].answer = n /\ Over(a, n) /\ page.held = a =>
          Closes(papers[a].answers, n)
    BY <1>1 DEF Counting, Submitted
  <2>3. Submitted(h)'
    BY <1>1, <1>2, <2>1, <2>2 DEF Submitted, Closes
  <2>4. Shows'
    BY <1>1, <1>5, <1>6, <2>1 DEF Shows, Written, None
  <2>5. QED
    BY <1>6, <2>1, <2>3, <2>4 DEF Counting
<1>12. ASSUME ~overlaps' PROVE Together'
  <2>1. Together /\ Beginning' = Beginning
    BY <1>1, <1>3, <1>12, ApartBeginning
  <2>2. Beginning' = {}
    BY <1>5, <2>1 DEF Together
  <2>3. page' = page
    BY <1>1
  <2>4. /\ page'.screen # "code" => IsAt(page'.held, {"in_progress", "submitted"})
        /\ page'.screen = "report" => IsAt(page'.held, {"submitted"})
        /\ IsAt(page'.told, {"submitted"})
    BY <2>1, <2>3 DEF Together
  <2>5. flows'[h].conflict => IsAt(flows'[h].paper, {"submitted"})
    <3>1. page.held \in {None, flows[h].paper}
      BY <1>1, <2>1 DEF Together, Submitters
    <3>2. flows[h].reply.is = "conflict" => IsAt(flows[h].paper, {"submitted"})
      BY <1>1, <2>1 DEF Together, Submitters
    <3>3. flows'[h].conflict => IsAt(page.held, {"submitted"})
      BY <1>2, <3>1, <3>2 DEF IsAt
    <3>4. QED
      BY <1>2, <3>3
  <2>6. /\ Turns(h, flows'[h]) /\ papers' = papers /\ flows'[h].at = "reconciling"
        /\ page'.held = page.held /\ page'.held \in {None, flows'[h].paper}
    BY <1>1, <1>2, <2>3
  <2>7. QED
    BY <2>1, <2>2, <2>4, <2>5, <2>6, TogetherStays
<1>13. QED
  BY <1>4, <1>7, <1>8, <1>9, <1>10, <1>11, <1>12

\* Writing an answer: the last one is written again only when it was not counted.
LEMMA WriteKeeps ==
    ASSUME ClientAssumption, PageInvariant, Write
    PROVE  PageInvariant'
<1> USE DEF PageInvariant
<1>1. /\ page.screen = "chat" /\ page.box = None /\ Submitters = {}
      /\ UNCHANGED <<papers, saved, storing, flows, strays, cleared, unsure, excuses, overlaps>>
  BY DEF Write, Submitting
<1>2. PICK n \in {written, written + 1} \cap Written :
         /\ n = written => n \notin cleared /\ \A i \in DOMAIN page.log : page.log[i] # n
         /\ page' = [page EXCEPT !.box = n] /\ written' = n
  BY DEF Write
<1>3. n \in Written /\ n \in 0..Len(Text) /\ n # None /\ written \in 0..Len(Text) /\ n >= written
  BY DEF PageTyped, Written, None
<1>4. /\ page' \in PageState /\ page'.box = n /\ page'.held = page.held
      /\ page'.begins = page.begins /\ page'.told = page.told /\ page'.screen = page.screen
  BY <1>2, <1>3 DEF PageState, PageTyped
<1>5. PageTyped'
  BY <1>1, <1>2, <1>3, <1>4 DEF PageTyped
<1>6. PapersKept'
  <2>1. \A a \in Papers : \A i \in DOMAIN papers[a].answers : papers[a].answers[i] <= n
    <3>1. ASSUME NEW a \in Papers, NEW i \in DOMAIN papers[a].answers
          PROVE  papers[a].answers[i] <= n
      <4>1. papers[a].answers[i] \in Written
        BY PaperFields
      <4>2. papers[a].answers[i] <= written
        BY DEF PapersKept
      <4>3. QED
        BY <1>3, <4>1, <4>2 DEF Written
    <3>2. QED
      BY <3>1
  <2>2. QED
    BY <1>1, <1>2, <1>4, <2>1 DEF PapersKept, Known, Papers
<1>7. RepliesTell'
  BY <1>1 DEF RepliesTell, Tells, Taken, Papers
<1>8. Unclaimed'
  BY <1>1, <1>4 DEF Unclaimed, Untouched, Offers, Papers
<1>9. Owed' /\ Shut' /\ HeldAsSaved' /\ ClearedTaken'
  <2>1. Attempts' = Attempts /\ Open' = Open /\ Beginning' = Beginning /\ Resuming' = Resuming
    BY <1>1, <1>4 DEF Attempts, Creates, Pending, Open, Beginning, Resuming
  <2>2. page # NewPage
    BY <1>1 DEF NewPage
  <2>3. Owed'
    BY <1>1, <2>1 DEF Owed
  <2>4. QED
    BY <1>1, <1>4, <2>1, <2>2, <2>3, ClearedStays DEF Shut, HeldAsSaved
<1>10. Submitters' = {}
  BY <1>1 DEF Submitters
<1>11. Boxed'
  <2>1. \A s \in strays : s.flow.at = "answering" => s.flow.answer \in 1..n
    BY <1>3 DEF Boxed
  <2>2. QED
    BY <1>1, <1>2, <1>4, <1>10, <2>1 DEF Boxed
<1>12. Counting'
  <2>1. /\ Papers' = Papers /\ (\A a, m : Over(a, m)' = Over(a, m)) /\ CountedOnce'
    BY <1>1, OverStays DEF Counting
  <2>2. ASSUME NEW a \in Papers, page.held = a, Over(a, n) PROVE FALSE
    <3>1. CASE n = written
      <4>1. Shown(a, n)
        BY <1>1, <1>2, <1>3, <2>2, <3>1 DEF Counting, Shows
      <4>2. QED
        BY <1>1, <1>2, <3>1, <4>1 DEF Shown, Has
    <3>2. CASE n # written
      <4>1. n > written
        BY <1>3, <3>2
      <4>2. \A i \in DOMAIN papers[a].answers : papers[a].answers[i] # n
        <5>1. \A i \in DOMAIN papers[a].answers : papers[a].answers[i] <= written
          BY DEF PapersKept
        <5>2. QED
          BY <1>3, <4>1, <5>1
      <4>3. {i \in DOMAIN papers[a].answers : papers[a].answers[i] = n} = {}
        BY <4>2
      <4>4. Times(a, n) = 0
        BY <4>3, FS_EmptySet DEF Times
      <4>5. unsure[n] \in 0..Needed
        BY <1>3 DEF PageTyped
      <4>6. QED
        BY <2>2, <4>4, <4>5 DEF Over
    <3>3. QED
      BY <3>1, <3>2
  <2>3. Shows'
    BY <1>3, <1>4, <2>1, <2>2 DEF Shows
  <2>4. QED
    BY <1>10, <2>1, <2>3 DEF Counting
<1>13. ASSUME ~overlaps' PROVE Together'
  BY <1>1, <1>4, <1>13 DEF Together, Beginning, IsAt
<1>14. QED
  BY <1>5, <1>6, <1>7, <1>8, <1>9, <1>11, <1>12, <1>13

\* The network: requests the page gave up on.
LEMMA StrayShape ==
    ASSUME NEW h \in Handlers, NEW nr
    PROVE  /\ \A s \in Stray(h, nr) :
                 /\ s = [flow |-> flows[h], nr |-> nr] /\ s.flow = flows[h]
                 /\ flows[h].reply = NoReply
                 /\ flows[h].at \in {"creating", "starting", "restarting", "answering"}
           /\ IsFiniteSet(Stray(h, nr))
<1>1. Stray(h, nr) \in {{[flow |-> flows[h], nr |-> nr]}, {}}
  BY DEF Stray
<1>2. IsFiniteSet(Stray(h, nr))
  <2>1. CASE Stray(h, nr) = {}
    BY <2>1, FS_EmptySet
  <2>2. CASE Stray(h, nr) = {[flow |-> flows[h], nr |-> nr]}
    <3>1. \A x : IsFiniteSet({x})
      BY FS_Singleton
    <3>2. QED
      BY <2>2, <3>1
  <2>3. QED
    BY <1>1, <2>1, <2>2
<1>3. QED
  BY <1>2 DEF Stray, Waiting

LEMMA FewerOwed ==
    ASSUME NEW a \in Nat, NEW b \in Nat, NEW e \in Nat, NEW p \in {0, 1}, b <= a, a + p <= 1 + e
    PROVE  b + p <= 1 + e
OBVIOUS

LEMMA FewerAttempts ==
    ASSUME NEW l \in Nat, NEW c \in Nat, NEW p \in Nat, NEW d \in Nat, NEW q \in Nat,
           d + q <= c + p
    PROVE  l + d + q \in Nat /\ l + d + q <= l + c + p
OBVIOUS

LEMMA OwedLess ==
    ASSUME ClientAssumption, PageTyped, Owed, Attempts' \in Nat, Attempts' <= Attempts,
           excuses' \in 0..MaxPapers, excuses' >= excuses,
           \/ excuses' = MaxPapers
           \/ excuses' = excuses + 1
           \/ Open' => Open
    PROVE  Owed'
<1>1. Attempts \in Nat /\ excuses \in 0..MaxPapers /\ MaxPapers \in Nat
  BY RequestsFinite DEF PageTyped, ClientAssumption
<1> DEFINE open == IF Open THEN 1 ELSE 0
           opens == IF Open' THEN 1 ELSE 0
<1>2. open \in {0, 1} /\ opens \in {0, 1} /\ ((Open' => Open) => opens <= open)
  OBVIOUS
<1>3. Owed = (excuses = MaxPapers \/ Attempts + open <= 1 + excuses)
  BY DEF Owed
<1>4. Owed' = (excuses' = MaxPapers \/ Attempts' + opens <= 1 + excuses')
  BY DEF Owed
<1> HIDE DEF open, opens
<1>5. excuses = MaxPapers => excuses' = MaxPapers
  BY <1>1
<1>6. Attempts + open <= 1 + excuses =>
        excuses' = MaxPapers \/ Attempts + opens <= 1 + excuses'
  BY <1>1, <1>2, OwedSum, excuses \in Nat, excuses' \in Nat
<1>7. Attempts + opens <= 1 + excuses' => Attempts' + opens <= 1 + excuses'
  BY <1>1, <1>2, FewerOwed, excuses' \in Nat
<1>8. QED
  BY <1>3, <1>4, <1>5, <1>6, <1>7

LEMMA FailsShape ==
    ASSUME PageTyped, NEW h \in Handlers, Fails(h)
    PROVE  /\ UNCHANGED <<papers, page, saved, storing, written, cleared, unsure, excuses, overlaps>>
           /\ Turns(h, flows'[h]) /\ flows[h].at # "idle"
           /\ flows'[h].at = flows[h].at /\ flows'[h].paper = flows[h].paper
           /\ flows'[h].answer = flows[h].answer /\ flows'[h].conflict = flows[h].conflict
           /\ flows'[h].reply.is = "failed"
           /\ strays' = strays \/ strays' = strays \cup Stray(h, failed)
<1> DEFINE flow == [flows[h] EXCEPT !.reply = Failure("failed")]
<1>1. /\ flow \in Flow /\ flow.at = flows[h].at /\ flow.paper = flows[h].paper
      /\ flow.answer = flows[h].answer /\ flow.conflict = flows[h].conflict
      /\ flow.reply = Failure("failed")
  BY FlowFields, FailureReply DEF Flow
<1>2. flows' = [flows EXCEPT ![h] = flow]
  BY DEF Fails, PageTyped
<1> HIDE DEF flow
<1>3. Turns(h, flow)
  BY <1>1, <1>2, TurnedFlows
<1>4. flows'[h] = flow
  BY <1>3 DEF Turns
<1>5. QED
  BY <1>1, <1>3, <1>4, FailureReply DEF Fails

LEMMA FailsAttempts ==
    ASSUME ClientAssumption, PageTyped, NEW h \in Handlers, Fails(h)
    PROVE  Attempts' \in Nat /\ Attempts' <= Attempts /\ IsFiniteSet(strays')
<1>1. /\ papers' = papers /\ Turns(h, flows'[h]) /\ flows'[h].at = flows[h].at
      /\ flows'[h].reply.is = "failed"
      /\ strays' = strays \/ strays' = strays \cup Stray(h, failed)
  BY FailsShape
<1>2. /\ IsFiniteSet(Creates) /\ IsFiniteSet(Pending)
      /\ Cardinality(Creates) \in Nat /\ Cardinality(Pending) \in Nat
      /\ Len(papers) \in Nat
  BY RequestsFinite
<1>3. Creates' = Creates \ {h}
  BY <1>1 DEF Creates, Turns
<1>4. /\ Cardinality(Creates') \in Nat
      /\ Cardinality(Creates') = IF h \in Creates THEN Cardinality(Creates) - 1 ELSE Cardinality(Creates)
  BY <1>2, <1>3, FS_RemoveElement, FS_CardinalityType
<1> DEFINE stray == [flow |-> flows[h], nr |-> failed]
<1>5. Pending' = Pending \/ (h \in Creates /\ Pending' = Pending \cup {stray})
  <2>1. \A s \in Stray(h, failed) : s = stray /\ s.flow = flows[h] /\ flows[h].reply = NoReply
    BY StrayShape
  <2>2. Stray(h, failed) \subseteq {stray} /\ stray.flow = flows[h]
    BY <2>1
  <2> HIDE DEF stray
  <2>3. CASE flows[h].at = "creating" /\ flows[h].reply = NoReply
    <3>1. h \in Creates
      BY <2>3, EmptyReply DEF Creates
    <3>2. QED
      BY <1>1, <2>2, <2>3, <3>1 DEF Pending
  <2>4. CASE ~(flows[h].at = "creating" /\ flows[h].reply = NoReply)
    <3>1. \A s \in Stray(h, failed) : s.flow.at # "creating"
      BY <2>1, <2>4
    <3>2. QED
      BY <1>1, <3>1 DEF Pending
  <2>5. QED
    BY <2>3, <2>4
<1> HIDE DEF stray
<1>6. /\ Cardinality(Pending') \in Nat
      /\ Cardinality(Creates') + Cardinality(Pending') <= Cardinality(Creates) + Cardinality(Pending)
  <2>1. CASE Pending' = Pending
    BY <1>2, <1>4, <2>1
  <2>2. CASE h \in Creates /\ Pending' = Pending \cup {stray}
    <3>1. /\ IsFiniteSet(Pending \cup {stray})
          /\ Cardinality(Pending \cup {stray}) =
               IF stray \in Pending THEN Cardinality(Pending) ELSE Cardinality(Pending) + 1
      BY <1>2, FS_AddElement
    <3>2. Cardinality(Pending') \in Nat /\ Cardinality(Pending') <= Cardinality(Pending) + 1
      BY <1>2, <2>2, <3>1, FS_CardinalityType
    <3>3. Cardinality(Creates') = Cardinality(Creates) - 1
      BY <1>4, <2>2
    <3>4. QED
      BY <1>2, <1>4, <3>2, <3>3
  <2>3. QED
    BY <1>5, <2>1, <2>2
<1>7. Attempts' = Len(papers) + Cardinality(Creates') + Cardinality(Pending')
  BY <1>1 DEF Attempts
<1>8. Attempts = Len(papers) + Cardinality(Creates) + Cardinality(Pending)
  BY DEF Attempts
<1>9. Attempts' \in Nat /\ Attempts' <= Attempts
  BY <1>2, <1>4, <1>6, <1>7, <1>8, FewerAttempts
<1>10. IsFiniteSet(strays')
  <2>1. IsFiniteSet(strays) /\ IsFiniteSet(Stray(h, failed))
    BY StrayShape DEF PageTyped
  <2>2. QED
    BY <1>1, <2>1, FS_Union
<1>11. QED
  BY <1>9, <1>10

LEMMA FailsKeeps ==
    ASSUME ClientAssumption, PageInvariant, NEW h \in Handlers, Fails(h)
    PROVE  PageInvariant'
<1> USE DEF PageInvariant
<1>1. /\ UNCHANGED <<papers, page, saved, storing, written, cleared, unsure, excuses, overlaps>>
      /\ Turns(h, flows'[h]) /\ flows[h].at # "idle"
      /\ flows'[h].at = flows[h].at /\ flows'[h].paper = flows[h].paper
      /\ flows'[h].answer = flows[h].answer /\ flows'[h].conflict = flows[h].conflict
      /\ flows'[h].reply.is = "failed"
      /\ strays' = strays \/ strays' = strays \cup Stray(h, failed)
  BY FailsShape
<1>2. \A g \in Handlers : /\ flows'[g].at = flows[g].at /\ flows'[g].paper = flows[g].paper
                          /\ flows'[g].answer = flows[g].answer
                          /\ flows'[g].conflict = flows[g].conflict
                          /\ flows'[g] = flows[g] \/ flows'[g].reply.is = "failed"
  BY <1>1 DEF Turns
<1>3. \A s \in strays' : s \in strays \/ (s.flow = flows[h] /\ flows[h].reply = NoReply)
  BY <1>1, StrayShape
<1>4. PageTyped'
  <2>1. IsFiniteSet(strays') /\ \A s \in strays' : s.flow \in Flow
    BY <1>3, FailsAttempts, FlowFields DEF PageTyped
  <2>2. QED
    BY <1>1, <2>1 DEF PageTyped, Turns
<1>5. PapersKept'
  BY <1>1, <1>2, <1>3 DEF PapersKept, Known, Papers
<1>6. RepliesTell'
  <2>1. ASSUME NEW g \in Handlers PROVE Tells(g)'
    <3>1. CASE flows'[g] = flows[g]
      BY <1>1, <3>1 DEF RepliesTell, Tells, Taken, Papers
    <3>2. CASE flows'[g].reply.is = "failed"
      BY <3>2 DEF Tells
    <3>3. QED
      BY <1>2, <3>1, <3>2
  <2>2. QED
    BY <2>1 DEF RepliesTell
<1>7. Unclaimed'
  <2>1. \A g \in Handlers, a \in Papers : Offers(g, a)' => Offers(g, a)
    BY <1>2 DEF Offers
  <2>2. \A a \in Papers : Untouched(a) => Untouched(a)'
    BY <1>1, <1>2, <1>3 DEF Untouched
  <2>3. QED
    BY <1>1, <2>1, <2>2 DEF Unclaimed, Papers
<1>8. Beginning' = Beginning /\ Resuming' = Resuming /\ Submitters' = Submitters
  BY <1>2 DEF Beginning, Resuming, Submitters
<1>9. Owed'
  <2>1. Open' => Open
    BY <1>1, <1>2, <1>8 DEF Open
  <2>2. QED
    BY <1>1, <2>1, FailsAttempts, SameExcuses, OwedLess
<1>10. Shut' /\ HeldAsSaved' /\ ClearedTaken'
  BY <1>1, <1>2, <1>8, ClearedStays DEF Shut, HeldAsSaved
<1>11. Boxed'
  <2>1. \A s \in strays' : s.flow.at = "answering" => s.flow.answer \in 1..written
    <3>1. flows[h].at = "answering" => flows[h].answer \in 1..written
      <4>1. flows[h].at = "answering" => h \in Submitters
        BY DEF Submitters
      <4>2. QED
        BY <4>1, SubmitterAlone DEF Written, PageTyped
    <3>2. QED
      BY <1>3, <3>1 DEF Boxed
  <2>2. QED
    BY <1>1, <1>2, <1>8, <2>1 DEF Boxed, Submitters
<1>12. Counting'
  <2>1. /\ Papers' = Papers /\ (\A a, n : Over(a, n)' = Over(a, n)) /\ CountedOnce'
    BY <1>1, OverStays DEF Counting
  <2>2. ASSUME NEW g \in Submitters PROVE Submitted(g)'
    <3>1. Submitted(g) /\ g \in Handlers
      BY DEF Counting, Submitters
    <3>2. CASE flows'[g] = flows[g]
      BY <1>1, <2>1, <3>1, <3>2 DEF Submitted
    <3>3. CASE flows'[g].reply.is = "failed"
      BY <1>1, <1>2, <2>1, <3>1, <3>3 DEF Submitted
    <3>4. QED
      BY <1>2, <3>1, <3>2, <3>3
  <2>3. \A a \in Papers, n \in Written : Shown(a, n) => Shown(a, n)'
    BY <1>1, <1>2, <1>8 DEF Shown, Resuming
  <2>4. Shows'
    BY <1>1, <1>8, <2>1, <2>3 DEF Counting, Shows
  <2>5. QED
    BY <1>8, <2>1, <2>2, <2>4 DEF Counting
<1>13. ASSUME ~overlaps' PROVE Together'
  <2>1. Together /\ page' = page /\ papers' = papers
    BY <1>1, <1>13
  <2>2. \A g \in Handlers : flows'[g].at = "answering" /\ flows'[g].reply.is = "conflict" =>
            IsAt(flows'[g].paper, {"submitted"})
    BY <1>2, <2>1 DEF Together
  <2>3. QED
    BY <1>2, <1>8, <2>1, <2>2 DEF Together, IsAt, Beginning
<1>14. QED
  BY <1>4, <1>5, <1>6, <1>7, <1>9, <1>10, <1>11, <1>12, <1>13

\* Opening the page anew.
LEMMA ReloadShape ==
    ASSUME ClientAssumption, PageTyped, Reload
    PROVE  /\ UNCHANGED <<papers, saved, storing, written, cleared, unsure, overlaps>>
           /\ page' = NewPage /\ page' \in PageState
           /\ flows' \in [Handlers -> Flow]
           /\ \A h \in Handlers : flows'[h] = Resting /\ flows'[h].at = "idle"
                                  /\ flows'[h].paper = None /\ flows'[h].reply = NoReply
                                  /\ flows'[h].reply.is = "none"
           /\ \A s \in strays' : s \in strays \/ \E h \in Handlers :
                 /\ s = [flow |-> flows[h], nr |-> MaxFailures + reloads] /\ s.flow = flows[h]
                 /\ flows[h].reply = NoReply
           /\ IsFiniteSet(strays')
           /\ excuses' \in 0..MaxPapers /\ excuses' >= excuses
           /\ \/ excuses' = MaxPapers \/ excuses' = excuses + 1
              \/ storing /\ \A h \in Handlers : flows[h].at # "creating"
<1> DEFINE nr == MaxFailures + reloads
           each == {Stray(h, nr) : h \in Handlers}
<1>1. /\ UNCHANGED <<papers, saved, storing, written, cleared, unsure, overlaps>>
      /\ page' = NewPage /\ flows' = [h \in Handlers |-> Resting]
      /\ strays' = strays \cup UNION each
  BY DEF Reload
<1>2. page' \in PageState
  <2>1. <<>> \in Seq(Written) /\ 0 \in 0..Len(Text)
    OBVIOUS
  <2>2. QED
    BY <1>1, <2>1 DEF NewPage, PageState, None
<1>3. /\ flows' \in [Handlers -> Flow]
      /\ \A h \in Handlers : flows'[h] = Resting /\ flows'[h].at = "idle"
                             /\ flows'[h].paper = None /\ flows'[h].reply = NoReply
                             /\ flows'[h].reply.is = "none"
  <2>1. Resting.at = "idle" /\ Resting.paper = None /\ Resting.reply = NoReply
    BY DEF Resting
  <2>2. QED
    BY <1>1, <2>1, EmptyReply
<1>4. \A s \in UNION each : \E h \in Handlers : s \in Stray(h, nr)
  OBVIOUS
<1>5. IsFiniteSet(UNION each)
  <2> DEFINE f == [h \in Handlers |-> Stray(h, nr)]
  <2>1. f \in Surjection(Handlers, each)
    BY DEF Surjection
  <2>2. IsFiniteSet(Handlers)
    BY DEF ClientAssumption
  <2>3. \A x \in each : IsFiniteSet(x)
    BY StrayShape
  <2> HIDE DEF f, each
  <2>4. IsFiniteSet(each)
    BY <2>1, <2>2, FS_Surjection
  <2>5. QED
    BY <2>3, <2>4, FS_UNION
<1>6. IsFiniteSet(strays')
  BY <1>1, <1>5, FS_Union DEF PageTyped
<1>7. /\ excuses' \in 0..MaxPapers /\ excuses' >= excuses
      /\ \/ excuses' = MaxPapers \/ excuses' = excuses + 1
         \/ storing /\ \A h \in Handlers : flows[h].at # "creating"
  <2>1. CASE storing /\ \A h \in Handlers : flows[h].at # "creating"
    <3>1. Excuse(0)
      BY <2>1 DEF Reload
    <3>2. QED
      BY <2>1, <3>1, ExcuseCounts
  <2>2. CASE ~(storing /\ \A h \in Handlers : flows[h].at # "creating")
    <3>1. Excuse(1)
      BY <2>2 DEF Reload
    <3>2. QED
      BY <3>1, ExcuseCounts
  <2>3. QED
    BY <2>1, <2>2
<1>8. \A s \in strays' : s \in strays \/ \E h \in Handlers :
                 /\ s = [flow |-> flows[h], nr |-> nr] /\ s.flow = flows[h]
                 /\ flows[h].reply = NoReply
  BY <1>1, <1>4, StrayShape
<1>9. QED
  BY <1>1, <1>2, <1>3, <1>6, <1>7, <1>8

LEMMA ReloadAttempts ==
    ASSUME ClientAssumption, PageTyped, Reload
    PROVE  Attempts' \in Nat /\ Attempts' <= Attempts
<1> DEFINE nr == MaxFailures + reloads
           f == [h \in Creates |-> [flow |-> flows[h], nr |-> nr]]
           lost == {f[h] : h \in Creates}
<1>1. /\ papers' = papers /\ \A h \in Handlers : flows'[h].at = "idle"
      /\ \A s \in strays' : s \in strays \/ \E h \in Handlers :
           /\ s = [flow |-> flows[h], nr |-> nr] /\ s.flow = flows[h] /\ flows[h].reply = NoReply
  BY ReloadShape
<1>2. /\ IsFiniteSet(Creates) /\ IsFiniteSet(Pending)
      /\ Cardinality(Creates) \in Nat /\ Cardinality(Pending) \in Nat
      /\ Len(papers) \in Nat
  BY RequestsFinite
<1>3. Creates' = {}
  BY <1>1 DEF Creates
<1>4. Pending' \subseteq Pending \cup lost
  <2>1. ASSUME NEW s \in strays', s.flow.at = "creating", s \notin strays PROVE s \in lost
    <3>1. PICK h \in Handlers : /\ s = [flow |-> flows[h], nr |-> nr] /\ s.flow = flows[h]
                                /\ flows[h].reply = NoReply
      BY <1>1, <2>1
    <3>2. h \in Creates
      BY <2>1, <3>1, EmptyReply DEF Creates
    <3>3. f[h] = s
      BY <3>1, <3>2
    <3>4. QED
      BY <3>2, <3>3
  <2>2. QED
    BY <2>1 DEF Pending
<1>5. f \in Surjection(Creates, lost)
  BY DEF Surjection
<1> HIDE DEF f, lost
<1>6. IsFiniteSet(lost) /\ Cardinality(lost) <= Cardinality(Creates)
  BY <1>2, <1>5, FS_Surjection
<1>7. /\ IsFiniteSet(Pending \cup lost)
      /\ Cardinality(Pending \cup lost) =
           Cardinality(Pending) + Cardinality(lost) - Cardinality(Pending \cap lost)
  BY <1>2, <1>6, FS_Union
<1>8. Cardinality(Pending \cap lost) \in Nat /\ Cardinality(lost) \in Nat
  BY <1>2, <1>6, FS_Intersection, FS_CardinalityType
<1>9. Cardinality(Pending') \in Nat /\ Cardinality(Pending') <= Cardinality(Pending \cup lost)
  BY <1>4, <1>7, FS_Subset, FS_CardinalityType
<1>10. Cardinality(Creates') = 0
  BY <1>3, FS_EmptySet
<1>11. Cardinality(Creates') \in Nat
       /\ Cardinality(Creates') + Cardinality(Pending') <= Cardinality(Creates) + Cardinality(Pending)
  BY <1>2, <1>6, <1>7, <1>8, <1>9, <1>10
<1>12. Attempts' = Len(papers) + Cardinality(Creates') + Cardinality(Pending')
  BY <1>1 DEF Attempts
<1>13. Attempts = Len(papers) + Cardinality(Creates) + Cardinality(Pending)
  BY DEF Attempts
<1>14. QED
  BY <1>2, <1>9, <1>11, <1>12, <1>13, FewerAttempts

LEMMA ReloadKeeps ==
    ASSUME ClientAssumption, PageInvariant, Reload
    PROVE  PageInvariant'
<1> USE DEF PageInvariant
<1>1. /\ UNCHANGED <<papers, saved, storing, written, cleared, unsure, overlaps>>
      /\ page' = NewPage /\ page' \in PageState
      /\ flows' \in [Handlers -> Flow] /\ IsFiniteSet(strays')
      /\ excuses' \in 0..MaxPapers /\ excuses' >= excuses
      /\ \/ excuses' = MaxPapers \/ excuses' = excuses + 1
         \/ storing /\ \A h \in Handlers : flows[h].at # "creating"
  BY ReloadShape
<1>2. \A h \in Handlers : /\ flows'[h].at = "idle" /\ flows'[h].paper = None
                          /\ flows'[h].reply = NoReply /\ flows'[h].reply.is = "none"
  BY ReloadShape
<1>3. \A s \in strays' : s \in strays \/ \E h \in Handlers : s.flow = flows[h]
  BY ReloadShape
<1>4. /\ page'.screen = "code" /\ page'.held = None /\ page'.box = None /\ page'.told = None
      /\ ~page'.begins
  BY <1>1 DEF NewPage
<1>5. PageTyped'
  <2>1. \A s \in strays' : s.flow \in Flow
    BY <1>3, FlowFields DEF PageTyped
  <2>2. QED
    BY <1>1, <2>1 DEF PageTyped
<1>6. PapersKept'
  BY <1>1, <1>2, <1>3, <1>4 DEF PapersKept, Known, Papers
<1>7. RepliesTell'
  BY <1>2 DEF RepliesTell, Tells
<1>8. Unclaimed'
  BY <1>2 DEF Unclaimed, Offers
<1>9. Beginning' = {} /\ Resuming' = {} /\ Submitters' = {}
  BY <1>2 DEF Beginning, Resuming, Submitters
<1>10. Owed'
  <2>1. storing /\ (\A h \in Handlers : flows[h].at # "creating") => (Open' => Open)
    BY <1>1, <1>4 DEF Open
  <2>2. QED
    BY <1>1, <2>1, ReloadAttempts, OwedLess
<1>11. Shut' /\ HeldAsSaved' /\ ClearedTaken'
  BY <1>1, <1>2, <1>9, ClearedStays DEF Shut, HeldAsSaved
<1>12. Boxed'
  <2>1. \A s \in strays' : s.flow.at = "answering" => s.flow.answer \in 1..written
    <3>1. ASSUME NEW h \in Handlers, flows[h].at = "answering" PROVE flows[h].answer \in 1..written
      <4>1. h \in Submitters
        BY <3>1 DEF Submitters
      <4>2. QED
        BY <4>1, SubmitterAlone DEF Written, PageTyped
    <3>2. QED
      BY <1>3, <3>1 DEF Boxed
  <2>2. QED
    BY <1>1, <1>4, <1>9, <2>1 DEF Boxed
<1>13. Counting'
  <2>1. /\ Papers' = Papers /\ (\A a, n : Over(a, n)' = Over(a, n)) /\ CountedOnce'
    BY <1>1, OverStays DEF Counting
  <2>2. Shows'
    BY <1>4, <2>1, NoPaper DEF Shows
  <2>3. QED
    BY <1>9, <2>1, <2>2 DEF Counting
<1>14. Together'
  BY <1>2, <1>4, <1>9 DEF Together, IsAt
<1>15. QED
  BY <1>5, <1>6, <1>7, <1>8, <1>10, <1>11, <1>12, <1>13, <1>14

LEMMA PageBegins ==
    ASSUME ClientAssumption, InitClient
    PROVE  PageInvariant
<1>1. /\ papers = <<>> /\ page = NewPage /\ saved = None /\ storing \in BOOLEAN
      /\ flows = [h \in Handlers |-> Resting] /\ strays = {} /\ written = 0 /\ cleared = {}
      /\ unsure = [n \in Written |-> 0] /\ excuses = 0 /\ overlaps = FALSE
  BY DEF InitClient
<1>2. <<>> \in Seq(Written) /\ <<>> \in Seq(Paper) /\ 0 \in 0..Len(Text) /\ Papers = {}
      /\ Needed \in Nat /\ MaxPapers \in Nat /\ Len(papers) = 0
  BY <1>1 DEF Papers, ClientAssumption
<1>3. /\ page \in PageState /\ page.screen = "code" /\ page.held = None /\ page.box = None
      /\ page.told = None /\ ~page.begins
  BY <1>1, <1>2 DEF NewPage, PageState, None
<1>4. flows \in [Handlers -> Flow]
  BY <1>1, EmptyReply
<1>5. \A h \in Handlers : /\ flows[h].at = "idle" /\ flows[h].paper = None
                          /\ flows[h].reply = NoReply /\ flows[h].reply.is = "none"
  <2>1. Resting.at = "idle" /\ Resting.paper = None /\ Resting.reply = NoReply
    BY DEF Resting
  <2>2. QED
    BY <1>1, <2>1, EmptyReply
<1>6. PageTyped
  <2>1. unsure \in [Written -> 0..Needed] /\ excuses \in 0..MaxPapers
    BY <1>1, <1>2
  <2>2. papers \in Seq(Paper) /\ saved \in Nat /\ written \in 0..Len(Text)
    BY <1>1, <1>2 DEF None
  <2>3. IsFiniteSet(strays) /\ (\A s \in strays : s.flow \in Flow) /\ cleared \subseteq Written
    BY <1>1, FS_EmptySet
  <2>4. QED
    BY <1>1, <1>3, <1>4, <2>1, <2>2, <2>3 DEF PageTyped
<1>7. PapersKept
  BY <1>1, <1>2, <1>3, <1>5 DEF PapersKept, Known
<1>8. RepliesTell /\ Unclaimed /\ Shut
  BY <1>2, <1>5 DEF RepliesTell, Tells, Unclaimed, Shut
<1>9. Beginning = {} /\ Resuming = {} /\ Submitters = {}
  BY <1>5 DEF Beginning, Resuming, Submitters
<1>10. Owed
  <2>1. Creates = {} /\ Pending = {}
    BY <1>1, <1>5 DEF Creates, Pending
  <2>2. Attempts = 0
    BY <1>2, <2>1, FS_EmptySet DEF Attempts
  <2>3. QED
    BY <1>1, <2>2 DEF Owed
<1>11. HeldAsSaved /\ Boxed /\ ClearedTaken /\ Together
  BY <1>1, <1>3, <1>5, <1>9 DEF HeldAsSaved, Boxed, ClearedTaken, Together, IsAt
<1>12. Counting
  BY <1>2, <1>9 DEF Counting, CountedOnce, Shows
<1>13. QED
  BY <1>6, <1>7, <1>8, <1>10, <1>11, <1>12 DEF PageInvariant

\* What growing attempts keep of what is known of them.
LEMMA GrowsKeeps ==
    ASSUME PageTyped, NEW flow \in Flow, Grows(flow), flow.answer \in Nat
    PROVE  /\ Papers \subseteq Papers' /\ Len(papers) \in Nat
           /\ Papers' = 1..Len(papers') /\ Papers = 1..Len(papers)
           /\ \A a \in Papers' : a \in Papers \/ (a = Len(papers) + 1 /\ Adds(flow))
           /\ Adds(flow) => Len(papers) + 1 \in Papers'
           /\ \A a \in Papers : /\ papers[a].status = "submitted" => papers'[a].status = "submitted"
                                /\ papers[a].status # "not_started" => papers'[a].status # "not_started"
                                /\ papers'[a].status \in Stati
           /\ \A a \in Papers, n \in Written : Has(papers[a].answers, n) => Has(papers'[a].answers, n)
           /\ \A n \in Written : Taken(n) => Taken(n)'
<1>1. /\ papers \in Seq(Paper) /\ papers' \in Seq(Paper) /\ Len(papers) \in Nat
      /\ Adds(flow) \/ Len(papers') = Len(papers)
      /\ \A a \in Papers : papers'[a] = papers[a] \/ Starts(flow, a) \/ Counts(flow, a)
  BY DEF PageTyped, Grows
<1>2. /\ Papers \subseteq Papers' /\ Papers' = 1..Len(papers') /\ Papers = 1..Len(papers)
      /\ \A a \in Papers' : a \in Papers \/ (a = Len(papers) + 1 /\ Adds(flow))
      /\ Adds(flow) => Len(papers) + 1 \in Papers'
  BY <1>1 DEF Papers, Adds
<1>3. ASSUME NEW a \in Papers
      PROVE  /\ papers[a].status = "submitted" => papers'[a].status = "submitted"
             /\ papers[a].status # "not_started" => papers'[a].status # "not_started"
             /\ papers'[a].status \in Stati
  <2>1. papers'[a] \in Paper
    <3>1. a \in 1..Len(papers')
      BY <1>2
    <3>2. QED
      BY <1>1, <3>1
  <2>2. QED
    BY <1>1, <2>1 DEF Paper, Starts, Counts
<1>4. ASSUME NEW a \in Papers, NEW n \in Written, Has(papers[a].answers, n)
      PROVE  Has(papers'[a].answers, n)
  <2>1. papers[a].answers \in Seq(Written)
    BY PaperFields
  <2>2. CASE papers'[a].answers = papers[a].answers
    BY <1>4, <2>2
  <2>3. CASE Counts(flow, a)
    <3>1. papers'[a].answers = Append(papers[a].answers, flow.answer)
      BY <2>3 DEF Counts
    <3>2. PICK i \in DOMAIN papers[a].answers : papers[a].answers[i] = n
      BY <1>4 DEF Has
    <3>3. i \in DOMAIN Append(papers[a].answers, flow.answer)
          /\ Append(papers[a].answers, flow.answer)[i] = n
      BY <2>1, <3>2
    <3>4. QED
      BY <3>1, <3>3 DEF Has
  <2>4. QED
    BY <1>1, <2>2, <2>3 DEF Starts
<1>5. \A n \in Written : Taken(n) => Taken(n)'
  BY <1>2, <1>4 DEF Taken, Has
<1>6. QED
  BY <1>1, <1>2, <1>3, <1>4, <1>5

LEMMA GrowsPapers ==
    ASSUME ClientAssumption, PageTyped, PapersKept, NEW flow \in Flow, Grows(flow),
           flow.at = "creating" => Len(papers) < MaxPapers,
           flow.at = "answering" => flow.answer \in 1..written
    PROVE  /\ Len(papers') <= MaxPapers
           /\ \A a \in Papers' :
                /\ Len(papers'[a].answers) <= Needed
                /\ papers'[a].status = "not_started" => papers'[a].answers = <<>>
                /\ papers'[a].status = "in_progress" => Len(papers'[a].answers) < Needed
                /\ \A i \in DOMAIN papers'[a].answers : papers'[a].answers[i] <= written
<1>1. Needed \in Nat /\ Needed > 0 /\ MaxPapers \in Nat /\ Len(papers) \in Nat
  BY DEF ClientAssumption, PageTyped
<1>2. Len(papers') <= MaxPapers
  BY <1>1 DEF Grows, Adds, PapersKept
<1>3. ASSUME NEW a \in Papers'
      PROVE  /\ Len(papers'[a].answers) <= Needed
             /\ papers'[a].status = "not_started" => papers'[a].answers = <<>>
             /\ papers'[a].status = "in_progress" => Len(papers'[a].answers) < Needed
             /\ \A i \in DOMAIN papers'[a].answers : papers'[a].answers[i] <= written
  <2>1. CASE a \in Papers
    <3>1. /\ papers[a].answers \in Seq(Written) /\ Len(papers[a].answers) <= Needed
          /\ papers[a].status = "not_started" => papers[a].answers = <<>>
          /\ papers[a].status = "in_progress" => Len(papers[a].answers) < Needed
          /\ \A i \in DOMAIN papers[a].answers : papers[a].answers[i] <= written
      BY <2>1, PaperFields DEF PapersKept
    <3>2. CASE papers'[a] = papers[a]
      BY <3>1, <3>2
    <3>3. CASE Starts(flow, a)
      <4>1. Len(papers[a].answers) = 0
        BY <3>1, <3>3 DEF Starts
      <4>2. QED
        BY <1>1, <3>1, <3>3, <4>1 DEF Starts
    <3>4. CASE Counts(flow, a)
      <4>1. /\ papers'[a].answers = Append(papers[a].answers, flow.answer)
            /\ flow.answer \in 1..written /\ Len(papers[a].answers) < Needed
            /\ papers'[a].status =
                 IF Len(papers[a].answers) + 1 >= Needed THEN "submitted" ELSE "in_progress"
        BY <3>1, <3>4 DEF Counts
      <4> DEFINE list == papers[a].answers
      <4>2. /\ Len(Append(list, flow.answer)) = Len(list) + 1 /\ Len(list) \in Nat
            /\ \A i \in DOMAIN Append(list, flow.answer) :
                 Append(list, flow.answer)[i] = flow.answer
                 \/ (i \in DOMAIN list /\ Append(list, flow.answer)[i] = list[i])
        BY <3>1
      <4>3. \A i \in DOMAIN papers'[a].answers : papers'[a].answers[i] <= written
        BY <3>1, <4>1, <4>2
      <4>4. Len(papers'[a].answers) = Len(list) + 1
        BY <4>1, <4>2
      <4>5. QED
        BY <1>1, <4>1, <4>2, <4>3, <4>4
    <3>5. QED
      BY <2>1, <3>2, <3>3, <3>4 DEF Grows
  <2>2. CASE a \notin Papers
    <3>1. a = Len(papers) + 1 /\ Adds(flow)
      BY <2>2 DEF Grows, Papers, Adds, PageTyped
    <3>2. papers'[a].answers = <<>> /\ papers'[a].status = "not_started"
      BY <3>1 DEF Adds
    <3>3. QED
      BY <1>1, <3>2
  <2>3. QED
    BY <2>1, <2>2
<1>4. QED
  BY <1>2, <1>3

\* An answer is counted once more for the attempt that takes it.
LEMMA GrowsTimes ==
    ASSUME PageTyped, NEW flow \in Flow, Grows(flow), NEW a \in Papers, NEW n
    PROVE  /\ Times(a, n) \in Nat
           /\ Times(a, n)' = IF Counts(flow, a) /\ flow.answer = n THEN Times(a, n) + 1
                             ELSE Times(a, n)
<1> DEFINE list == papers[a].answers
           more == papers'[a].answers
           old == {i \in DOMAIN list : list[i] = n}
           new == {i \in DOMAIN more : more[i] = n}
<1>1. list \in Seq(Written) /\ Times(a, n) \in Nat
  BY PaperFields, TimesBound
<1>2. Times(a, n) = Cardinality(old) /\ Times(a, n)' = Cardinality(new)
  BY DEF Times
<1>3. more = list \/ Counts(flow, a)
  BY DEF Grows, Starts
<1>4. CASE ~Counts(flow, a)
  BY <1>1, <1>2, <1>3, <1>4
<1>5. CASE Counts(flow, a)
  <2>1. more = Append(list, flow.answer)
    BY <1>5 DEF Counts
  <2>2. /\ Len(list) \in Nat /\ DOMAIN list = 1..Len(list) /\ DOMAIN more = 1..(Len(list) + 1)
        /\ \A i \in 1..Len(list) : more[i] = list[i]
        /\ more[Len(list) + 1] = flow.answer
    BY <1>1, <2>1
  <2> HIDE DEF list, more
  <2>3. CASE flow.answer # n
    <3>1. new = old
      BY <2>2, <2>3
    <3>2. QED
      BY <1>1, <1>2, <2>3, <3>1
  <2>4. CASE flow.answer = n
    <3>1. new = old \cup {Len(list) + 1} /\ Len(list) + 1 \notin old
      BY <2>2, <2>4
    <3>2. IsFiniteSet(old)
      <4>1. old \in SUBSET (1..Len(list)) /\ Len(list) \in Int /\ 1 \in Int
        BY <2>2
      <4>2. IsFiniteSet(1..Len(list))
        BY <4>1, FS_Interval
      <4>3. QED
        BY <4>1, <4>2, FS_Subset
    <3> HIDE DEF old, new
    <3>3. Cardinality(old \cup {Len(list) + 1}) = Cardinality(old) + 1
      BY <3>1, <3>2, FS_AddElement
    <3>4. QED
      BY <1>1, <1>2, <1>5, <2>4, <3>1, <3>3
  <2>5. QED
    BY <2>3, <2>4
<1>6. QED
  BY <1>4, <1>5

LEMMA AppendedLast ==
    ASSUME NEW S, NEW list \in Seq(S), NEW e
    PROVE  /\ Len(Append(list, e)) = Len(list) + 1 /\ Len(list) + 1 \in DOMAIN Append(list, e)
           /\ Append(list, e)[Len(list) + 1] = e /\ Append(list, e) # <<>>
OBVIOUS

LEMMA TimesHas ==
    ASSUME PageTyped, NEW a \in Papers, NEW n \in Written, Over(a, n)
    PROVE  Has(papers[a].answers, n)
<1>1. unsure[n] \in 0..Needed /\ Times(a, n) \in Nat
  BY TimesBound DEF PageTyped
<1>2. Times(a, n) # 0
  BY <1>1 DEF Over
<1>3. {i \in DOMAIN papers[a].answers : papers[a].answers[i] = n} # {}
  BY <1>2, FS_EmptySet DEF Times
<1>4. QED
  BY <1>3 DEF Has

\* The server answers a handler.
LEMMA ServeShape ==
    ASSUME ClientAssumption, PageInvariant, NEW h \in Handlers, Serve(h)
    PROVE  /\ flows[h].at # "idle" /\ flows[h].reply.is = "none" /\ flows[h].reply = NoReply
           /\ UNCHANGED <<page, saved, storing, strays, written, cleared, unsure, excuses, overlaps>>
           /\ flows[h] \in Flow /\ Known(flows[h].paper)
           /\ flows[h].at = "creating" => Len(papers) < MaxPapers
           /\ flows[h].at = "answering" => flows[h].answer \in 1..written
           /\ Grows(flows[h]) /\ Replies(flows[h], flows'[h].reply)
           /\ Turns(h, flows'[h])
           /\ flows'[h].at = flows[h].at /\ flows'[h].paper = flows[h].paper
           /\ flows'[h].answer = flows[h].answer /\ flows'[h].conflict = flows[h].conflict
<1> USE DEF PageInvariant
<1>1. /\ flows[h].at # "idle" /\ flows[h].reply = NoReply /\ flows[h].reply.is = "none"
      /\ UNCHANGED <<page, saved, storing, strays, written, cleared, unsure, excuses, overlaps>>
      /\ flows[h].at = "creating" => Len(papers) < MaxPapers
      /\ papers' = Served(flows[h]).papers
      /\ flows' = [flows EXCEPT ![h].reply = Served(flows[h]).reply]
  BY EmptyReply DEF Serve, Waiting
<1>2. flows[h] \in Flow /\ Known(flows[h].paper)
  BY FlowFields DEF PapersKept
<1>3. flows[h].at = "answering" => flows[h].answer \in Written /\ flows[h].answer \in 1..written
  <2>1. flows[h].at = "answering" => h \in Submitters
    BY DEF Submitters
  <2>2. QED
    BY <2>1, SubmitterAlone DEF Written, PageTyped
<1>4. Grows(flows[h]) /\ Replies(flows[h], Served(flows[h]).reply)
  BY <1>1, <1>2, <1>3, ServedGrows
<1> DEFINE reply == Served(flows[h]).reply
           flow == [flows[h] EXCEPT !.reply = reply]
<1>5. reply \in Replying
  BY <1>4 DEF Replies
<1> HIDE DEF reply
<1>6. /\ flow \in Flow /\ flow.at = flows[h].at /\ flow.paper = flows[h].paper
      /\ flow.answer = flows[h].answer /\ flow.conflict = flows[h].conflict /\ flow.reply = reply
  BY <1>2, <1>5 DEF Flow
<1>7. flows' = [flows EXCEPT ![h] = flow]
  BY <1>1 DEF reply, PageTyped
<1> HIDE DEF flow
<1>8. Turns(h, flow)
  BY <1>6, <1>7, TurnedFlows
<1>9. flows'[h] = flow
  BY <1>8 DEF Turns
<1>10. QED
  BY <1>1, <1>2, <1>3, <1>4, <1>6, <1>8, <1>9 DEF reply

LEMMA ServeFlows ==
    ASSUME NEW h \in Handlers, Turns(h, flows'[h]),
           flows'[h].at = flows[h].at, flows'[h].paper = flows[h].paper,
           flows'[h].answer = flows[h].answer, flows'[h].conflict = flows[h].conflict
    PROVE  /\ \A g \in Handlers : /\ flows'[g].at = flows[g].at /\ flows'[g].paper = flows[g].paper
                                  /\ flows'[g].answer = flows[g].answer
                                  /\ flows'[g].conflict = flows[g].conflict
                                  /\ g # h => flows'[g] = flows[g]
           /\ Beginning' = Beginning /\ Resuming' = Resuming /\ Submitters' = Submitters
<1>1. \A g \in Handlers : /\ flows'[g].at = flows[g].at /\ flows'[g].paper = flows[g].paper
                          /\ flows'[g].answer = flows[g].answer
                          /\ flows'[g].conflict = flows[g].conflict
                          /\ g # h => flows'[g] = flows[g]
  BY DEF Turns
<1>2. QED
  BY <1>1 DEF Beginning, Resuming, Submitters

\* Replies that came before stay true when attempts grow.
LEMMA TellsStays ==
    ASSUME PageTyped, NEW flow \in Flow, Grows(flow), NEW g \in Handlers, Tells(g),
           flows'[g] = flows[g]
    PROVE  Tells(g)'
<1>1. /\ Papers \subseteq Papers'
      /\ \A a \in Papers : /\ papers[a].status = "submitted" => papers'[a].status = "submitted"
                           /\ papers[a].status # "not_started" => papers'[a].status # "not_started"
      /\ \A n \in Written : Taken(n) => Taken(n)'
  <2>1. flow.answer \in Nat
    BY DEF Flow
  <2>2. QED
    BY <2>1, GrowsKeeps
<1>2. QED
  BY <1>1 DEF Tells

LEMMA ServeReply ==
    ASSUME ClientAssumption, PageInvariant, NEW h \in Handlers, Serve(h)
    PROVE  Tells(h)'
<1> USE DEF PageInvariant
<1> DEFINE flow == flows[h]
           reply == flows'[h].reply
<1>1. /\ flow \in Flow /\ Grows(flow) /\ Replies(flow, reply)
      /\ flows'[h].at = flow.at /\ flows'[h].paper = flow.paper /\ flows'[h].answer = flow.answer
  BY ServeShape
<1>2. flow.answer \in Nat
  BY <1>1 DEF Flow
<1>3. /\ Papers \subseteq Papers' /\ (Adds(flow) => Len(papers) + 1 \in Papers')
  BY <1>1, <1>2, GrowsKeeps
<1>4. reply.is # "none"
  BY <1>1 DEF Replies
<1>5. reply.is = "ok" /\ flow.at = "creating" => reply.paper \in Papers'
  BY <1>1, <1>3 DEF Replies, Grows
<1>6. ASSUME reply.is = "ok", flow.at \notin {"idle", "viewing", "creating"}
      PROVE  /\ flow.paper \in Papers'
             /\ \A n \in Written : Has(reply.answers, n) => Taken(n)'
             /\ reply.status = papers'[flow.paper].status
             /\ flow.at \in {"starting", "restarting"} => reply.status # "not_started"
             /\ flow.at = "answering" => \A n \in Written : flow.answer = n => Taken(n)'
  <2>1. /\ flow.paper \in Papers /\ reply.answers = papers'[flow.paper].answers
        /\ reply.status = papers'[flow.paper].status
        /\ flow.at \in {"starting", "restarting"} => Starts(flow, flow.paper)
        /\ flow.at = "answering" => Counts(flow, flow.paper)
    BY <1>1, <1>6 DEF Replies
  <2>2. \A n \in Written : Has(papers'[flow.paper].answers, n) => Taken(n)'
    BY <1>3, <2>1 DEF Taken, Has
  <2>3. ASSUME flow.at = "answering" PROVE Has(papers'[flow.paper].answers, flow.answer)
    <3>1. papers'[flow.paper].answers = Append(papers[flow.paper].answers, flow.answer)
      BY <2>1, <2>3 DEF Counts
    <3>2. papers[flow.paper].answers \in Seq(Written)
      BY <2>1, PaperFields
    <3>3. Has(Append(papers[flow.paper].answers, flow.answer), flow.answer)
      BY <3>2, AppendedLast DEF Has
    <3>4. QED
      BY <3>1, <3>3
  <2>4. QED
    BY <1>3, <2>1, <2>2, <2>3 DEF Starts
<1>7. QED
  BY <1>1, <1>4, <1>5, <1>6 DEF Tells

LEMMA ServeUnclaimed ==
    ASSUME ClientAssumption, PageInvariant, NEW h \in Handlers, Serve(h)
    PROVE  Unclaimed'
<1> USE DEF PageInvariant
<1> DEFINE flow == flows[h]
<1>1. /\ flow \in Flow /\ Grows(flow) /\ Replies(flow, flows'[h].reply) /\ Turns(h, flows'[h])
      /\ flows'[h].at = flow.at /\ flows'[h].paper = flow.paper
      /\ flows'[h].answer = flow.answer /\ flows'[h].conflict = flow.conflict
      /\ page' = page /\ saved' = saved /\ strays' = strays
  BY ServeShape
<1>2. \A g \in Handlers : flows'[g].paper = flows[g].paper /\ (g # h => flows'[g] = flows[g])
  BY <1>1, ServeFlows
<1>3. Papers = 1..Len(papers) /\ Len(papers) \in Nat
  BY DEF Papers, PageTyped
<1>4. ASSUME NEW a, Offers(h, a)'
      PROVE  a = Len(papers) + 1 /\ papers'[a].answers = <<>>
  BY <1>1, <1>4 DEF Offers, Replies, Grows, Adds
<1>5. ASSUME NEW g \in Handlers, NEW a, Offers(g, a)', g # h
      PROVE  Offers(g, a) /\ a \in Papers
  BY <1>2, <1>5 DEF Offers, RepliesTell, Tells
<1>6. ASSUME NEW g \in Handlers, NEW a, Offers(g, a)'
      PROVE  Untouched(a)' /\ \A k \in Handlers : Offers(k, a)' => k = g
  <2>1. CASE g = h
    <3>1. a = Len(papers) + 1 /\ papers'[a].answers = <<>> /\ a \notin Papers /\ a # None
      BY <1>3, <1>4, <1>6, <2>1 DEF None
    <3>2. /\ page.held # a /\ saved # a /\ \A k \in Handlers : flows[k].paper # a
          /\ \A s \in strays : s.flow.paper # a
      BY <3>1 DEF PapersKept, Known
    <3>3. Untouched(a)'
      BY <1>1, <1>2, <3>1, <3>2 DEF Untouched
    <3>4. QED
      BY <1>5, <2>1, <3>1, <3>3
  <2>2. CASE g # h
    <3>1. Offers(g, a) /\ a \in Papers
      BY <1>5, <1>6, <2>2
    <3>2. Untouched(a) /\ \A k \in Handlers : Offers(k, a) => k = g
      BY <3>1 DEF Unclaimed
    <3>3. papers'[a].answers = <<>>
      <4>1. a # flow.paper
        BY <3>2 DEF Untouched
      <4>2. QED
        BY <1>1, <3>1, <3>2, <4>1 DEF Grows, Starts, Counts, Untouched
    <3>4. Untouched(a)'
      BY <1>1, <1>2, <3>2, <3>3 DEF Untouched
    <3>5. \A k \in Handlers : Offers(k, a)' => k # h
      BY <1>3, <1>4, <3>1
    <3>6. QED
      BY <1>5, <3>2, <3>4, <3>5
  <2>3. QED
    BY <2>1, <2>2
<1>7. QED
  BY <1>6 DEF Unclaimed

LEMMA ServeAttempts ==
    ASSUME ClientAssumption, PageInvariant, NEW h \in Handlers, Serve(h)
    PROVE  Attempts' \in Nat /\ Attempts' <= Attempts
<1> USE DEF PageInvariant
<1>1. /\ Grows(flows[h]) /\ Turns(h, flows'[h]) /\ flows'[h].at = flows[h].at
      /\ Replies(flows[h], flows'[h].reply) /\ strays' = strays /\ flows[h].reply.is = "none"
  BY ServeShape
<1>2. /\ IsFiniteSet(Creates) /\ Cardinality(Creates) \in Nat /\ Cardinality(Pending) \in Nat
      /\ Len(papers) \in Nat
  BY RequestsFinite
<1>3. Creates' = Creates \ {h} /\ (h \in Creates <=> flows[h].at = "creating")
  BY <1>1 DEF Creates, Turns, Replies
<1>4. Pending' = Pending
  BY <1>1 DEF Pending
<1>5. /\ IsFiniteSet(Creates \ {h})
      /\ Cardinality(Creates \ {h}) = IF h \in Creates THEN Cardinality(Creates) - 1
                                      ELSE Cardinality(Creates)
  BY <1>2, FS_RemoveElement
<1>6. Cardinality(Creates') \in Nat
  BY <1>3, <1>5, FS_CardinalityType
<1>7. Len(papers') = IF h \in Creates THEN Len(papers) + 1 ELSE Len(papers)
  BY <1>1, <1>3 DEF Grows, Adds
<1>8. Attempts' = Len(papers') + Cardinality(Creates') + Cardinality(Pending)
  BY <1>4 DEF Attempts
<1>9. Attempts = Len(papers) + Cardinality(Creates) + Cardinality(Pending)
  BY DEF Attempts
<1>10. Len(papers') + Cardinality(Creates') = Len(papers) + Cardinality(Creates)
  BY <1>2, <1>3, <1>5, <1>7
<1>11. Attempts' = Attempts
  BY <1>8, <1>9, <1>10
<1>12. QED
  BY <1>11, RequestsFinite

\* What is over for an attempt that grew.
LEMMA GrownOver ==
    ASSUME ClientAssumption, PageTyped, CountedOnce, NEW flow \in Flow, Grows(flow),
           unsure' = unsure,
           \A a \in Papers : Counts(flow, a) => ~Over(a, flow.answer)
    PROVE  /\ CountedOnce'
           /\ \A a \in Papers', n \in Written : Over(a, n)' =>
                a \in Papers /\ (Over(a, n) \/ (Counts(flow, a) /\ flow.answer = n))
<1>1. flow.answer \in Nat
  BY DEF Flow
<1>2. \A a \in Papers' : a \in Papers \/ papers'[a].answers = <<>>
  BY <1>1, GrowsKeeps DEF Adds
<1>3. ASSUME NEW a \in Papers', NEW n \in Written
      PROVE  /\ Times(a, n)' <= 1 + unsure[n]
             /\ Over(a, n)' => a \in Papers /\ (Over(a, n) \/ (Counts(flow, a) /\ flow.answer = n))
  <2>1. unsure[n] \in Nat
    BY DEF PageTyped
  <2>2. CASE a \in Papers
    <3>1. /\ Times(a, n) \in Nat
          /\ Times(a, n)' = IF Counts(flow, a) /\ flow.answer = n THEN Times(a, n) + 1
                            ELSE Times(a, n)
      BY <2>2, GrowsTimes
    <3>2. Times(a, n) <= 1 + unsure[n]
      BY <2>2 DEF CountedOnce
    <3>3. Counts(flow, a) /\ flow.answer = n => ~(Times(a, n) > unsure[n])
      BY <2>2 DEF Over
    <3>4. Over(a, n)' = (Times(a, n)' > unsure[n])
      BY DEF Over
    <3>5. QED
      BY <2>1, <2>2, <3>1, <3>2, <3>3, <3>4 DEF Over
  <2>3. CASE papers'[a].answers = <<>>
    <3>1. {i \in DOMAIN papers'[a].answers : papers'[a].answers[i] = n} = {}
      BY <2>3
    <3>2. Times(a, n)' = 0
      BY <3>1, FS_EmptySet DEF Times
    <3>3. QED
      BY <2>1, <3>2 DEF Over
  <2>4. QED
    BY <1>2, <2>2, <2>3
<1>4. QED
  BY <1>3 DEF CountedOnce

LEMMA AppendedCloses ==
    ASSUME NEW S, NEW list \in Seq(S), NEW e
    PROVE  Closes(Append(list, e), e)
<1> DEFINE longer == Append(list, e)
<1>1. Len(longer) = Len(list) + 1 /\ longer[Len(list) + 1] = e /\ longer # <<>>
  BY AppendedLast
<1> HIDE DEF longer
<1>2. Closes(longer, e)
  BY <1>1 DEF Closes
<1>3. QED
  BY <1>2 DEF longer

LEMMA ServeCounts ==
    ASSUME ClientAssumption, PageInvariant, NEW h \in Handlers, Serve(h)
    PROVE  Counting'
<1> USE DEF PageInvariant
<1> DEFINE flow == flows[h]
<1>1. /\ flow \in Flow /\ Grows(flow) /\ Replies(flow, flows'[h].reply) /\ Turns(h, flows'[h])
      /\ flows'[h].at = flow.at /\ flows'[h].paper = flow.paper
      /\ flows'[h].answer = flow.answer /\ flows'[h].conflict = flow.conflict
      /\ flow.reply.is = "none"
      /\ page' = page /\ written' = written /\ cleared' = cleared /\ unsure' = unsure
  BY ServeShape
<1>2. /\ \A g \in Handlers : /\ flows'[g].at = flows[g].at /\ flows'[g].paper = flows[g].paper
                             /\ flows'[g].answer = flows[g].answer
                             /\ g # h => flows'[g] = flows[g]
      /\ Resuming' = Resuming /\ Submitters' = Submitters
  BY <1>1, ServeFlows
<1>3. \A a : Counts(flow, a) => h \in Submitters /\ flow.answer \in Written
  <2>1. \A a : Counts(flow, a) => h \in Submitters
    BY DEF Counts, Submitters
  <2>2. h \in Submitters => flow.answer \in Written
    BY SubmitterAlone
  <2>3. QED
    BY <2>1, <2>2
<1>4. \A a \in Papers : Counts(flow, a) => ~Over(a, flow.answer)
  BY <1>1, <1>3 DEF Counting, Submitted, Counts
<1>5. /\ CountedOnce'
      /\ \A a \in Papers', n \in Written : Over(a, n)' =>
           a \in Papers /\ (Over(a, n) \/ (Counts(flow, a) /\ flow.answer = n))
  BY <1>1, <1>4, GrownOver DEF Counting
<1>6. ASSUME h \in Submitters PROVE Submitted(h)' /\ Shows'
  <2>1. Submitters = {h} /\ page.box # None
    BY <1>6, SubmitterAlone DEF Written, None
  <2>2. Shows'
    BY <1>1, <1>2, <2>1 DEF Shows
  <2>3. ASSUME NEW a \in Papers', NEW n \in Written, flows'[h].answer = n, Over(a, n)'
        PROVE  /\ page'.held = a => flows'[h].paper = a
               /\ flows'[h].paper = a =>
                    /\ flows'[h].at = "answering" => flows'[h].reply.is # "none"
                    /\ flows'[h].at = "answering" \/ flows'[h].reply.is = "none" =>
                         Closes(papers'[a].answers, n)
                    /\ flows'[h].at = "reconciling" /\ flows'[h].reply.is = "ok" =>
                         Included(flows'[h].reply.answers, n)
    <3>1. a \in Papers /\ (Over(a, n) \/ Counts(flow, a))
      BY <1>5, <2>3
    <3>2. CASE Counts(flow, a)
      <4>1. /\ flow.at = "answering" /\ a = flow.paper
            /\ papers'[a].answers = Append(papers[a].answers, flow.answer)
        BY <3>2 DEF Counts
      <4>2. papers[a].answers \in Seq(Written)
        BY <3>1, PaperFields
      <4>3. Closes(papers'[a].answers, n)
        <5>1. n = flow.answer
          BY <1>1, <2>3
        <5>2. Closes(Append(papers[a].answers, flow.answer), flow.answer)
          BY <4>2, AppendedCloses
        <5>3. QED
          BY <4>1, <5>1, <5>2
      <4>4. QED
        BY <1>1, <4>1, <4>3 DEF Replies
    <3>3. CASE ~Counts(flow, a) /\ Over(a, n)
      <4>1. /\ page.held = a => flow.paper = a
            /\ flow.paper = a => /\ flow.at # "answering"
                                 /\ Closes(papers[a].answers, n)
        BY <1>1, <1>6, <2>3, <3>1, <3>3 DEF Counting, Submitted
      <4>2. papers'[a].answers = papers[a].answers
        BY <1>1, <3>1, <3>3 DEF Grows, Starts
      <4>3. flow.paper = a /\ flow.at = "reconciling" /\ flows'[h].reply.is = "ok" =>
              flows'[h].reply.answers = papers[a].answers
        BY <1>1, <4>2 DEF Replies
      <4>4. \A list : Closes(list, n) => Included(list, n)
        BY DEF Closes, Included
      <4>5. QED
        BY <1>1, <4>1, <4>2, <4>3, <4>4 DEF Replies
    <3>4. QED
      BY <3>1, <3>2, <3>3
  <2>4. Submitted(h)'
    BY <2>3 DEF Submitted, Closes, Included
  <2>5. QED
    BY <2>2, <2>4
<1>7. ASSUME h \notin Submitters
      PROVE  (\A g \in Submitters : Submitted(g)') /\ Shows'
  <2>1. \A a : ~Counts(flow, a)
    BY <1>3, <1>7
  <2>2. /\ \A a \in Papers', n \in Written : Over(a, n)' => a \in Papers /\ Over(a, n)
        /\ \A a \in Papers : papers'[a].answers = papers[a].answers
    BY <1>1, <1>5, <2>1 DEF Grows, Starts
  <2>3. ASSUME NEW g \in Submitters PROVE Submitted(g)'
    <3>1. Submitted(g) /\ flows'[g] = flows[g]
      BY <1>2, <1>7 DEF Counting, Submitters
    <3>2. QED
      BY <1>1, <2>2, <3>1 DEF Submitted, Closes
  <2>4. ASSUME NEW a \in Papers, NEW n \in Written, page.held = a, Over(a, n), Shown(a, n)
        PROVE  Shown(a, n)'
    <3>1. \A g \in Resuming : flows'[g].paper = a
      BY <1>2, <2>4 DEF Shown, Resuming
    <3>2. ASSUME NEW g \in Resuming, flows'[g].reply.is = "ok"
          PROVE  Has(flows'[g].reply.answers, n)
      <4>1. CASE g = h
        <5>1. flow.at \in {"resuming", "restarting"} /\ flow.paper = a
          BY <1>2, <3>1, <4>1 DEF Resuming
        <5>2. flows'[h].reply.answers = papers[a].answers
          BY <1>1, <2>2, <3>2, <4>1, <5>1 DEF Replies
        <5>3. QED
          BY <2>4, <4>1, <5>2, TimesHas
      <4>2. CASE g # h
        BY <1>2, <2>4, <3>2, <4>2 DEF Shown, Resuming
      <4>3. QED
        BY <4>1, <4>2
    <3>3. (\A g \in Handlers : flows'[g].at # "starting")
      BY <1>2, <2>4 DEF Shown
    <3>4. page'.screen = "chat" => Has(page'.log, n)
      BY <1>1, <2>4 DEF Shown
    <3>5. QED
      BY <1>2, <3>1, <3>2, <3>3, <3>4 DEF Shown, Has
  <2>5. Shows'
    BY <1>1, <1>2, <2>2, <2>4 DEF Counting, Shows
  <2>6. QED
    BY <2>3, <2>5
<1>8. \A g \in Submitters' : Submitted(g)'
  <2>1. h \in Submitters => Submitters = {h}
    BY SubmitterAlone
  <2>2. QED
    BY <1>2, <1>6, <1>7, <2>1
<1>9. QED
  BY <1>5, <1>6, <1>7, <1>8 DEF Counting

\* What is known of attempts together stays so when they grow.
LEMMA GrownAt ==
    ASSUME PageTyped, PapersKept, NEW flow \in Flow, Grows(flow), NEW a, Known(a)
    PROVE  /\ IsAt(a, {"submitted"}) => (a # None => papers'[a].status = "submitted")
           /\ IsAt(a, {"in_progress", "submitted"}) =>
                (a # None => papers'[a].status \in {"in_progress", "submitted"})
<1>1. flow.answer \in Nat
  BY DEF Flow
<1>2. \A b \in Papers : /\ papers[b].status = "submitted" => papers'[b].status = "submitted"
                        /\ papers[b].status # "not_started" => papers'[b].status # "not_started"
                        /\ papers'[b].status \in Stati
  BY <1>1, GrowsKeeps
<1>3. QED
  BY <1>2 DEF IsAt, Known, Stati

LEMMA GrownTogether ==
    ASSUME PageTyped, PapersKept, Together, NEW flow \in Flow, Grows(flow), page' = page,
           Beginning' = Beginning,
           \A g \in Handlers : /\ flows'[g].at = flows[g].at /\ flows'[g].paper = flows[g].paper
                               /\ flows'[g].conflict = flows[g].conflict
                               /\ \/ flows'[g].reply.is = "conflict" => flows[g].reply.is = "conflict"
                                  \/ flows[g].at = "answering" =>
                                       /\ papers' = papers /\ flows[g].paper \in Papers
                                       /\ papers[flows[g].paper].status # "in_progress"
    PROVE  Together'
<1>1. \A g \in Handlers : Known(flows[g].paper)
  BY DEF PapersKept
<1>2. Known(page.held) /\ Known(page.told)
  BY DEF PapersKept
<1>3. ASSUME NEW g \in Handlers
      PROVE  /\ flows'[g].at = "answering" => IsAt(flows[g].paper, {"in_progress", "submitted"})
             /\ flows'[g].at = "answering" /\ flows'[g].reply.is = "conflict" =>
                  IsAt(flows[g].paper, {"submitted"})
             /\ flows'[g].at = "reconciling" /\ flows'[g].conflict => IsAt(flows[g].paper, {"submitted"})
             /\ flows'[g].at = "reporting" => IsAt(flows[g].paper, {"submitted"})
  BY NoPaper DEF Together, IsAt
<1>4. ASSUME NEW g \in Handlers
      PROVE  /\ flows'[g].at = "answering" => (IsAt(flows[g].paper, {"in_progress", "submitted"}))'
             /\ flows'[g].at = "answering" /\ flows'[g].reply.is = "conflict" =>
                  (IsAt(flows[g].paper, {"submitted"}))'
             /\ flows'[g].at = "reconciling" /\ flows'[g].conflict =>
                  (IsAt(flows[g].paper, {"submitted"}))'
             /\ flows'[g].at = "reporting" => (IsAt(flows[g].paper, {"submitted"}))'
  <2>1. flows'[g].paper = flows[g].paper
    OBVIOUS
  <2>2. /\ IsAt(flows[g].paper, {"submitted"}) =>
             (flows[g].paper # None => papers'[flows[g].paper].status = "submitted")
        /\ IsAt(flows[g].paper, {"in_progress", "submitted"}) =>
             (flows[g].paper # None => papers'[flows[g].paper].status \in {"in_progress", "submitted"})
    BY <1>1, GrownAt
  <2>3. QED
    BY <1>3, <2>1, <2>2 DEF IsAt
<1>5. /\ page'.screen # "code" => (IsAt(page.held, {"in_progress", "submitted"}))'
      /\ page'.screen = "report" => (IsAt(page.held, {"submitted"}))'
      /\ (IsAt(page.told, {"submitted"}))'
  <2>1. /\ IsAt(page.held, {"submitted"}) =>
             (page.held # None => papers'[page.held].status = "submitted")
        /\ IsAt(page.held, {"in_progress", "submitted"}) =>
             (page.held # None => papers'[page.held].status \in {"in_progress", "submitted"})
        /\ IsAt(page.told, {"submitted"}) =>
             (page.told # None => papers'[page.told].status = "submitted")
    BY <1>2, GrownAt
  <2>2. /\ page.screen # "code" => IsAt(page.held, {"in_progress", "submitted"})
        /\ page.screen = "report" => IsAt(page.held, {"submitted"})
        /\ IsAt(page.told, {"submitted"})
    BY DEF Together
  <2>3. QED
    BY <2>1, <2>2 DEF IsAt
<1>6. /\ \A g \in Handlers : flows'[g].at \in {"resuming", "restarting", "answering", "reconciling"} =>
             page'.held \in {None, flows'[g].paper}
      /\ \A g \in Beginning' : /\ page'.screen = "code" /\ ~page'.begins /\ Beginning' = {g}
                               /\ flows'[g].at = "starting" => page'.held = flows'[g].paper
  BY DEF Together, Beginning
<1>7. QED
  BY <1>4, <1>5, <1>6 DEF Together

LEMMA GrownKnown ==
    ASSUME ClientAssumption, PageTyped, PapersKept, NEW flow \in Flow, Grows(flow),
           flow.at = "creating" => Len(papers) < MaxPapers,
           flow.at = "answering" => flow.answer \in 1..written,
           UNCHANGED <<page, saved, written>>,
           \A g \in Handlers : flows'[g].paper = flows[g].paper, strays' \subseteq strays
    PROVE  PapersKept'
<1>1. flow.answer \in Nat
  BY DEF Flow
<1>2. Papers \subseteq Papers'
  BY <1>1, GrowsKeeps
<1>3. /\ page'.held = None \/ page'.held \in Papers'
      /\ saved' = None \/ saved' \in Papers'
      /\ page'.told = None \/ page'.told \in Papers'
      /\ \A g \in Handlers : flows'[g].paper = None \/ flows'[g].paper \in Papers'
      /\ \A s \in strays' : s.flow.paper = None \/ s.flow.paper \in Papers'
  BY <1>2 DEF PapersKept, Known
<1>4. /\ Len(papers') <= MaxPapers
      /\ \A a \in Papers' :
           /\ Len(papers'[a].answers) <= Needed
           /\ papers'[a].status = "not_started" => papers'[a].answers = <<>>
           /\ papers'[a].status = "in_progress" => Len(papers'[a].answers) < Needed
           /\ \A i \in DOMAIN papers'[a].answers : papers'[a].answers[i] <= written'
  BY GrowsPapers
<1>5. QED
  BY <1>3, <1>4 DEF PapersKept, Known

LEMMA GrownCleared ==
    ASSUME PageTyped, ClearedTaken, NEW flow \in Flow, Grows(flow), cleared' = cleared
    PROVE  ClearedTaken'
<1>1. flow.answer \in Nat
  BY DEF Flow
<1>2. \A n \in Written : Taken(n) => Taken(n)'
  BY <1>1, GrowsKeeps
<1>3. \A n \in cleared : Repeats(n) \/ Taken(n)'
  BY <1>2 DEF ClearedTaken, PageTyped
<1>4. QED
  BY <1>3 DEF ClearedTaken

LEMMA ServeKeeps ==
    ASSUME ClientAssumption, PageInvariant, NEW h \in Handlers, Serve(h)
    PROVE  PageInvariant'
<1> USE DEF PageInvariant
<1> DEFINE flow == flows[h]
<1>1. /\ UNCHANGED <<page, saved, storing, strays, written, cleared, unsure, excuses, overlaps>>
      /\ flow \in Flow /\ Grows(flow) /\ Replies(flow, flows'[h].reply) /\ Turns(h, flows'[h])
      /\ flow.at = "creating" => Len(papers) < MaxPapers
      /\ flow.at = "answering" => flow.answer \in 1..written
      /\ flows'[h].at = flow.at /\ flows'[h].paper = flow.paper
      /\ flows'[h].answer = flow.answer /\ flows'[h].conflict = flow.conflict
  BY ServeShape
<1>2. /\ \A g \in Handlers : /\ flows'[g].at = flows[g].at /\ flows'[g].paper = flows[g].paper
                             /\ flows'[g].answer = flows[g].answer
                             /\ flows'[g].conflict = flows[g].conflict
                             /\ g # h => flows'[g] = flows[g]
      /\ Beginning' = Beginning /\ Resuming' = Resuming /\ Submitters' = Submitters
  BY <1>1, ServeFlows
<1>3. PageTyped'
  BY <1>1 DEF PageTyped, Grows, Turns
<1>4. PapersKept'
  BY <1>1, <1>2, GrownKnown
<1>5. RepliesTell'
  <2>1. ASSUME NEW g \in Handlers PROVE Tells(g)'
    <3>1. CASE g = h
      BY <3>1, ServeReply
    <3>2. CASE g # h
      <4>1. Tells(g)
        BY DEF RepliesTell
      <4>2. QED
        BY <1>1, <1>2, <3>2, <4>1, TellsStays
    <3>3. QED
      BY <3>1, <3>2
  <2>2. QED
    BY <2>1 DEF RepliesTell
<1>6. Unclaimed' /\ Counting'
  BY ServeUnclaimed, ServeCounts
<1>7. Owed'
  <2>1. Open' => Open
    BY <1>1, <1>2 DEF Open
  <2>2. QED
    BY <1>1, <2>1, ServeAttempts, SameExcuses, OwedLess
<1>8. Shut' /\ HeldAsSaved'
  <2>1. (\A g \in Handlers : flows'[g].at = "idle") <=> \A g \in Handlers : flows[g].at = "idle"
    BY <1>2
  <2>2. QED
    BY <1>1, <1>2, <2>1 DEF Shut, HeldAsSaved
<1>9. Boxed' /\ ClearedTaken'
  <2>1. Boxed'
    BY <1>1, <1>2 DEF Boxed, Submitters
  <2>2. QED
    BY <1>1, <2>1, GrownCleared
<1>10. ASSUME ~overlaps' PROVE Together'
  <2>1. Together
    BY <1>1, <1>10
  <2>2. \A g \in Handlers :
          \/ flows'[g].reply.is = "conflict" => flows[g].reply.is = "conflict"
          \/ flows[g].at = "answering" => /\ papers' = papers /\ flows[g].paper \in Papers
                                          /\ papers[flows[g].paper].status # "in_progress"
    BY <1>1, <1>2 DEF Replies
  <2>3. QED
    BY <1>1, <1>2, <2>1, <2>2, GrownTogether
<1>11. QED
  BY <1>3, <1>4, <1>5, <1>6, <1>7, <1>8, <1>9, <1>10

\* The server answers a request the page gave up on.
LEMMA ServeStrayShape ==
    ASSUME ClientAssumption, PageInvariant, NEW s \in strays, ServeStray(s)
    PROVE  /\ UNCHANGED <<page, saved, storing, flows, written, cleared, excuses, overlaps>>
           /\ strays' = strays \ {s} /\ s.flow \in Flow /\ Known(s.flow.paper)
           /\ s.flow.at = "creating" => Len(papers) < MaxPapers
           /\ s.flow.at = "answering" => s.flow.answer \in 1..written /\ s.flow.answer \in Written
           /\ Grows(s.flow)
           /\ unsure' \in [Written -> 0..Needed]
           /\ \A n \in Written : unsure'[n] >= unsure[n]
           /\ s.flow.at # "answering" => unsure' = unsure
           /\ s.flow.at = "answering" =>
                \A n \in Written : n = s.flow.answer \/ (\E g \in Submitters : n = flows[g].answer) =>
                  unsure'[n] = Needed \/ unsure'[n] = unsure[n] + 1
<1> USE DEF PageInvariant
<1>1. /\ UNCHANGED <<page, saved, storing, flows, written, cleared, excuses, overlaps>>
      /\ strays' = strays \ {s} /\ papers' = Served(s.flow).papers
      /\ s.flow.at = "creating" => Len(papers) < MaxPapers
  BY DEF ServeStray
<1>2. s.flow \in Flow /\ Known(s.flow.paper)
  BY DEF PageTyped, PapersKept
<1>3. s.flow.at = "answering" => s.flow.answer \in 1..written /\ s.flow.answer \in Written
  <2>1. 1..written \subseteq Written
    BY DEF PageTyped, Written
  <2>2. QED
    BY <2>1 DEF Boxed
<1>4. Grows(s.flow)
  BY <1>1, <1>2, <1>3, ServedGrows
<1>5. unsure \in [Written -> 0..Needed] /\ Needed \in Nat
  BY DEF PageTyped, ClientAssumption
<1>6. CASE s.flow.at # "answering"
  <2>1. unsure' = unsure
    BY <1>6 DEF ServeStray
  <2>2. QED
    BY <1>1, <1>2, <1>3, <1>4, <1>5, <1>6, <2>1
<1>7. CASE s.flow.at = "answering"
  <2> DEFINE hidden == {s.flow.answer} \cup {flows[g].answer : g \in Submitters}
  <2>1. Doubt(hidden)
    BY <1>7 DEF ServeStray
  <2>2. \A n \in Written :
          n \in hidden <=> n = s.flow.answer \/ \E g \in Submitters : n = flows[g].answer
    OBVIOUS
  <2> HIDE DEF hidden
  <2>3. /\ unsure' \in [Written -> 0..Needed]
        /\ \A n \in Written : n \notin hidden => unsure'[n] = unsure[n]
        /\ \A n \in hidden \cap Written : unsure'[n] = Needed \/ unsure'[n] = unsure[n] + 1
    BY <2>1, DoubtCounts
  <2>4. \A n \in Written : unsure'[n] >= unsure[n]
    BY <1>5, <2>3
  <2>5. QED
    BY <1>1, <1>2, <1>3, <1>4, <1>7, <2>2, <2>3, <2>4
<1>8. QED
  BY <1>6, <1>7

LEMMA ServeStrayAttempts ==
    ASSUME ClientAssumption, PageInvariant, NEW s \in strays, ServeStray(s)
    PROVE  Attempts' \in Nat /\ Attempts' <= Attempts
<1> USE DEF PageInvariant
<1>1. /\ Grows(s.flow) /\ flows' = flows /\ strays' = strays \ {s}
  BY ServeStrayShape
<1>2. /\ IsFiniteSet(Pending) /\ Cardinality(Creates) \in Nat /\ Cardinality(Pending) \in Nat
      /\ Len(papers) \in Nat
  BY RequestsFinite
<1>3. Pending' = Pending \ {s} /\ (s \in Pending <=> s.flow.at = "creating")
  BY <1>1 DEF Pending
<1>4. Creates' = Creates
  BY <1>1 DEF Creates
<1>5. /\ IsFiniteSet(Pending \ {s})
      /\ Cardinality(Pending \ {s}) = IF s \in Pending THEN Cardinality(Pending) - 1
                                      ELSE Cardinality(Pending)
  BY <1>2, FS_RemoveElement
<1>6. Cardinality(Pending') \in Nat
  BY <1>3, <1>5, FS_CardinalityType
<1>7. Len(papers') = IF s \in Pending THEN Len(papers) + 1 ELSE Len(papers)
  BY <1>1, <1>3 DEF Grows, Adds
<1>8. Attempts' = Len(papers') + Cardinality(Creates) + Cardinality(Pending')
  BY <1>4 DEF Attempts
<1>9. Attempts = Len(papers) + Cardinality(Creates) + Cardinality(Pending)
  BY DEF Attempts
<1>10. Len(papers') + Cardinality(Pending') = Len(papers) + Cardinality(Pending)
  BY <1>2, <1>3, <1>5, <1>7
<1>11. Len(papers') \in Nat
  BY <1>2, <1>7
<1>12. Attempts' = Attempts
  BY <1>2, <1>6, <1>8, <1>9, <1>10, <1>11
<1>13. QED
  BY <1>12, RequestsFinite

LEMMA StrayUnclaimed ==
    ASSUME ClientAssumption, PageInvariant, NEW s \in strays, ServeStray(s)
    PROVE  Unclaimed'
<1> USE DEF PageInvariant
<1>1. /\ page' = page /\ saved' = saved /\ flows' = flows /\ strays' = strays \ {s}
      /\ s.flow \in Flow /\ Grows(s.flow)
  BY ServeStrayShape
<1>2. ASSUME NEW g \in Handlers, NEW a, Offers(g, a)
      PROVE  Untouched(a)' /\ \A k \in Handlers : Offers(k, a) => k = g
  <2>1. a \in Papers
    BY <1>2 DEF Offers, RepliesTell, Tells
  <2>2. Untouched(a) /\ \A k \in Handlers : Offers(k, a) => k = g
    BY <1>2, <2>1 DEF Unclaimed
  <2>3. a # s.flow.paper
    BY <2>2 DEF Untouched
  <2>4. papers'[a].answers = <<>>
    BY <1>1, <2>1, <2>2, <2>3 DEF Grows, Starts, Counts, Untouched
  <2>5. Untouched(a)'
    BY <1>1, <2>2, <2>4 DEF Untouched
  <2>6. QED
    BY <2>2, <2>5
<1>3. \A g, a : Offers(g, a)' = Offers(g, a)
  BY <1>1 DEF Offers
<1>4. QED
  BY <1>2, <1>3 DEF Unclaimed

\* An answer that is counted once more while the page cannot know.
LEMMA DoubtedOnce ==
    ASSUME NEW t \in Nat, NEW more \in Nat, NEW u \in Nat, NEW doubt \in Nat, NEW needed \in Nat,
           t <= 1 + u, more = t \/ more = t + 1, more <= needed, doubt = needed \/ doubt = u + 1
    PROVE  more <= 1 + doubt /\ (more > doubt => t > u) /\ (more = t => ~(more > doubt))
OBVIOUS

LEMMA StrayOver ==
    ASSUME ClientAssumption, PageInvariant, NEW s \in strays, ServeStray(s)
    PROVE  /\ CountedOnce'
           /\ \A a \in Papers', n \in Written : Over(a, n)' =>
                /\ a \in Papers /\ Over(a, n)
                /\ \A g \in Submitters : flows[g].answer = n /\ Counts(s.flow, a) => n = s.flow.answer
<1> USE DEF PageInvariant
<1> DEFINE flow == s.flow
<1>1. /\ flow \in Flow /\ Grows(flow) /\ flows' = flows /\ written' = written
      /\ flow.at = "creating" => Len(papers) < MaxPapers
      /\ flow.at = "answering" => flow.answer \in 1..written
      /\ unsure' \in [Written -> 0..Needed] /\ \A n \in Written : unsure'[n] >= unsure[n]
      /\ flow.at = "answering" =>
           \A n \in Written : n = flow.answer \/ (\E g \in Submitters : n = flows[g].answer) =>
             unsure'[n] = Needed \/ unsure'[n] = unsure[n] + 1
  BY ServeStrayShape
<1>2. unsure \in [Written -> 0..Needed] /\ Needed \in Nat
  BY DEF PageTyped, ClientAssumption
<1>3. flow.answer \in Nat
  BY <1>1 DEF Flow
<1>4. \A a \in Papers' : a \in Papers \/ papers'[a].answers = <<>>
  BY <1>1, <1>3, GrowsKeeps DEF Adds
<1>5. ASSUME NEW a \in Papers', NEW n \in Written
      PROVE  /\ Times(a, n)' <= 1 + unsure'[n]
             /\ Times(a, n)' > unsure'[n] =>
                  /\ a \in Papers /\ Times(a, n) > unsure[n]
                  /\ \A g \in Submitters : flows[g].answer = n /\ Counts(flow, a) => n = flow.answer
  <2>1. unsure[n] \in Nat /\ unsure'[n] \in Nat /\ unsure'[n] >= unsure[n]
    BY <1>1, <1>2
  <2>2. CASE a \notin Papers
    <3>1. {i \in DOMAIN papers'[a].answers : papers'[a].answers[i] = n} = {}
      BY <1>4, <2>2
    <3>2. Times(a, n)' = 0
      BY <3>1, FS_EmptySet DEF Times
    <3>3. QED
      BY <2>1, <3>2
  <2>3. CASE a \in Papers
    <3>1. /\ Times(a, n) \in Nat /\ Times(a, n) <= 1 + unsure[n]
          /\ Times(a, n)' = IF Counts(flow, a) /\ flow.answer = n THEN Times(a, n) + 1
                            ELSE Times(a, n)
      BY <1>1, <2>3, GrowsTimes DEF Counting, CountedOnce
    <3>2. CASE ~Counts(flow, a)
      BY <2>1, <2>3, <3>1, <3>2
    <3>3. CASE Counts(flow, a)
      <4>1. /\ Times(a, n) <= Len(papers[a].answers) /\ Len(papers[a].answers) \in Nat
            /\ papers[a].answers \in Seq(Written)
        BY <2>3, TimesBound, PaperFields
      <4>2. Len(papers[a].answers) < Needed
        BY <2>3, <3>3 DEF Counts, PapersKept
      <4>3. Times(a, n)' \in Nat /\ Times(a, n)' <= Needed
        BY <1>2, <3>1, <4>1, <4>2
      <4>4. Times(a, n)' = Times(a, n) \/ Times(a, n)' = Times(a, n) + 1
        BY <3>1
      <4>5. CASE n = flow.answer \/ \E g \in Submitters : n = flows[g].answer
        <5>1. unsure'[n] = Needed \/ unsure'[n] = unsure[n] + 1
          BY <1>1, <3>3, <4>5 DEF Counts
        <5>2. /\ Times(a, n)' <= 1 + unsure'[n]
              /\ Times(a, n)' > unsure'[n] => Times(a, n) > unsure[n]
              /\ Times(a, n)' = Times(a, n) => ~(Times(a, n)' > unsure'[n])
          BY <1>2, <2>1, <3>1, <4>3, <4>4, <5>1, DoubtedOnce
        <5>3. n # flow.answer => Times(a, n)' = Times(a, n)
          BY <3>1
        <5>4. QED
          BY <2>3, <5>2, <5>3
      <4>6. CASE n # flow.answer /\ \A g \in Submitters : n # flows[g].answer
        BY <2>1, <2>3, <3>1, <4>6
      <4>7. QED
        BY <4>5, <4>6
    <3>4. QED
      BY <3>2, <3>3
  <2>4. QED
    BY <2>2, <2>3
<1>6. CountedOnce'
  BY <1>5 DEF CountedOnce
<1>7. \A a, n : Over(a, n) = (Times(a, n) > unsure[n]) /\ Over(a, n)' = (Times(a, n)' > unsure'[n])
  BY DEF Over
<1>8. QED
  BY <1>5, <1>6, <1>7

LEMMA StrayCounts ==
    ASSUME ClientAssumption, PageInvariant, NEW s \in strays, ServeStray(s)
    PROVE  Counting'
<1> USE DEF PageInvariant
<1>1. /\ UNCHANGED <<page, flows, written, cleared>> /\ s.flow \in Flow /\ Grows(s.flow)
  BY ServeStrayShape
<1>2. /\ CountedOnce'
      /\ \A a \in Papers', n \in Written : Over(a, n)' =>
           /\ a \in Papers /\ Over(a, n)
           /\ \A g \in Submitters : flows[g].answer = n /\ Counts(s.flow, a) => n = s.flow.answer
  BY StrayOver
<1>3. ASSUME NEW a \in Papers, NEW n, Closes(papers[a].answers, n),
             Counts(s.flow, a) => n = s.flow.answer
      PROVE  Closes(papers'[a].answers, n)
  <2>1. CASE Counts(s.flow, a)
    <3>1. papers'[a].answers = Append(papers[a].answers, s.flow.answer) /\ n = s.flow.answer
      BY <1>3, <2>1 DEF Counts
    <3>2. papers[a].answers \in Seq(Written)
      BY PaperFields
    <3>3. Closes(Append(papers[a].answers, s.flow.answer), s.flow.answer)
      BY <3>2, AppendedCloses
    <3>4. QED
      BY <3>1, <3>3
  <2>2. CASE ~Counts(s.flow, a)
    <3>1. papers'[a].answers = papers[a].answers
      BY <1>1, <2>2 DEF Grows, Starts
    <3>2. QED
      BY <1>3, <3>1
  <2>3. QED
    BY <2>1, <2>2
<1>4. Submitters' = Submitters /\ Resuming' = Resuming
  BY <1>1 DEF Submitters, Resuming
<1>5. ASSUME NEW g \in Submitters PROVE Submitted(g)'
  <2>1. Submitted(g)
    BY DEF Counting
  <2>2. ASSUME NEW a \in Papers', NEW n \in Written, flows[g].answer = n, Over(a, n)'
        PROVE  /\ page.held = a => flows[g].paper = a
               /\ flows[g].paper = a =>
                    /\ flows[g].at = "answering" => flows[g].reply.is # "none"
                    /\ flows[g].at = "answering" \/ flows[g].reply.is = "none" =>
                         Closes(papers'[a].answers, n)
                    /\ flows[g].at = "reconciling" /\ flows[g].reply.is = "ok" =>
                         Included(flows[g].reply.answers, n)
    <3>1. a \in Papers /\ Over(a, n) /\ (Counts(s.flow, a) => n = s.flow.answer)
      BY <1>2, <2>2
    <3>2. QED
      BY <1>3, <2>1, <2>2, <3>1 DEF Submitted
  <2>3. QED
    BY <1>1, <2>2 DEF Submitted, Closes, Included
<1>6. \A a \in Papers, n \in Written : Shown(a, n) => Shown(a, n)'
  BY <1>1, <1>4 DEF Shown, Has
<1>7. Shows'
  BY <1>1, <1>2, <1>4, <1>6 DEF Counting, Shows
<1>8. QED
  BY <1>2, <1>4, <1>5, <1>7 DEF Counting

LEMMA ServeStrayKeeps ==
    ASSUME ClientAssumption, PageInvariant, NEW s \in strays, ServeStray(s)
    PROVE  PageInvariant'
<1> USE DEF PageInvariant
<1>1. /\ UNCHANGED <<page, saved, storing, flows, written, cleared, excuses, overlaps>>
      /\ strays' = strays \ {s} /\ s.flow \in Flow /\ Grows(s.flow)
      /\ s.flow.at = "creating" => Len(papers) < MaxPapers
      /\ s.flow.at = "answering" => s.flow.answer \in 1..written
      /\ unsure' \in [Written -> 0..Needed]
  BY ServeStrayShape
<1>2. Beginning' = Beginning /\ Resuming' = Resuming /\ Submitters' = Submitters
  BY <1>1 DEF Beginning, Resuming, Submitters
<1>3. PageTyped'
  <2>1. IsFiniteSet(strays')
    <3>1. IsFiniteSet(strays) /\ strays' \in SUBSET strays
      BY <1>1 DEF PageTyped
    <3>2. QED
      BY <3>1, FS_Subset
  <2>2. QED
    BY <1>1, <2>1 DEF PageTyped, Grows
<1>4. PapersKept'
  BY <1>1, GrownKnown
<1>5. RepliesTell'
  <2>1. ASSUME NEW g \in Handlers PROVE Tells(g)'
    BY <1>1, TellsStays DEF RepliesTell
  <2>2. QED
    BY <2>1 DEF RepliesTell
<1>6. Unclaimed' /\ Counting'
  BY StrayUnclaimed, StrayCounts
<1>7. Owed'
  <2>1. Open' => Open
    BY <1>1, <1>2 DEF Open
  <2>2. QED
    BY <1>1, <2>1, ServeStrayAttempts, SameExcuses, OwedLess
<1>8. Shut' /\ HeldAsSaved' /\ Boxed'
  BY <1>1, <1>2 DEF Shut, HeldAsSaved, Boxed
<1>9. ClearedTaken'
  BY <1>1, GrownCleared
<1>10. ASSUME ~overlaps' PROVE Together'
  <2>1. Together
    BY <1>1, <1>10
  <2>2. QED
    BY <1>1, <1>2, <2>1, GrownTogether
<1>11. QED
  BY <1>3, <1>4, <1>5, <1>6, <1>7, <1>8, <1>9, <1>10

\* The learner's page keeps the invariant.
LEMMA PageSteps ==
    ASSUME ClientAssumption, PageInvariant, [NextClient]_clientVars
    PROVE  PageInvariant'
<1>1. CASE UNCHANGED clientVars
  <2>1. /\ UNCHANGED <<papers, page, saved, storing, flows, strays>>
        /\ UNCHANGED <<written, cleared, unsure, excuses, overlaps>>
    BY <1>1 DEF clientVars
  <2>2. /\ (PageTyped /\ PapersKept /\ RepliesTell /\ Unclaimed)'
    BY <2>1 DEF PageInvariant, PageTyped, PapersKept, Known, Papers, RepliesTell, Tells, Taken,
                Unclaimed, Offers, Untouched
  <2>3. (Owed /\ Shut /\ HeldAsSaved /\ Boxed)'
    BY <2>1 DEF PageInvariant, Owed, Attempts, Creates, Pending, Open, Beginning, Shut, HeldAsSaved,
                Resuming, Boxed, Submitters
  <2>4. (Counting /\ ClearedTaken)'
    BY <2>1 DEF PageInvariant, Counting, CountedOnce, Times, Papers, Submitters, Submitted, Over,
                Closes, Shows, Shown, Resuming, ClearedTaken, Taken
  <2>5. (~overlaps => Together)'
    BY <2>1 DEF PageInvariant, Together, IsAt, Beginning
  <2>6. QED
    BY <2>2, <2>3, <2>4, <2>5 DEF PageInvariant
<1>2. CASE \E h \in Handlers : Serve(h) \/ Fails(h)
  BY <1>2, ServeKeeps, FailsKeeps
<1>3. CASE \E h \in Handlers : Looking(h)
  BY <1>3, LookKeeps, ResumeKeeps, ViewKeeps DEF Looking
<1>4. CASE \E h \in Handlers : Entering(h)
  BY <1>4, BeginKeeps, CreatedKeeps, StartedKeeps DEF Entering
<1>5. CASE \E h \in Handlers : Answering(h)
  BY <1>5, SubmitKeeps, AnswerTakenKeeps, AnswerFailedKeeps, ReconcileKeeps DEF Answering
<1>6. CASE \E h \in Handlers : Reporting(h)
  BY <1>6, ReportKeeps DEF Reporting
<1>7. CASE \E s \in strays : ServeStray(s)
  BY <1>7, ServeStrayKeeps
<1>8. CASE Write \/ Reload
  BY <1>8, WriteKeeps, ReloadKeeps
<1>9. QED
  BY <1>1, <1>2, <1>3, <1>4, <1>5, <1>6, <1>7, <1>8 DEF NextClient

LEMMA PageHolds ==
    ASSUME ClientAssumption, PageInvariant
    PROVE  LearnerServed
<1> USE DEF PageInvariant
<1>1. OneAttempt
  <2>1. /\ Len(papers) \in Nat /\ Cardinality(Creates) \in Nat /\ Cardinality(Pending) \in Nat
        /\ excuses \in Nat /\ MaxPapers \in Nat /\ Len(papers) <= MaxPapers
    BY RequestsFinite DEF PageTyped, PapersKept, ClientAssumption
  <2> DEFINE open == IF Open THEN 1 ELSE 0
  <2>2. open \in Nat /\ (excuses = MaxPapers \/ Attempts + open <= 1 + excuses)
    BY DEF Owed
  <2>3. Attempts \in Nat /\ Len(papers) <= Attempts
    BY <2>1 DEF Attempts
  <2> HIDE DEF open
  <2>4. Len(papers) <= 1 + excuses
    BY <2>1, <2>2, <2>3
  <2>5. QED
    BY <2>4 DEF OneAttempt
<1>2. CountedOnce
  BY DEF Counting
<1>3. AnswersKept
  <2>1. ASSUME NEW n \in cleared, Taken(n) PROVE \E a \in Papers : Times(a, n) > 0
    <3>1. PICK a \in Papers : Has(papers[a].answers, n)
      BY <2>1 DEF Taken
    <3> DEFINE list == papers[a].answers
               found == {i \in DOMAIN list : list[i] = n}
    <3>2. list \in Seq(Written)
      BY PaperFields
    <3>3. found # {} /\ found \in SUBSET (1..Len(list)) /\ Len(list) \in Int /\ 1 \in Int
      BY <3>1, <3>2 DEF Has
    <3>4. IsFiniteSet(found)
      <4>1. IsFiniteSet(1..Len(list))
        BY <3>3, FS_Interval
      <4>2. QED
        BY <3>3, <4>1, FS_Subset
    <3>5. Times(a, n) = Cardinality(found)
      BY DEF Times
    <3> HIDE DEF found
    <3>6. Cardinality(found) \in Nat /\ Cardinality(found) # 0
      BY <3>3, <3>4, FS_CardinalityType, FS_EmptySet
    <3>7. QED
      BY <3>5, <3>6
  <2>2. QED
    BY <2>1 DEF ClearedTaken, AnswersKept
<1>4. ReportTold
  BY DEF ReportTold, Together, IsAt
<1>5. QED
  BY <1>1, <1>2, <1>3, <1>4 DEF LearnerServed

\* exam.js keeps the attempts and answers of its learner: it begins no second
\* attempt, has no answer counted twice, empties the box of no answer the server
\* did not take and calls no attempt submitted that is not, unless something that
\* it could not know of is to blame; for any number of handlers, texts and bounds.
THEOREM LearnerIsServed == SpecClient => []LearnerServed
<1>1. InitClient => PageInvariant
  BY ClientAssumption, PageBegins
<1>2. PageInvariant /\ [NextClient]_clientVars => PageInvariant'
  BY ClientAssumption, PageSteps
<1>3. PageInvariant => LearnerServed
  BY ClientAssumption, PageHolds
<1>4. QED
  BY <1>1, <1>2, <1>3, PTL DEF SpecClient

----------------------------------------------------------------------------
(* The ranking of a benchmark *)

Result == [profile : STRING, quality : Int, cost : Int, latency : Int]

\* Doing better is a weak order, which with the order asked for becomes total.
LEMMA BeforeOrder ==
    ASSUME NEW a \in Result, NEW b \in Result, NEW c \in Result
    PROVE  /\ ~(Before(a, b) /\ Before(b, a))
           /\ Before(a, b) /\ Before(b, c) => Before(a, c)
           /\ Before(a, c) => Before(a, b) \/ Before(b, c)
<1>1. /\ a.quality \in Int /\ a.cost \in Int /\ a.latency \in Int
      /\ b.quality \in Int /\ b.cost \in Int /\ b.latency \in Int
      /\ c.quality \in Int /\ c.cost \in Int /\ c.latency \in Int
  BY DEF Result
<1>2. QED
  BY <1>1 DEF Before

LEMMA AheadOrder ==
    ASSUME NEW list \in Seq(Result),
           NEW i \in DOMAIN list, NEW j \in DOMAIN list, NEW k \in DOMAIN list
    PROVE  /\ ~Ahead(list, i, i)
           /\ i # j => Ahead(list, i, j) \/ Ahead(list, j, i)
           /\ Ahead(list, i, j) /\ Ahead(list, j, k) => Ahead(list, i, k)
           /\ Ahead(list, i, j) => ~Before(list[j], list[i])
<1>1. /\ list[i] \in Result /\ list[j] \in Result /\ list[k] \in Result
      /\ i \in Int /\ j \in Int /\ k \in Int
  OBVIOUS
<1> DEFINE a == list[i]
           b == list[j]
           c == list[k]
<1>2. /\ ~(Before(a, b) /\ Before(b, a)) /\ ~Before(a, a)
      /\ Before(a, b) /\ Before(b, c) => Before(a, c)
      /\ Before(a, c) => Before(a, b) \/ Before(b, c)
      /\ Before(b, a) => Before(b, c) \/ Before(c, a)
      /\ Before(c, b) => Before(c, a) \/ Before(a, b)
      /\ Before(c, a) => Before(c, b) \/ Before(b, a)
      /\ Before(a, b) => Before(a, c) \/ Before(c, b)
      /\ Before(b, c) => Before(b, a) \/ Before(a, c)
  BY <1>1, BeforeOrder
<1> HIDE DEF a, b, c
<1>3. /\ Ahead(list, i, i) = (Before(a, a) \/ (~Before(a, a) /\ i < i))
      /\ Ahead(list, i, j) = (Before(a, b) \/ (~Before(b, a) /\ i < j))
      /\ Ahead(list, j, i) = (Before(b, a) \/ (~Before(a, b) /\ j < i))
      /\ Ahead(list, j, k) = (Before(b, c) \/ (~Before(c, b) /\ j < k))
      /\ Ahead(list, i, k) = (Before(a, c) \/ (~Before(c, a) /\ i < k))
  BY DEF Ahead, a, b, c
<1>4. /\ ~(i < i) /\ (i # j => i < j \/ j < i) /\ (i < j /\ j < k => i < k)
  BY <1>1
<1>5. /\ ~Ahead(list, i, i)
      /\ i # j => Ahead(list, i, j) \/ Ahead(list, j, i)
      /\ Ahead(list, i, j) /\ Ahead(list, j, k) => Ahead(list, i, k)
      /\ Ahead(list, i, j) => ~Before(b, a)
  BY <1>2, <1>3, <1>4
<1>6. QED
  BY <1>5 DEF a, b

\* Places are given in that order, one each.
LEMMA PlaceOrder ==
    ASSUME NEW list \in Seq(Result), NEW i \in DOMAIN list, NEW j \in DOMAIN list
    PROVE  /\ Place(list, i) \in 1..Len(list)
           /\ Ahead(list, i, j) => Place(list, i) < Place(list, j)
<1> DEFINE all == DOMAIN list
           before(k) == {l \in all : Ahead(list, l, k)}
<1>1. IsFiniteSet(all) /\ Cardinality(all) = Len(list) /\ Len(list) \in Nat
  <2>1. all = 1..Len(list) /\ Len(list) \in Nat /\ Len(list) \in Int /\ 1 \in Int
    OBVIOUS
  <2>2. IsFiniteSet(1..Len(list)) /\ Cardinality(1..Len(list)) = IF 1 > Len(list) THEN 0 ELSE Len(list) - 1 + 1
    BY <2>1, FS_Interval
  <2>3. QED
    BY <2>1, <2>2
<1>2. ASSUME NEW k \in all
      PROVE  /\ IsFiniteSet(before(k)) /\ Cardinality(before(k)) \in Nat
             /\ Cardinality(before(k)) <= Len(list) - 1
             /\ Place(list, k) = 1 + Cardinality(before(k))
  <2>1. before(k) \in SUBSET (all \ {k})
    BY <1>2, AheadOrder
  <2>2. IsFiniteSet(all \ {k}) /\ Cardinality(all \ {k}) = Len(list) - 1
    BY <1>1, <1>2, FS_RemoveElement
  <2>3. IsFiniteSet(before(k)) /\ Cardinality(before(k)) <= Cardinality(all \ {k})
    BY <2>1, <2>2, FS_Subset
  <2>4. Cardinality(before(k)) \in Nat
    BY <2>3, FS_CardinalityType
  <2>5. QED
    BY <2>2, <2>3, <2>4 DEF Place
<1>3. Place(list, i) \in 1..Len(list)
  <2> HIDE DEF before
  <2>1. QED
    BY <1>1, <1>2
<1>4. ASSUME Ahead(list, i, j) PROVE Place(list, i) < Place(list, j)
  <2>1. before(i) \cup {i} \in SUBSET before(j) /\ i \notin before(i)
    BY <1>4, AheadOrder
  <2>2. Cardinality(before(i) \cup {i}) = Cardinality(before(i)) + 1
    BY <1>2, <2>1, FS_AddElement
  <2>3. Cardinality(before(i) \cup {i}) <= Cardinality(before(j))
    BY <1>2, <2>1, FS_Subset
  <2>4. /\ Place(list, i) = 1 + Cardinality(before(i)) /\ Place(list, j) = 1 + Cardinality(before(j))
        /\ Cardinality(before(i)) \in Nat /\ Cardinality(before(j)) \in Nat
    BY <1>2
  <2> HIDE DEF before
  <2>5. QED
    BY <2>2, <2>3, <2>4
<1>5. QED
  BY <1>3, <1>4

LEMMA PlacesTaken ==
    ASSUME NEW list \in Seq(Result), NEW n \in DOMAIN list
    PROVE  \E i \in DOMAIN list : Place(list, i) = n
<1> DEFINE all == 1..Len(list)
           f == [i \in all |-> Place(list, i)]
<1>1. all = DOMAIN list /\ Len(list) \in Int /\ 1 \in Int
  OBVIOUS
<1>2. IsFiniteSet(all)
  BY <1>1, FS_Interval
<1>3. f \in [all -> all]
  BY <1>1, PlaceOrder
<1>4. \A i, j \in all : f[i] = f[j] => i = j
  <2>1. ASSUME NEW i \in all, NEW j \in all, i # j PROVE Place(list, i) # Place(list, j)
    <3>1. Ahead(list, i, j) \/ Ahead(list, j, i)
      BY <1>1, <2>1, AheadOrder
    <3>2. /\ Place(list, i) \in Int /\ Place(list, j) \in Int
          /\ Ahead(list, i, j) => Place(list, i) < Place(list, j)
          /\ Ahead(list, j, i) => Place(list, j) < Place(list, i)
      BY <1>1, PlaceOrder
    <3>3. QED
      BY <3>1, <3>2
  <2>2. QED
    BY <2>1
<1>5. f \in Injection(all, all)
  BY <1>3, <1>4 DEF Injection, IsInjective
<1>6. f \in Surjection(all, all)
  BY <1>2, <1>5, FS_Injection
<1>7. PICK i \in all : f[i] = n
  BY <1>1, <1>6 DEF Surjection
<1>8. QED
  BY <1>1, <1>7

\* Who is ranked, once each and in order.
LEMMA RankedShape ==
    ASSUME NEW list \in Seq(Result)
    PROVE  /\ Ranked(list) \in Seq(Result) /\ DOMAIN Ranked(list) = DOMAIN list
           /\ \A n \in DOMAIN list : \E i \in DOMAIN list :
                Ranked(list)[n] = list[i] /\ Place(list, i) = n
           /\ \A i \in DOMAIN list : \E n \in DOMAIN list :
                Ranked(list)[n] = list[i] /\ Place(list, i) = n
           /\ \A n, m \in DOMAIN list : n < m => ~Before(Ranked(list)[m], Ranked(list)[n])
<1> DEFINE at(n) == CHOOSE i \in DOMAIN list : Place(list, i) = n
<1>1. \A n \in DOMAIN list : at(n) \in DOMAIN list /\ Place(list, at(n)) = n
  BY PlacesTaken
<1>2. Ranked(list) = [n \in DOMAIN list |-> list[at(n)]]
  BY DEF Ranked
<1> HIDE DEF at
<1>3. /\ Ranked(list) \in Seq(Result) /\ DOMAIN Ranked(list) = DOMAIN list
      /\ \A n \in DOMAIN list : Ranked(list)[n] = list[at(n)]
  <2>1. DOMAIN list = 1..Len(list) /\ Len(list) \in Nat /\ \A i \in DOMAIN list : list[i] \in Result
    OBVIOUS
  <2>2. QED
    BY <1>1, <1>2, <2>1
<1>4. \A i, j \in DOMAIN list : Place(list, i) = Place(list, j) => i = j
  <2>1. ASSUME NEW i \in DOMAIN list, NEW j \in DOMAIN list, i # j
        PROVE  Place(list, i) # Place(list, j)
    <3>1. Ahead(list, i, j) \/ Ahead(list, j, i)
      BY <2>1, AheadOrder
    <3>2. /\ Place(list, i) \in Int /\ Place(list, j) \in Int
          /\ Ahead(list, i, j) => Place(list, i) < Place(list, j)
          /\ Ahead(list, j, i) => Place(list, j) < Place(list, i)
      BY PlaceOrder
    <3>3. QED
      BY <3>1, <3>2
  <2>2. QED
    BY <2>1
<1>5. \A i \in DOMAIN list : /\ Place(list, i) \in DOMAIN list /\ at(Place(list, i)) = i
  BY <1>1, <1>4, PlaceOrder
<1>6. ASSUME NEW n \in DOMAIN list, NEW m \in DOMAIN list, n < m
      PROVE  ~Before(list[at(m)], list[at(n)])
  <2>1. /\ at(n) \in DOMAIN list /\ at(m) \in DOMAIN list
        /\ Place(list, at(n)) = n /\ Place(list, at(m)) = m /\ n \in Int /\ m \in Int
    BY <1>1
  <2>2. ~Ahead(list, at(m), at(n))
    <3>1. Ahead(list, at(m), at(n)) => m < n
      BY <2>1, PlaceOrder
    <3>2. QED
      BY <1>6, <2>1, <3>1
  <2>3. at(n) # at(m)
    BY <1>6, <2>1
  <2>4. Ahead(list, at(n), at(m))
    BY <2>1, <2>2, <2>3, AheadOrder
  <2>5. QED
    BY <2>1, <2>4, AheadOrder
<1>7. QED
  BY <1>1, <1>3, <1>5, <1>6

----------------------------------------------------------------------------
(* What examinations run on: the inductive invariant *)

PromptStates == {"absent", "draft", "candidate", "active"}
MadeBy == SUBSET (0..MaxPrompts)
DatasetRow ==
    [number : Nat, ready : BOOLEAN, used : MadeBy, manifest : 0..MaxPrompts,
     status : {"ready", "needs_review", "candidate", "frozen", "deprecated"},
     shifted : BOOLEAN, recounted : BOOLEAN]
BlueprintRow ==
    [number : Nat, template : Templates \cup {"none"}, fits : BOOLEAN, recounted : BOOLEAN]
RankingRow == [ranked : Seq(Result), used : MadeBy, shifted : BOOLEAN]

Prompting == {"add", "activate"}
Making == {"dataset", "blueprint", "visual", "benchmark"}
PromptFields == {"op", "at", "version", "status", "matched", "demoted", "overtaken"}
MakingFields ==
    {"op", "at", "job", "try", "template", "used", "shifted", "measured", "repairs",
     "corrected", "left"}
SessionFields == {"op", "at", "blueprint", "template"}

MaterialTyped ==
    /\ prompts \in [Numbers -> PromptStates]
    /\ datasets \in Seq(DatasetRow) /\ blueprints \in Seq(BlueprintRow)
    /\ rankings \in Seq(RankingRow) /\ DOMAIN tasks = Tasks

\* A request to activate a version knows all that are active, unless another
\* one committed since it asked.
PromptSound(task) ==
    task.op \in Prompting =>
        /\ PromptFields \subseteq DOMAIN task
        /\ task.version \in Numbers /\ task.status \in {"active", "draft"}
        /\ task.at \in {"update", "locks", "write"}
        /\ task.status = "draft" => task.at = "write" /\ task.demoted = {} /\ task.op = "add"
        /\ task.at = "locks" => task.overtaken \/ task.matched = Active
        /\ task.at = "write" /\ task.status = "active" => task.overtaken \/ task.demoted = Active

\* What is being made was made with the prompts that are active, unless some were
\* activated since.
MakingSound(task) ==
    task.op \in Making =>
        /\ MakingFields \subseteq DOMAIN task
        /\ task.used \in MadeBy /\ task.shifted \in BOOLEAN
        /\ task.template \in Templates \cup {"none"} /\ task.measured \in Seq(Result)
        /\ task.shifted \/ task.used \subseteq {Effective}
        /\ task.op \notin {"dataset", "benchmark"} => task.used = {}
DatasetSound(task) ==
    task.op = "dataset" /\ task.at = "store" =>
        /\ {"manifest", "number", "ready"} \subseteq DOMAIN task
        /\ task.number \in Nat /\ task.ready \in BOOLEAN /\ task.manifest \in 0..MaxPrompts
        /\ task.shifted \/ task.used = {task.manifest}
BlueprintSound(task) ==
    task.op = "blueprint" /\ task.at \in {"planned", "store"} =>
        /\ "fits" \in DOMAIN task /\ task.fits \in BOOLEAN
        /\ task.template # "none" => task.fits
        /\ task.at = "store" => "number" \in DOMAIN task /\ task.number \in Nat
BenchmarkSound(task) ==
    task.op = "benchmark" =>
        /\ Len(task.measured) <= Len(Profiles)
        /\ \A i \in DOMAIN task.measured : task.measured[i].profile = Profiles[i]
        /\ task.measured # <<>> => task.used # {}
SessionSound(task) ==
    task.op = "session" =>
        /\ SessionFields \subseteq DOMAIN task /\ task.blueprint \in DOMAIN blueprints
        /\ task.template # "benchmark" => Compatible(task.blueprint, task.template)
        /\ task.at = "create" => task.blueprint \in graphs

TaskSound(task) ==
    /\ "op" \in DOMAIN task /\ task.op \in {"none", "session"} \cup Prompting \cup Making
    /\ PromptSound(task) /\ MakingSound(task) /\ DatasetSound(task) /\ BlueprintSound(task)
    /\ BenchmarkSound(task) /\ SessionSound(task)

MaterialTold == PromptStays /\ VersionsHonest /\ RankedFairly /\ SessionsGrounded

MaterialInvariant ==
    /\ MaterialTyped /\ MaterialTold
    /\ \A t \in Tasks : TaskSound(tasks[t])
    /\ \A s \in interviews : s.blueprint \in DOMAIN blueprints

----------------------------------------------------------------------------
\* The task of a request changes.
LEMMA OntoFields ==
    ASSUME NEW change, NEW old
    PROVE  /\ DOMAIN Onto(change, old) = DOMAIN change \cup DOMAIN old
           /\ \A field \in DOMAIN change : Onto(change, old)[field] = change[field]
           /\ \A field \in DOMAIN old \ DOMAIN change : Onto(change, old)[field] = old[field]
BY DEF Onto

LEMMA DoTurns ==
    ASSUME MaterialTyped, NEW t \in Tasks, NEW change, Do(t, change)
    PROVE  /\ DOMAIN tasks' = Tasks /\ tasks'[t] = Onto(change, tasks[t])
           /\ \A u \in Tasks : u # t => tasks'[u] = tasks[u]
BY DEF MaterialTyped, Do

LEMMA EndTurns ==
    ASSUME MaterialTyped, NEW t \in Tasks, EndTask(t)
    PROVE  /\ DOMAIN tasks' = Tasks /\ tasks'[t] = Free
           /\ \A u \in Tasks : u # t => tasks'[u] = tasks[u]
BY DEF MaterialTyped, EndTask

LEMMA FreeSound == TaskSound(Free)
BY DEF Free, TaskSound, PromptSound, MakingSound, DatasetSound, BlueprintSound, BenchmarkSound,
       SessionSound, Prompting, Making

\* A set of versions that is not empty has a newest one.
LEMMA NewestVersion ==
    ASSUME MaxPrompts \in Nat, NEW versions \in SUBSET (0..MaxPrompts), versions # {}
    PROVE  Max(versions) \in versions
<1> DEFINE later == {v..MaxPrompts : v \in versions}
<1>1. later \subseteq FiniteSubsetsOf(Nat) /\ later # {}
  <2>1. ASSUME NEW v \in versions
        PROVE  v..MaxPrompts \subseteq Nat /\ IsFiniteSet(v..MaxPrompts)
    BY FS_Interval
  <2>2. QED
    BY <2>1 DEF FiniteSubsetsOf
<1>2. PICK s \in later : \A r \in later : ~ (<<r, s>> \in StrictSubsetOrdering(Nat))
  BY <1>1, FS_StrictSubsetOrderingWellFounded, WFMin
<1>3. PICK v \in versions : s = v..MaxPrompts
  BY <1>2
<1>4. ASSUME NEW w \in versions, w > v
      PROVE  FALSE
  <2>1. /\ w..MaxPrompts \subseteq v..MaxPrompts /\ w..MaxPrompts # v..MaxPrompts
        /\ w..MaxPrompts \subseteq Nat /\ v..MaxPrompts \subseteq Nat
    BY <1>4
  <2>2. <<w..MaxPrompts, s>> \in StrictSubsetOrdering(Nat)
    BY <1>3, <2>1 DEF StrictSubsetOrdering
  <2>3. QED
    BY <1>2, <2>2
<1>5. \A w \in versions : v >= w
  BY <1>4
<1>6. QED
  BY <1>5 DEF Max

LEMMA EffectiveIsVersion ==
    ASSUME AuthoringAssumption
    PROVE  Effective \in 0..MaxPrompts
<1>1. MaxPrompts \in Nat /\ Active \cup {0} \in SUBSET (0..MaxPrompts) /\ Active \cup {0} # {}
  BY DEF AuthoringAssumption, Active, Numbers
<1>2. QED
  BY <1>1, NewestVersion DEF Effective

\* A task goes on while no prompt changes and what there is grows.
Grown ==
    /\ prompts' = prompts
    /\ graphs \subseteq graphs' /\ DOMAIN blueprints \subseteq DOMAIN blueprints'
    /\ \A b \in DOMAIN blueprints : blueprints'[b].template = blueprints[b].template

LEMMA TaskStays ==
    ASSUME NEW task, TaskSound(task), Grown
    PROVE  TaskSound(task)'
<1>1. Active' = Active /\ Effective' = Effective
  BY DEF Grown, Active, Effective
<1>2. SessionSound(task)'
  BY DEF TaskSound, SessionSound, Grown, Compatible
<1>3. QED
  BY <1>1, <1>2 DEF TaskSound, PromptSound, MakingSound, DatasetSound, BlueprintSound, BenchmarkSound

\* A step changes what one task is doing, and nothing that others depend on.
LEMMA TaskTurns ==
    ASSUME MaterialInvariant, NEW t \in Tasks, NEW task, TaskSound(task),
           DOMAIN tasks' = Tasks, tasks'[t] = task,
           \A u \in Tasks : u # t => tasks'[u] = tasks[u],
           UNCHANGED <<prompts, datasets, blueprints, graphs, interviews, rankings,
                       activated, coincided>>
    PROVE  MaterialInvariant'
<1>1. Grown /\ Active' = Active
  BY DEF Grown, Active
<1>2. ASSUME NEW u \in Tasks PROVE TaskSound(tasks[u])'
  <2>1. TaskSound(tasks[u]) /\ (u # t => tasks'[u] = tasks[u]) /\ (u = t => tasks'[u] = task)
    BY DEF MaterialInvariant
  <2>2. PICK kept : kept = tasks'[u] /\ TaskSound(kept)
    BY <2>1
  <2>3. TaskSound(kept)'
    BY <1>1, <2>2, TaskStays
  <2>4. QED
    BY <2>2, <2>3
<1>3. MaterialTyped'
  BY DEF MaterialInvariant, MaterialTyped
<1>4. MaterialTold'
  BY <1>1 DEF MaterialInvariant, MaterialTold, PromptStays, VersionsHonest, RankedFairly,
              SessionsGrounded
<1>5. QED
  BY <1>2, <1>3, <1>4 DEF MaterialInvariant

----------------------------------------------------------------------------
\* Requests for a prompt, before their commit.
LEMMA PromptTurnKeeps ==
    ASSUME AuthoringAssumption, MaterialInvariant, NEW t \in Tasks,
           AskPrompt(t) \/ MatchActive(t) \/ DemoteActive(t)
    PROVE  MaterialInvariant'
<1>1. MaterialTyped /\ TaskSound(tasks[t])
  BY DEF MaterialInvariant
<1>2. CASE AskPrompt(t)
  <2>1. PICK op \in Prompting, at \in {"update", "write"}, v \in Numbers,
             status \in {"active", "draft"} :
            /\ Do(t, [op |-> op, at |-> at, version |-> v, status |-> status,
                      matched |-> {}, demoted |-> {}, overtaken |-> FALSE])
            /\ IF status = "active" THEN at = "update" ELSE at = "write" /\ op = "add"
    <3>1. \/ \E activate \in BOOLEAN, v \in Numbers :
                Do(t, [op |-> "add", at |-> IF activate THEN "update" ELSE "write",
                       version |-> v, status |-> IF activate THEN "active" ELSE "draft",
                       matched |-> {}, demoted |-> {}, overtaken |-> FALSE])
          \/ \E v \in Numbers :
                Do(t, [op |-> "activate", at |-> "update", version |-> v, status |-> "active",
                       matched |-> {}, demoted |-> {}, overtaken |-> FALSE])
      BY <1>2 DEF AskPrompt, Existing
    <3>2. QED
      BY <3>1 DEF Prompting
  <2> DEFINE change == [op |-> op, at |-> at, version |-> v, status |-> status,
                        matched |-> {}, demoted |-> {}, overtaken |-> FALSE]
  <2>2. PICK task : task = Onto(change, tasks[t])
    OBVIOUS
  <2>3. /\ PromptFields \subseteq DOMAIN task /\ task.op = op /\ task.at = at /\ task.version = v
        /\ task.status = status /\ task.matched = {} /\ task.demoted = {}
    BY <2>2 DEF Onto, PromptFields
  <2>4. TaskSound(task)
    BY <2>1, <2>3 DEF TaskSound, PromptSound, MakingSound, DatasetSound, BlueprintSound,
                      BenchmarkSound, SessionSound, Prompting, Making, PromptFields
  <2>5. QED
    BY <1>1, <1>2, <2>1, <2>2, <2>4, DoTurns, TaskTurns DEF AskPrompt
<1>3. CASE MatchActive(t)
  <2> DEFINE change == [at |-> "locks", matched |-> Active]
  <2>1. PICK task : task = Onto(change, tasks[t])
    OBVIOUS
  <2>2. PromptFields \subseteq DOMAIN tasks[t] /\ tasks[t].op \in Prompting /\ tasks[t].at = "update"
    BY <1>1, <1>3 DEF MatchActive, TaskSound, PromptSound, Prompting
  <2>3. /\ PromptFields \subseteq DOMAIN task /\ task.at = "locks" /\ task.matched = Active
        /\ task.op = tasks[t].op /\ task.version = tasks[t].version
        /\ task.status = tasks[t].status /\ task.demoted = tasks[t].demoted
    BY <2>1, <2>2 DEF Onto, PromptFields
  <2>4. TaskSound(task)
    BY <1>1, <2>2, <2>3 DEF TaskSound, PromptSound, MakingSound, DatasetSound, BlueprintSound,
                            BenchmarkSound, SessionSound, Prompting, Making, PromptFields
  <2>5. QED
    BY <1>1, <1>3, <2>1, <2>4, DoTurns, TaskTurns DEF MatchActive
<1>4. CASE DemoteActive(t)
  <2> DEFINE change == [at |-> "write", demoted |-> tasks[t].matched \cap Active]
  <2>1. PICK task : task = Onto(change, tasks[t])
    OBVIOUS
  <2>2. PromptFields \subseteq DOMAIN tasks[t] /\ tasks[t].op \in Prompting /\ tasks[t].at = "locks"
    BY <1>1, <1>4 DEF DemoteActive, TaskSound, PromptSound, Prompting
  <2>3. /\ PromptFields \subseteq DOMAIN task /\ task.at = "write"
        /\ task.demoted = tasks[t].matched \cap Active
        /\ task.op = tasks[t].op /\ task.version = tasks[t].version
        /\ task.status = tasks[t].status /\ task.overtaken = tasks[t].overtaken
    BY <2>1, <2>2 DEF Onto, PromptFields
  <2>4. TaskSound(task)
    BY <1>1, <2>2, <2>3 DEF TaskSound, PromptSound, MakingSound, DatasetSound, BlueprintSound,
                            BenchmarkSound, SessionSound, Prompting, Making, PromptFields
  <2>5. QED
    BY <1>1, <1>4, <2>1, <2>4, DoTurns, TaskTurns DEF DemoteActive
<1>5. QED
  BY <1>2, <1>3, <1>4

\* What the commit of a prompt leaves active.
LEMMA PromotedActive ==
    ASSUME MaterialTyped, NEW t \in Tasks, TaskSound(tasks[t]), tasks[t].op \in Prompting,
           tasks[t].at = "write", prompts' = Promoted(t),
           tasks[t].op = "add" => tasks[t].version \notin Existing
    PROVE  /\ prompts' \in [Numbers -> PromptStates]
           /\ tasks[t].status = "active" => tasks[t].version \in Active'
           /\ tasks[t].status = "active" /\ ~tasks[t].overtaken => Active' = {tasks[t].version}
           /\ tasks[t].status = "draft" => Active' = Active
<1>1. /\ tasks[t].version \in Numbers /\ tasks[t].status \in {"active", "draft"}
      /\ tasks[t].status = "draft" => tasks[t].demoted = {} /\ tasks[t].op = "add"
      /\ tasks[t].status = "active" => tasks[t].overtaken \/ tasks[t].demoted = Active
  BY DEF TaskSound, PromptSound
<1>2. \A v \in Numbers :
        prompts'[v] = IF v = tasks[t].version THEN tasks[t].status
                      ELSE IF v \in tasks[t].demoted THEN "candidate" ELSE prompts[v]
  BY DEF Promoted
<1>3. prompts' \in [Numbers -> PromptStates]
  BY <1>1 DEF Promoted, MaterialTyped, PromptStates
<1>4. Active' = {v \in Numbers : prompts'[v] = "active"}
  BY DEF Active
<1>5. tasks[t].status = "active" /\ ~tasks[t].overtaken => Active' = {tasks[t].version}
  BY <1>1, <1>2, <1>4 DEF Active
<1>6. tasks[t].status = "draft" => Active' = Active
  <2>1. tasks[t].status = "draft" => tasks[t].version \notin Active /\ tasks[t].demoted = {}
    BY <1>1 DEF Existing, Active
  <2>2. QED
    BY <1>1, <1>2, <1>4, <2>1 DEF Active
<1>7. QED
  BY <1>1, <1>2, <1>3, <1>4, <1>5, <1>6

\* What others are doing when a prompt is committed.
LEMMA OthersShift ==
    ASSUME MaterialTyped, NEW t \in Tasks, NEW u \in Tasks, u # t, TaskSound(tasks[u]),
           NEW task,
           task = IF tasks[u].op \in {"dataset", "benchmark"} /\ tasks[u].used # {}
                  THEN [tasks[u] EXCEPT !.shifted = TRUE]
                  ELSE IF tasks[t].status = "active" /\ tasks[u].op \in {"add", "activate"}
                          /\ tasks[u].at # "update"
                  THEN [tasks[u] EXCEPT !.overtaken = TRUE] ELSE tasks[u],
           tasks[t].status = "active" \/ Active' = Active,
           UNCHANGED <<blueprints, graphs>>
    PROVE  TaskSound(task)'
<1>1. CASE tasks[u].op \in {"dataset", "benchmark"} /\ tasks[u].used # {}
  <2>1. MakingFields \subseteq DOMAIN tasks[u] /\ task = [tasks[u] EXCEPT !.shifted = TRUE]
    BY <1>1 DEF TaskSound, MakingSound, Making
  <2>2. /\ DOMAIN task = DOMAIN tasks[u] /\ task.shifted = TRUE
        /\ \A field \in DOMAIN tasks[u] : field # "shifted" => task[field] = tasks[u][field]
    BY <2>1 DEF MakingFields
  <2>3. /\ task.op = tasks[u].op /\ task.at = tasks[u].at /\ task.used = tasks[u].used
        /\ task.template = tasks[u].template /\ task.measured = tasks[u].measured
    BY <2>1, <2>2 DEF MakingFields
  <2>4. task.op = "dataset" /\ task.at = "store" =>
            /\ {"manifest", "number", "ready"} \subseteq DOMAIN task
            /\ task.number = tasks[u].number /\ task.ready = tasks[u].ready
            /\ task.manifest = tasks[u].manifest
    BY <2>2, <2>3 DEF TaskSound, DatasetSound
  <2>5. QED
    BY <1>1, <2>1, <2>2, <2>3, <2>4
       DEF TaskSound, PromptSound, MakingSound, DatasetSound, BlueprintSound,
           BenchmarkSound, SessionSound, Prompting, Making
<1>2. CASE /\ ~(tasks[u].op \in {"dataset", "benchmark"} /\ tasks[u].used # {})
           /\ tasks[t].status = "active" /\ tasks[u].op \in {"add", "activate"}
           /\ tasks[u].at # "update"
  <2>1. PromptFields \subseteq DOMAIN tasks[u] /\ task = [tasks[u] EXCEPT !.overtaken = TRUE]
    BY <1>2 DEF TaskSound, PromptSound, Prompting
  <2>2. /\ DOMAIN task = DOMAIN tasks[u] /\ task.overtaken = TRUE
        /\ \A field \in DOMAIN tasks[u] : field # "overtaken" => task[field] = tasks[u][field]
    BY <2>1 DEF PromptFields
  <2>3. /\ task.op = tasks[u].op /\ task.at = tasks[u].at /\ task.version = tasks[u].version
        /\ task.status = tasks[u].status /\ task.demoted = tasks[u].demoted
    BY <2>1, <2>2 DEF PromptFields
  <2>4. QED
    BY <1>2, <2>1, <2>2, <2>3
       DEF TaskSound, PromptSound, MakingSound, DatasetSound, BlueprintSound,
           BenchmarkSound, SessionSound, Prompting, Making
<1>3. CASE /\ ~(tasks[u].op \in {"dataset", "benchmark"} /\ tasks[u].used # {})
           /\ ~(tasks[t].status = "active" /\ tasks[u].op \in {"add", "activate"}
                /\ tasks[u].at # "update")
  <2>1. task = tasks[u]
    BY <1>3
  <2>2. SessionSound(task)' = SessionSound(task)
    BY DEF SessionSound, Compatible
  <2>3. PromptSound(task)'
    BY <1>3, <2>1 DEF TaskSound, PromptSound, Prompting
  <2>4. MakingSound(task)'
    BY <1>3, <2>1 DEF TaskSound, MakingSound, Making
  <2>5. DatasetSound(task)' /\ BlueprintSound(task)' /\ BenchmarkSound(task)'
    BY <2>1 DEF TaskSound, DatasetSound, BlueprintSound, BenchmarkSound
  <2>6. QED
    BY <2>1, <2>2, <2>3, <2>4, <2>5 DEF TaskSound
<1>4. QED
  BY <1>1, <1>2, <1>3

\* A prompt is committed.
LEMMA CommitPromptKeeps ==
    ASSUME AuthoringAssumption, MaterialInvariant, NEW t \in Tasks, CommitPrompt(t)
    PROVE  MaterialInvariant'
<1>1. /\ MaterialTyped /\ TaskSound(tasks[t]) /\ tasks[t].op \in Prompting /\ tasks[t].at = "write"
      /\ MaterialTold
  BY DEF MaterialInvariant, CommitPrompt, Prompting
<1>2. CASE tasks[t].op = "add" /\ tasks[t].version \in Existing
  <2>1. /\ EndTask(t)
        /\ UNCHANGED <<prompts, datasets, blueprints, graphs, interviews, rankings,
                       activated, coincided>>
    BY <1>2 DEF CommitPrompt
  <2>2. QED
    BY <1>1, <2>1, FreeSound, EndTurns, TaskTurns
<1>3. CASE ~(tasks[t].op = "add" /\ tasks[t].version \in Existing)
  <2>1. /\ prompts' = Promoted(t)
        /\ tasks[t].status = "active" =>
                activated' = tasks[t].version /\ coincided' = (coincided \/ tasks[t].overtaken)
        /\ tasks[t].status # "active" => UNCHANGED <<activated, coincided>>
        /\ UNCHANGED <<datasets, blueprints, graphs, interviews, rankings>>
        /\ tasks' = [u \in Tasks |->
              IF u = t THEN Free
              ELSE IF tasks[u].op \in {"dataset", "benchmark"} /\ tasks[u].used # {}
              THEN [tasks[u] EXCEPT !.shifted = TRUE]
              ELSE IF tasks[t].status = "active" /\ tasks[u].op \in {"add", "activate"}
                      /\ tasks[u].at # "update"
              THEN [tasks[u] EXCEPT !.overtaken = TRUE] ELSE tasks[u]]
    BY <1>3 DEF CommitPrompt
  <2>2. /\ prompts' \in [Numbers -> PromptStates]
        /\ tasks[t].status = "active" => tasks[t].version \in Active'
        /\ tasks[t].status = "active" /\ ~tasks[t].overtaken => Active' = {tasks[t].version}
        /\ tasks[t].status = "draft" => Active' = Active
    BY <1>1, <1>3, <2>1, PromotedActive
  <2>3. tasks[t].status \in {"active", "draft"}
    BY <1>1 DEF TaskSound, PromptSound
  <2>4. PromptStays'
    <3>1. CASE tasks[t].status = "active"
      <4>1. /\ Active' # {} /\ activated' = tasks[t].version
            /\ coincided' = (coincided \/ tasks[t].overtaken)
        BY <2>1, <2>2, <3>1
      <4>2. coincided' \/ Active' = {activated'}
        BY <2>2, <3>1, <4>1, Zenon
      <4>3. QED
        BY <4>1, <4>2 DEF PromptStays
    <3>2. CASE tasks[t].status = "draft"
      <4>1. Active' = Active /\ activated' = activated /\ coincided' = coincided
        BY <2>1, <2>2, <3>2
      <4>2. QED
        BY <1>1, <4>1, Zenon DEF MaterialTold, PromptStays
    <3>3. QED
      BY <2>3, <3>1, <3>2
  <2>5. VersionsHonest' /\ RankedFairly' /\ SessionsGrounded'
    BY <1>1, <2>1 DEF MaterialTold, VersionsHonest, RankedFairly, SessionsGrounded
  <2>6. ASSUME NEW u \in Tasks PROVE TaskSound(tasks[u])'
    <3>1. CASE u = t
      <4>1. tasks'[u] = Free
        BY <2>1, <3>1
      <4>2. TaskSound(Free)'
        BY DEF Free, TaskSound, PromptSound, MakingSound, DatasetSound, BlueprintSound, BenchmarkSound,
               SessionSound, Prompting, Making
      <4>3. QED
        BY <4>1, <4>2
    <3>2. CASE u # t
      <4>1. PICK task : task = tasks'[u]
        OBVIOUS
      <4>2. task = IF tasks[u].op \in {"dataset", "benchmark"} /\ tasks[u].used # {}
                  THEN [tasks[u] EXCEPT !.shifted = TRUE]
                  ELSE IF tasks[t].status = "active" /\ tasks[u].op \in {"add", "activate"}
                          /\ tasks[u].at # "update"
                  THEN [tasks[u] EXCEPT !.overtaken = TRUE] ELSE tasks[u]
        BY <2>1, <3>2, <4>1
      <4>3. TaskSound(tasks[u]) /\ (tasks[t].status = "active" \/ Active' = Active)
        BY <2>2, <2>3 DEF MaterialInvariant
      <4>4. TaskSound(task)'
        BY <1>1, <2>1, <3>2, <4>2, <4>3, OthersShift
      <4>5. QED
        BY <4>1, <4>4
    <3>3. QED
      BY <3>1, <3>2
  <2>7. MaterialTyped'
    BY <1>1, <2>1, <2>2 DEF MaterialTyped
  <2>8. \A s \in interviews' : s.blueprint \in DOMAIN blueprints'
    BY <2>1 DEF MaterialInvariant
  <2>9. QED
    BY <2>4, <2>5, <2>6, <2>7, <2>8 DEF MaterialInvariant, MaterialTold
<1>4. QED
  BY <1>2, <1>3

----------------------------------------------------------------------------
\* What is begun, or begun again, has used no prompt yet.
LEMMA GenerationSound ==
    ASSUME NEW op \in Making, NEW job, NEW try, NEW template \in Templates \cup {"none"}
    PROVE  TaskSound(Generation(op, job, try, template))
<1>1. PICK task : task = Generation(op, job, try, template)
  OBVIOUS
<1>2. /\ DOMAIN task = MakingFields /\ task.op = op /\ task.at = "calls"
      /\ task.template = template /\ task.used = {} /\ task.shifted = FALSE /\ task.measured = <<>>
  BY <1>1 DEF Generation, MakingFields
<1>3. MakingSound(task)
  <2>1. {} \in MadeBy /\ <<>> \in Seq(Result)
    BY DEF MadeBy
  <2>2. QED
    BY <1>2, <2>1 DEF MakingSound, Making
<1>6. PromptSound(task) /\ DatasetSound(task) /\ BlueprintSound(task) /\ SessionSound(task)
  BY <1>2 DEF PromptSound, DatasetSound, BlueprintSound, SessionSound, Making, Prompting
<1>4. BenchmarkSound(task)
  <2>1. task.measured = <<>> /\ Len(task.measured) = 0 /\ DOMAIN task.measured = {}
    BY <1>2
  <2>2. Len(Profiles) >= 0
    OBVIOUS
  <2>3. QED
    BY <2>1, <2>2 DEF BenchmarkSound
<1>5. QED
  BY <1>1, <1>2, <1>3, <1>4, <1>6 DEF TaskSound, MakingFields

LEMMA FreeGenerates ==
    ASSUME NEW op, NEW job, NEW try, NEW template
    PROVE  Onto(Generation(op, job, try, template), Free) = Generation(op, job, try, template)
BY DEF Onto, Generation, Free

LEMMA AbandonedTurns ==
    ASSUME AuthoringAssumption, MaterialInvariant, NEW t \in Tasks, tasks[t].op \in Making,
           Abandoned(t),
           UNCHANGED <<prompts, datasets, blueprints, graphs, interviews, rankings,
                       activated, coincided>>
    PROVE  MaterialInvariant'
<1>1. MaterialTyped /\ tasks[t].template \in Templates \cup {"none"}
  BY DEF MaterialInvariant, TaskSound, MakingSound
<1>2. PICK task : task = IF tasks[t].job /\ tasks[t].try < MaxTries
                         THEN Generation(tasks[t].op, TRUE, tasks[t].try + 1, tasks[t].template)
                         ELSE Free
  OBVIOUS
<1>3. TaskSound(task)
  BY <1>1, <1>2, FreeSound, GenerationSound
<1>4. DOMAIN tasks' = Tasks /\ tasks'[t] = task /\ \A u \in Tasks : u # t => tasks'[u] = tasks[u]
  BY <1>1, <1>2 DEF Abandoned, MaterialTyped
<1>5. QED
  BY <1>3, <1>4, TaskTurns

LEMMA GenerateKeeps ==
    ASSUME AuthoringAssumption, MaterialInvariant, NEW t \in Tasks,
           Generate(t) \/ GenerationFails(t)
    PROVE  MaterialInvariant'
<1>1. CASE Generate(t)
  <2>1. PICK op \in Making, job \in BOOLEAN, template \in Templates \cup {"none"} :
            Do(t, Generation(op, job, 1, template))
    BY <1>1 DEF Generate, GenerateDataset, GenerateBlueprint, RunBenchmark, AnalyzeVisuals, Making
  <2>2. MaterialTyped /\ tasks[t] = Free
    BY <1>1 DEF MaterialInvariant, Generate
  <2>3. PICK task : task = Generation(op, job, 1, template)
    OBVIOUS
  <2>4. TaskSound(task) /\ Onto(task, tasks[t]) = task
    BY <2>2, <2>3, GenerationSound, FreeGenerates
  <2>5. QED
    BY <1>1, <2>1, <2>2, <2>3, <2>4, DoTurns, TaskTurns DEF Generate
<1>2. CASE GenerationFails(t)
  BY <1>2, AbandonedTurns DEF GenerationFails, Generating, Making
<1>3. QED
  BY <1>1, <1>2

\* What a task has, and goes on having when a turn changes other fields.
LEMMA MakingGoesOn ==
    ASSUME NEW t \in Tasks, TaskSound(tasks[t]), tasks[t].op \in Making, NEW change,
           NEW task, task = Onto(change, tasks[t]), "op" \notin DOMAIN change
    PROVE  /\ MakingFields \subseteq DOMAIN tasks[t] /\ MakingFields \subseteq DOMAIN task
           /\ task.op = tasks[t].op
           /\ "template" \notin DOMAIN change => task.template = tasks[t].template
           /\ "used" \notin DOMAIN change => task.used = tasks[t].used
           /\ "shifted" \notin DOMAIN change => task.shifted = tasks[t].shifted
           /\ "measured" \notin DOMAIN change => task.measured = tasks[t].measured
           /\ "at" \notin DOMAIN change => task.at = tasks[t].at
           /\ \A field \in DOMAIN tasks[t] \ DOMAIN change : task[field] = tasks[t][field]
           /\ DOMAIN tasks[t] \subseteq DOMAIN task
<1>1. MakingFields \subseteq DOMAIN tasks[t]
  BY DEF TaskSound, MakingSound
<1>2. QED
  BY <1>1 DEF Onto, MakingFields

LEMMA MakingTurnKeeps ==
    ASSUME AuthoringAssumption, MaterialInvariant, NEW t \in Tasks,
           CallAgents(t) \/ Assemble(t) \/ Propose(t) \/ CountBlueprints(t)
    PROVE  MaterialInvariant'
<1>1. MaterialTyped /\ TaskSound(tasks[t]) /\ Effective \in 0..MaxPrompts /\ tasks[t].op \in Making
  BY EffectiveIsVersion DEF MaterialInvariant, CallAgents, Assemble, Propose, CountBlueprints, Making
<1>2. /\ tasks[t].used \in MadeBy /\ tasks[t].shifted \in BOOLEAN
      /\ tasks[t].template \in Templates \cup {"none"} /\ tasks[t].measured \in Seq(Result)
      /\ tasks[t].shifted \/ tasks[t].used \subseteq {Effective}
      /\ tasks[t].op \notin {"dataset", "benchmark"} => tasks[t].used = {}
      /\ MakingFields \subseteq DOMAIN tasks[t]
  BY <1>1 DEF TaskSound, MakingSound
<1>3. CASE CallAgents(t)
  <2> DEFINE change == [used |-> tasks[t].used \cup {Effective}]
  <2>1. PICK task : task = Onto(change, tasks[t])
    OBVIOUS
  <2>2. /\ MakingFields \subseteq DOMAIN task /\ task.op = "dataset" /\ task.at = "calls"
        /\ task.template = tasks[t].template /\ task.shifted = tasks[t].shifted
        /\ task.measured = tasks[t].measured /\ task.used = tasks[t].used \cup {Effective}
    <3>1. /\ DOMAIN change = {"used"} /\ "op" \notin DOMAIN change
          /\ change.used = tasks[t].used \cup {Effective}
      OBVIOUS
    <3> HIDE DEF change
    <3>2. task.used = change.used
      BY <2>1, <3>1 DEF Onto
    <3>3. QED
      BY <1>1, <1>3, <2>1, <3>1, <3>2, MakingGoesOn DEF CallAgents
  <2>3. task.used \in MadeBy /\ (task.shifted \/ task.used \subseteq {Effective})
    BY <1>1, <1>2, <2>2 DEF MadeBy
  <2>4. TaskSound(task)
    BY <1>2, <2>2, <2>3
       DEF TaskSound, PromptSound, MakingSound, DatasetSound, BlueprintSound,
           BenchmarkSound, SessionSound, Prompting, Making, MakingFields
  <2>5. QED
    BY <1>1, <1>3, <2>1, <2>4, DoTurns, TaskTurns DEF CallAgents
<1>4. CASE Assemble(t)
  <2>1. PICK cases \in {3, 4}, sound \in {3, 4} :
          Do(t, [at |-> "store", manifest |-> Effective, number |-> Len(datasets) + 1,
                 ready |-> ReleaseReady(cases, sound)])
    BY <1>4 DEF Assemble
  <2> DEFINE ready == ReleaseReady(cases, sound)
             change == [at |-> "store", manifest |-> Effective, number |-> Len(datasets) + 1,
                        ready |-> ready]
  <2>2. PICK task : task = Onto(change, tasks[t])
    OBVIOUS
  <2>3. ready \in BOOLEAN /\ Len(datasets) + 1 \in Nat
    BY <1>1 DEF ReleaseReady, MaterialTyped
  <2> HIDE DEF ready
  <2>4. /\ MakingFields \subseteq DOMAIN task /\ task.op = "dataset" /\ task.at = "store"
        /\ task.template = tasks[t].template /\ task.shifted = tasks[t].shifted
        /\ task.measured = tasks[t].measured /\ task.used = tasks[t].used
        /\ {"manifest", "number", "ready"} \subseteq DOMAIN task
        /\ task.manifest = Effective /\ task.number = Len(datasets) + 1 /\ task.ready = ready
    <3>1. /\ DOMAIN change = {"at", "manifest", "number", "ready"}
          /\ change.at = "store" /\ change.manifest = Effective
          /\ change.number = Len(datasets) + 1 /\ change.ready = ready
      OBVIOUS
    <3> HIDE DEF change
    <3>2. /\ task.at = change.at /\ task.manifest = change.manifest
          /\ task.number = change.number /\ task.ready = change.ready
          /\ DOMAIN change \subseteq DOMAIN task
      BY <2>2, <3>1 DEF Onto
    <3>3. "op" \notin DOMAIN change /\ "template" \notin DOMAIN change /\ "used" \notin DOMAIN change
          /\ "shifted" \notin DOMAIN change /\ "measured" \notin DOMAIN change
      BY <3>1
    <3>4. /\ MakingFields \subseteq DOMAIN task /\ task.op = tasks[t].op
          /\ task.template = tasks[t].template /\ task.shifted = tasks[t].shifted
          /\ task.measured = tasks[t].measured /\ task.used = tasks[t].used
      BY <1>1, <2>2, <3>3, MakingGoesOn
    <3>5. tasks[t].op = "dataset"
      BY <1>4 DEF Assemble
    <3>6. QED
      BY <3>1, <3>2, <3>4, <3>5
  <2>5. task.shifted \/ task.used = {task.manifest}
    BY <1>2, <1>4, <2>4 DEF Assemble
  <2>6. TaskSound(task)
    BY <1>1, <1>2, <2>3, <2>4, <2>5
       DEF TaskSound, PromptSound, MakingSound, DatasetSound, BlueprintSound,
           BenchmarkSound, SessionSound, Prompting, Making, MakingFields
  <2>7. QED
    BY <1>1, <1>4, <2>1, <2>2, <2>6, DoTurns, TaskTurns DEF Assemble, ready
<1>5. CASE Propose(t)
  <2>1. CASE Abandoned(t)
    BY <1>1, <1>5, <2>1, AbandonedTurns DEF Propose
  <2>2. CASE Do(t, [corrected |-> TRUE])
    <3> DEFINE change == [corrected |-> TRUE]
    <3>1. PICK task : task = Onto(change, tasks[t])
      OBVIOUS
    <3>2. DOMAIN change = {"corrected"}
      OBVIOUS
    <3> HIDE DEF change
    <3>3. /\ MakingFields \subseteq DOMAIN task /\ task.op = "blueprint" /\ task.at = "calls"
          /\ task.template = tasks[t].template /\ task.shifted = tasks[t].shifted
          /\ task.measured = tasks[t].measured /\ task.used = tasks[t].used
      BY <1>1, <1>5, <3>1, <3>2, MakingGoesOn DEF Propose
    <3>4. TaskSound(task)
      BY <1>2, <1>5, <3>3
         DEF Propose, TaskSound, PromptSound, MakingSound, DatasetSound, BlueprintSound,
             BenchmarkSound, SessionSound, Prompting, Making, MakingFields
    <3>5. QED
      BY <1>1, <1>5, <2>2, <3>1, <3>4, DoTurns, TaskTurns DEF Propose, change
  <2>3. CASE Do(t, [repairs |-> tasks[t].repairs + 1])
    <3> DEFINE change == [repairs |-> tasks[t].repairs + 1]
    <3>1. PICK task : task = Onto(change, tasks[t])
      OBVIOUS
    <3>2. DOMAIN change = {"repairs"}
      OBVIOUS
    <3> HIDE DEF change
    <3>3. /\ MakingFields \subseteq DOMAIN task /\ task.op = "blueprint" /\ task.at = "calls"
          /\ task.template = tasks[t].template /\ task.shifted = tasks[t].shifted
          /\ task.measured = tasks[t].measured /\ task.used = tasks[t].used
      BY <1>1, <1>5, <3>1, <3>2, MakingGoesOn DEF Propose
    <3>4. TaskSound(task)
      BY <1>2, <1>5, <3>3
         DEF Propose, TaskSound, PromptSound, MakingSound, DatasetSound, BlueprintSound,
             BenchmarkSound, SessionSound, Prompting, Making, MakingFields
    <3>5. QED
      BY <1>1, <1>5, <2>3, <3>1, <3>4, DoTurns, TaskTurns DEF Propose, change
  <2>4. ASSUME NEW answer, Acceptable(t, answer),
               Do(t, [at |-> "planned", fits |-> answer = "fitting"])
        PROVE  MaterialInvariant'
    <3> DEFINE fits == answer = "fitting"
               change == [at |-> "planned", fits |-> fits]
    <3>1. PICK task : task = Onto(change, tasks[t])
      OBVIOUS
    <3>2. fits \in BOOLEAN /\ (tasks[t].template # "none" => fits)
      BY <2>4 DEF Acceptable
    <3> HIDE DEF fits
    <3>3. DOMAIN change = {"at", "fits"} /\ change.at = "planned" /\ change.fits = fits
      OBVIOUS
    <3> HIDE DEF change
    <3>4. task.at = "planned" /\ task.fits = fits /\ "fits" \in DOMAIN task
      BY <3>1, <3>3 DEF Onto
    <3>5. /\ MakingFields \subseteq DOMAIN task /\ task.op = "blueprint"
          /\ task.template = tasks[t].template /\ task.shifted = tasks[t].shifted
          /\ task.measured = tasks[t].measured /\ task.used = tasks[t].used
      <4>1. "op" \notin DOMAIN change /\ "template" \notin DOMAIN change /\ "used" \notin DOMAIN change
            /\ "shifted" \notin DOMAIN change /\ "measured" \notin DOMAIN change
        BY <3>3
      <4>2. tasks[t].op = "blueprint"
        BY <1>5 DEF Propose
      <4>3. QED
        BY <1>1, <3>1, <4>1, <4>2, MakingGoesOn
    <3>6. TaskSound(task)
      BY <1>2, <1>5, <3>2, <3>4, <3>5
         DEF Propose, TaskSound, PromptSound, MakingSound, DatasetSound, BlueprintSound,
             BenchmarkSound, SessionSound, Prompting, Making, MakingFields
    <3>7. QED
      BY <1>1, <1>5, <2>4, <3>1, <3>6, DoTurns, TaskTurns DEF Propose, change, fits
  <2>5. QED
    BY <1>5, <2>1, <2>2, <2>3, <2>4 DEF Propose
<1>6. CASE CountBlueprints(t)
  <2> DEFINE change == [at |-> "store", number |-> Len(blueprints) + 1]
  <2>1. PICK task : task = Onto(change, tasks[t])
    OBVIOUS
  <2>2. Len(blueprints) + 1 \in Nat
    BY <1>1 DEF MaterialTyped
  <2>3. /\ DOMAIN change = {"at", "number"} /\ change.at = "store"
        /\ change.number = Len(blueprints) + 1
    OBVIOUS
  <2> HIDE DEF change
  <2>4. /\ "fits" \in DOMAIN tasks[t] /\ tasks[t].fits \in BOOLEAN
        /\ tasks[t].template # "none" => tasks[t].fits
    BY <1>1, <1>6 DEF CountBlueprints, TaskSound, BlueprintSound
  <2>5. /\ task.at = "store" /\ task.number = Len(blueprints) + 1 /\ task.fits = tasks[t].fits
        /\ {"fits", "number"} \subseteq DOMAIN task
    BY <2>1, <2>3, <2>4 DEF Onto
  <2>6. /\ MakingFields \subseteq DOMAIN task /\ task.op = "blueprint"
        /\ task.template = tasks[t].template /\ task.shifted = tasks[t].shifted
        /\ task.measured = tasks[t].measured /\ task.used = tasks[t].used
    BY <1>1, <1>6, <2>1, <2>3, MakingGoesOn DEF CountBlueprints
  <2>7. TaskSound(task)
    BY <1>2, <1>6, <2>2, <2>4, <2>5, <2>6
       DEF CountBlueprints, TaskSound, PromptSound, MakingSound, DatasetSound, BlueprintSound,
           BenchmarkSound, SessionSound, Prompting, Making, MakingFields
  <2>8. QED
    BY <1>1, <1>6, <2>1, <2>7, DoTurns, TaskTurns DEF CountBlueprints, change
<1>7. QED
  BY <1>3, <1>4, <1>5, <1>6

\* What is stored: the task is over, or waits for its job to be completed.
LEMMA StoredTurns ==
    ASSUME MaterialInvariant, NEW t \in Tasks, tasks[t].op \in Making, Stored(t)
    PROVE  \E task : /\ TaskSound(task) /\ DOMAIN tasks' = Tasks /\ tasks'[t] = task
                     /\ \A u \in Tasks : u # t => tasks'[u] = tasks[u]
<1>1. MaterialTyped /\ TaskSound(tasks[t])
  BY DEF MaterialInvariant
<1>2. CASE tasks[t].job
  <2> DEFINE change == [at |-> "stored"]
  <2>1. PICK task : task = Onto(change, tasks[t])
    OBVIOUS
  <2>2. DOMAIN change = {"at"} /\ change.at = "stored"
    OBVIOUS
  <2> HIDE DEF change
  <2>3. task.at = "stored"
    BY <2>1, <2>2 DEF Onto
  <2>4. /\ MakingFields \subseteq DOMAIN task /\ task.op = tasks[t].op
        /\ task.template = tasks[t].template /\ task.shifted = tasks[t].shifted
        /\ task.measured = tasks[t].measured /\ task.used = tasks[t].used
    BY <1>1, <2>1, <2>2, MakingGoesOn
  <2>5. TaskSound(task)
    BY <1>1, <2>3, <2>4
       DEF TaskSound, PromptSound, MakingSound, DatasetSound, BlueprintSound,
           BenchmarkSound, SessionSound, Prompting, Making, MakingFields
  <2>6. Do(t, change)
    BY <1>2 DEF Stored, change
  <2>7. QED
    BY <1>1, <2>1, <2>5, <2>6, DoTurns
<1>3. CASE ~tasks[t].job
  <2>1. EndTask(t)
    BY <1>3 DEF Stored
  <2>2. QED
    BY <1>1, <2>1, FreeSound, EndTurns
<1>4. QED
  BY <1>2, <1>3

\* A step that adds to what there is.
LEMMA GrowthTurns ==
    ASSUME MaterialInvariant, NEW t \in Tasks, NEW task, TaskSound(task),
           DOMAIN tasks' = Tasks, tasks'[t] = task,
           \A u \in Tasks : u # t => tasks'[u] = tasks[u],
           Grown, UNCHANGED <<activated, coincided>>
    PROVE  /\ \A u \in Tasks : TaskSound(tasks[u])'
           /\ PromptStays'
<1>1. Active' = Active
  BY DEF Grown, Active
<1>2. ASSUME NEW u \in Tasks PROVE TaskSound(tasks[u])'
  <2>1. TaskSound(tasks[u]) /\ (u # t => tasks'[u] = tasks[u]) /\ (u = t => tasks'[u] = task)
    BY DEF MaterialInvariant
  <2>2. PICK kept : kept = tasks'[u] /\ TaskSound(kept)
    BY <2>1
  <2>3. TaskSound(kept)'
    BY <2>2, TaskStays
  <2>4. QED
    BY <2>2, <2>3
<1>3. PromptStays'
  BY <1>1 DEF MaterialInvariant, MaterialTold, PromptStays
<1>4. QED
  BY <1>2, <1>3

LEMMA SequenceGrows ==
    ASSUME NEW S, NEW list \in Seq(S), NEW row \in S
    PROVE  /\ Append(list, row) \in Seq(S) /\ Len(list) \in Nat
           /\ DOMAIN Append(list, row) = DOMAIN list \cup {Len(list) + 1}
           /\ \A i \in DOMAIN list : Append(list, row)[i] = list[i]
           /\ Append(list, row)[Len(list) + 1] = row
           /\ Len(list) + 1 \notin DOMAIN list
OBVIOUS

LEMMA StoreDatasetKeeps ==
    ASSUME AuthoringAssumption, MaterialInvariant, NEW t \in Tasks, StoreDataset(t)
    PROVE  MaterialInvariant'
<1>1. /\ tasks[t].op = "dataset" /\ tasks[t].at = "store" /\ Stored(t) /\ TaskSound(tasks[t])
      /\ UNCHANGED <<prompts, blueprints, graphs, interviews, rankings, activated, coincided>>
      /\ datasets \in Seq(DatasetRow)
  BY DEF StoreDataset, MaterialInvariant, MaterialTyped
<1>2. PICK task : /\ TaskSound(task) /\ DOMAIN tasks' = Tasks /\ tasks'[t] = task
                  /\ \A u \in Tasks : u # t => tasks'[u] = tasks[u]
  BY <1>1, StoredTurns DEF Making
<1>3. /\ \A u \in Tasks : TaskSound(tasks[u])'
      /\ PromptStays'
  BY <1>1, <1>2, GrowthTurns DEF Grown
<1>4. /\ tasks[t].number \in Nat /\ tasks[t].ready \in BOOLEAN /\ tasks[t].manifest \in 0..MaxPrompts
      /\ tasks[t].shifted \/ tasks[t].used = {tasks[t].manifest}
      /\ tasks[t].used \in MadeBy /\ tasks[t].shifted \in BOOLEAN
  BY <1>1 DEF TaskSound, DatasetSound, MakingSound, Making
<1> DEFINE status == IF tasks[t].ready THEN "ready" ELSE "needs_review"
           recounted == Len(datasets) + 1 # tasks[t].number
           row == [number |-> tasks[t].number, ready |-> tasks[t].ready, status |-> status,
                   used |-> tasks[t].used, manifest |-> tasks[t].manifest,
                   shifted |-> tasks[t].shifted, recounted |-> recounted]
<1>5. datasets' = Append(datasets, row)
  BY DEF StoreDataset
<1>6. /\ status \in {"ready", "needs_review"} /\ recounted \in BOOLEAN
      /\ recounted \/ tasks[t].number = Len(datasets) + 1
  OBVIOUS
<1> HIDE DEF status, recounted
<1>7. /\ row \in DatasetRow /\ row.status = status /\ row.number = tasks[t].number
      /\ row.recounted = recounted /\ row.shifted = tasks[t].shifted /\ row.used = tasks[t].used
      /\ row.manifest = tasks[t].manifest
  BY <1>4, <1>6 DEF DatasetRow
<1> HIDE DEF row
<1>8. /\ datasets' \in Seq(DatasetRow)
      /\ DOMAIN datasets' = DOMAIN datasets \cup {Len(datasets) + 1}
      /\ \A i \in DOMAIN datasets : datasets'[i] = datasets[i]
      /\ datasets'[Len(datasets) + 1] = row
  BY <1>1, <1>5, <1>7, SequenceGrows
<1>9. ASSUME NEW i \in DOMAIN datasets'
      PROVE  /\ datasets'[i].status = "frozen" => datasets'[i].ready
             /\ datasets'[i].shifted \/ datasets'[i].used = {datasets'[i].manifest}
             /\ datasets'[i].recounted \/ datasets'[i].number = i
  <2>1. CASE i \in DOMAIN datasets
    BY <1>8, <2>1 DEF MaterialInvariant, MaterialTold, VersionsHonest
  <2>2. CASE i = Len(datasets) + 1
    BY <1>4, <1>6, <1>7, <1>8, <2>2
  <2>3. QED
    BY <1>8, <1>9, <2>1, <2>2
<1>10. VersionsHonest'
  BY <1>1, <1>9 DEF MaterialInvariant, MaterialTold, VersionsHonest
<1>11. RankedFairly' /\ SessionsGrounded' /\ MaterialTyped'
       /\ \A s \in interviews' : s.blueprint \in DOMAIN blueprints'
  BY <1>1, <1>2, <1>8 DEF MaterialInvariant, MaterialTyped, MaterialTold, RankedFairly, SessionsGrounded
<1>12. QED
  BY <1>3, <1>10, <1>11 DEF MaterialInvariant, MaterialTold

LEMMA StoreBlueprintKeeps ==
    ASSUME AuthoringAssumption, MaterialInvariant, NEW t \in Tasks, StoreBlueprint(t)
    PROVE  MaterialInvariant'
<1>1. /\ tasks[t].op = "blueprint" /\ tasks[t].at = "store" /\ Stored(t) /\ TaskSound(tasks[t])
      /\ UNCHANGED <<prompts, datasets, graphs, interviews, rankings, activated, coincided>>
      /\ blueprints \in Seq(BlueprintRow)
  BY DEF StoreBlueprint, MaterialInvariant, MaterialTyped
<1>2. PICK task : /\ TaskSound(task) /\ DOMAIN tasks' = Tasks /\ tasks'[t] = task
                  /\ \A u \in Tasks : u # t => tasks'[u] = tasks[u]
  BY <1>1, StoredTurns DEF Making
<1>3. /\ tasks[t].number \in Nat /\ tasks[t].fits \in BOOLEAN
      /\ tasks[t].template # "none" => tasks[t].fits
      /\ tasks[t].template \in Templates \cup {"none"}
  BY <1>1 DEF TaskSound, BlueprintSound, MakingSound, Making
<1> DEFINE recounted == Len(blueprints) + 1 # tasks[t].number
           row == [number |-> tasks[t].number, template |-> tasks[t].template,
                   fits |-> tasks[t].fits, recounted |-> recounted]
<1>4. blueprints' = Append(blueprints, row)
  BY DEF StoreBlueprint
<1>5. recounted \in BOOLEAN /\ (recounted \/ tasks[t].number = Len(blueprints) + 1)
  OBVIOUS
<1> HIDE DEF recounted
<1>6. /\ row \in BlueprintRow /\ row.number = tasks[t].number
      /\ row.recounted = recounted /\ row.template = tasks[t].template /\ row.fits = tasks[t].fits
  BY <1>3, <1>5 DEF BlueprintRow
<1> HIDE DEF row
<1>7. /\ blueprints' \in Seq(BlueprintRow)
      /\ DOMAIN blueprints' = DOMAIN blueprints \cup {Len(blueprints) + 1}
      /\ \A i \in DOMAIN blueprints : blueprints'[i] = blueprints[i]
      /\ blueprints'[Len(blueprints) + 1] = row
  BY <1>1, <1>4, <1>6, SequenceGrows
<1>8. Grown
  BY <1>1, <1>7 DEF Grown
<1>9. /\ \A u \in Tasks : TaskSound(tasks[u])'
      /\ PromptStays'
  BY <1>1, <1>2, <1>8, GrowthTurns
<1>10. ASSUME NEW b \in DOMAIN blueprints'
       PROVE  /\ blueprints'[b].template # "none" => blueprints'[b].fits
              /\ blueprints'[b].recounted \/ blueprints'[b].number = b
  <2>1. CASE b \in DOMAIN blueprints
    BY <1>7, <2>1 DEF MaterialInvariant, MaterialTold, VersionsHonest
  <2>2. CASE b = Len(blueprints) + 1
    BY <1>3, <1>5, <1>6, <1>7, <2>2
  <2>3. QED
    BY <1>7, <1>10, <2>1, <2>2
<1>11. VersionsHonest'
  BY <1>1, <1>10 DEF MaterialInvariant, MaterialTold, VersionsHonest
<1>12. SessionsGrounded' /\ \A s \in interviews' : s.blueprint \in DOMAIN blueprints'
  BY <1>1, <1>7 DEF MaterialInvariant, MaterialTold, SessionsGrounded
<1>13. RankedFairly' /\ MaterialTyped'
  BY <1>1, <1>2, <1>7 DEF MaterialInvariant, MaterialTyped, MaterialTold, RankedFairly
<1>14. QED
  BY <1>9, <1>11, <1>12, <1>13 DEF MaterialInvariant, MaterialTold

LEMMA PageKeeps ==
    ASSUME AuthoringAssumption, MaterialInvariant, NEW t \in Tasks,
           AnalyzePage(t) \/ CompleteGeneration(t)
    PROVE  MaterialInvariant'
<1>1. MaterialTyped /\ TaskSound(tasks[t]) /\ tasks[t].op \in Making
      /\ UNCHANGED <<prompts, datasets, blueprints, graphs, interviews, rankings, activated, coincided>>
  BY DEF MaterialInvariant, AnalyzePage, CompleteGeneration, Generating, Making
<1>2. CASE EndTask(t)
  BY <1>1, <1>2, FreeSound, EndTurns, TaskTurns
<1>3. CASE Stored(t)
  BY <1>1, <1>3, StoredTurns, TaskTurns
<1>4. ASSUME NEW left, tasks[t].op = "visual", tasks[t].at = "calls", Do(t, [left |-> left])
      PROVE  MaterialInvariant'
  <2> DEFINE change == [left |-> left]
  <2>1. PICK task : task = Onto(change, tasks[t])
    OBVIOUS
  <2>2. DOMAIN change = {"left"}
    OBVIOUS
  <2> HIDE DEF change
  <2>3. /\ MakingFields \subseteq DOMAIN task /\ task.op = "visual" /\ task.at = "calls"
        /\ task.template = tasks[t].template /\ task.shifted = tasks[t].shifted
        /\ task.measured = tasks[t].measured /\ task.used = tasks[t].used
    BY <1>1, <1>4, <2>1, <2>2, MakingGoesOn
  <2>4. TaskSound(task)
    BY <1>1, <1>4, <2>3
       DEF TaskSound, PromptSound, MakingSound, DatasetSound, BlueprintSound,
           BenchmarkSound, SessionSound, Prompting, Making, MakingFields
  <2>5. QED
    BY <1>1, <1>4, <2>1, <2>4, DoTurns, TaskTurns DEF change
<1>5. QED
  BY <1>2, <1>3, <1>4 DEF AnalyzePage, CompleteGeneration

----------------------------------------------------------------------------
(* Benchmarks *)

LEMMA MeasuredResult ==
    ASSUME AuthoringAssumption, NEW result \in Measures, NEW n \in DOMAIN Profiles, NEW row,
           row = Onto([profile |-> Profiles[n]], result)
    PROVE  row \in Result /\ row.profile = Profiles[n]
<1>1. result \in [quality : Int, cost : Int, latency : Int] /\ Profiles[n] \in STRING
  BY DEF AuthoringAssumption
<1>2. /\ DOMAIN result = {"quality", "cost", "latency"}
      /\ result.quality \in Int /\ result.cost \in Int /\ result.latency \in Int
  BY <1>1
<1> DEFINE change == [profile |-> Profiles[n]]
<1>3. DOMAIN change = {"profile"} /\ change.profile = Profiles[n]
  OBVIOUS
<1> HIDE DEF change
<1>4. row = Onto(change, result)
  BY DEF change
<1>5. /\ row.profile = Profiles[n] /\ row.quality = result.quality /\ row.cost = result.cost
      /\ row.latency = result.latency /\ DOMAIN row = {"profile", "quality", "cost", "latency"}
  BY <1>2, <1>3, <1>4 DEF Onto
<1>6. row = [profile |-> Profiles[n], quality |-> result.quality, cost |-> result.cost,
             latency |-> result.latency]
  BY <1>4, <1>5 DEF Onto
<1>7. QED
  BY <1>1, <1>2, <1>5, <1>6 DEF Result

LEMMA MeasureProfileKeeps ==
    ASSUME AuthoringAssumption, MaterialInvariant, NEW t \in Tasks, MeasureProfile(t)
    PROVE  MaterialInvariant'
<1>1. /\ MaterialTyped /\ TaskSound(tasks[t]) /\ Effective \in 0..MaxPrompts
      /\ tasks[t].op = "benchmark" /\ tasks[t].at = "calls"
      /\ Len(tasks[t].measured) < Len(Profiles)
  BY EffectiveIsVersion DEF MaterialInvariant, MeasureProfile
<1>2. /\ tasks[t].used \in MadeBy /\ tasks[t].shifted \in BOOLEAN
      /\ tasks[t].template \in Templates \cup {"none"} /\ tasks[t].measured \in Seq(Result)
      /\ tasks[t].shifted \/ tasks[t].used \subseteq {Effective}
      /\ \A i \in DOMAIN tasks[t].measured : tasks[t].measured[i].profile = Profiles[i]
  BY <1>1 DEF TaskSound, MakingSound, BenchmarkSound, Making
<1> DEFINE next == Len(tasks[t].measured) + 1
           used == tasks[t].used \cup {Effective}
<1>3. PICK result \in Measures :
         Do(t, [measured |-> Append(tasks[t].measured, Onto([profile |-> Profiles[next]], result)),
                used |-> used])
  BY DEF MeasureProfile
<1>4. next \in DOMAIN Profiles /\ next <= Len(Profiles)
  <2>1. Profiles \in Seq(STRING)
    BY DEF AuthoringAssumption
  <2>2. QED
    BY <1>1, <1>2, <2>1
<1>5. PICK row : row = Onto([profile |-> Profiles[next]], result)
  OBVIOUS
<1>6. row \in Result /\ row.profile = Profiles[next]
  BY <1>4, <1>5, MeasuredResult
<1> DEFINE measured == Append(tasks[t].measured, row)
<1>7. /\ measured \in Seq(Result) /\ DOMAIN measured = DOMAIN tasks[t].measured \cup {next}
      /\ \A i \in DOMAIN tasks[t].measured : measured[i] = tasks[t].measured[i]
      /\ measured[next] = row
  BY <1>2, <1>6, SequenceGrows
<1>8. Len(measured) = next
  BY <1>2
<1>9. used \in MadeBy /\ used # {} /\ (tasks[t].shifted \/ used \subseteq {Effective})
  BY <1>1, <1>2 DEF MadeBy
<1> DEFINE change == [measured |-> measured, used |-> used]
<1>10. Do(t, change)
  BY <1>3, <1>5
<1>11. /\ \A i \in DOMAIN measured : measured[i].profile = Profiles[i]
       /\ Len(measured) <= Len(Profiles)
  BY <1>2, <1>4, <1>6, <1>7, <1>8
<1> HIDE DEF measured, used
<1>12. DOMAIN change = {"measured", "used"} /\ change.measured = measured /\ change.used = used
  OBVIOUS
<1> HIDE DEF change
<1>13. PICK task : task = Onto(change, tasks[t])
  OBVIOUS
<1>14. task.measured = measured /\ task.used = used
  BY <1>12, <1>13 DEF Onto
<1>15. /\ MakingFields \subseteq DOMAIN task /\ task.op = "benchmark" /\ task.at = "calls"
       /\ task.template = tasks[t].template /\ task.shifted = tasks[t].shifted
  BY <1>1, <1>12, <1>13, MakingGoesOn DEF Making
<1>16. TaskSound(task)
  BY <1>2, <1>7, <1>9, <1>11, <1>14, <1>15
     DEF TaskSound, PromptSound, MakingSound, DatasetSound, BlueprintSound,
         BenchmarkSound, SessionSound, Prompting, Making, MakingFields
<1>17. QED
  BY <1>1, <1>10, <1>13, <1>16, DoTurns, TaskTurns DEF MeasureProfile

\* A ranking of all the profiles holds each of them once.
LEMMA RankingFair ==
    ASSUME AuthoringAssumption, NEW list \in Seq(Result), Len(list) = Len(Profiles),
           \A i \in DOMAIN list : list[i].profile = Profiles[i],
           NEW ranked, ranked = Ranked(list)
    PROVE  /\ ranked \in Seq(Result)
           /\ {p.profile : p \in ToSet(ranked)} = ToSet(Profiles) /\ IsInjective(ranked)
           /\ \A i, j \in DOMAIN ranked : i < j => ~Before(ranked[j], ranked[i])
<1>1. /\ ranked \in Seq(Result) /\ DOMAIN ranked = DOMAIN list
      /\ \A n \in DOMAIN list : \E i \in DOMAIN list : ranked[n] = list[i] /\ Place(list, i) = n
      /\ \A i \in DOMAIN list : \E n \in DOMAIN list : ranked[n] = list[i] /\ Place(list, i) = n
      /\ \A n, m \in DOMAIN list : n < m => ~Before(ranked[m], ranked[n])
  BY RankedShape
<1>2. /\ DOMAIN list = DOMAIN Profiles
      /\ \A i, j \in DOMAIN Profiles : Profiles[i] = Profiles[j] => i = j
  <2>1. Profiles \in Seq(STRING)
    BY DEF AuthoringAssumption
  <2>2. DOMAIN list = DOMAIN Profiles
    BY <2>1
  <2>3. QED
    BY <2>2 DEF AuthoringAssumption, IsInjective
<1>3. IsInjective(ranked)
  <2>1. ASSUME NEW n \in DOMAIN ranked, NEW m \in DOMAIN ranked, ranked[n] = ranked[m]
        PROVE  n = m
    <3>1. PICK i \in DOMAIN list : ranked[n] = list[i] /\ Place(list, i) = n
      BY <1>1
    <3>2. PICK j \in DOMAIN list : ranked[m] = list[j] /\ Place(list, j) = m
      BY <1>1
    <3>3. Profiles[i] = Profiles[j]
      BY <2>1, <3>1, <3>2
    <3>4. QED
      BY <1>2, <3>1, <3>2, <3>3
  <2>2. QED
    BY <2>1 DEF IsInjective
<1>4. {p.profile : p \in ToSet(ranked)} = ToSet(Profiles)
  <2>1. ASSUME NEW p \in ToSet(ranked) PROVE p.profile \in ToSet(Profiles)
    <3>1. PICK n \in DOMAIN ranked : p = ranked[n]
      BY <2>1 DEF ToSet
    <3>2. PICK i \in DOMAIN list : ranked[n] = list[i]
      BY <1>1, <3>1
    <3>3. p.profile = Profiles[i]
      BY <3>1, <3>2
    <3>4. QED
      BY <1>2, <3>2, <3>3 DEF ToSet
  <2>2. ASSUME NEW name \in ToSet(Profiles) PROVE \E p \in ToSet(ranked) : p.profile = name
    <3>1. PICK i \in DOMAIN list : name = Profiles[i]
      BY <1>2, <2>2 DEF ToSet
    <3>2. PICK n \in DOMAIN ranked : ranked[n] = list[i]
      BY <1>1, <3>1
    <3>3. QED
      BY <3>1, <3>2 DEF ToSet
  <2>3. QED
    BY <2>1, <2>2
<1>5. QED
  BY <1>1, <1>3, <1>4

LEMMA StoreRankingKeeps ==
    ASSUME AuthoringAssumption, MaterialInvariant, NEW t \in Tasks, StoreRanking(t)
    PROVE  MaterialInvariant'
<1>1. /\ tasks[t].op = "benchmark" /\ Stored(t) /\ TaskSound(tasks[t])
      /\ Len(tasks[t].measured) = Len(Profiles)
      /\ UNCHANGED <<prompts, datasets, blueprints, graphs, interviews, activated, coincided>>
      /\ rankings \in Seq(RankingRow)
  BY DEF StoreRanking, MaterialInvariant, MaterialTyped
<1>2. PICK task : /\ TaskSound(task) /\ DOMAIN tasks' = Tasks /\ tasks'[t] = task
                  /\ \A u \in Tasks : u # t => tasks'[u] = tasks[u]
  BY <1>1, StoredTurns DEF Making
<1>3. /\ \A u \in Tasks : TaskSound(tasks[u])'
      /\ PromptStays'
  BY <1>1, <1>2, GrowthTurns DEF Grown
<1>4. /\ tasks[t].used \in MadeBy /\ tasks[t].shifted \in BOOLEAN
      /\ tasks[t].measured \in Seq(Result)
      /\ tasks[t].shifted \/ tasks[t].used \subseteq {Effective}
      /\ \A i \in DOMAIN tasks[t].measured : tasks[t].measured[i].profile = Profiles[i]
      /\ tasks[t].measured # <<>> => tasks[t].used # {}
  BY <1>1 DEF TaskSound, MakingSound, BenchmarkSound, Making
<1>5. tasks[t].used # {}
  <2>1. Profiles \in Seq(STRING) /\ Profiles # <<>>
    BY DEF AuthoringAssumption
  <2>2. Len(Profiles) # 0
    BY <2>1
  <2>3. tasks[t].measured # <<>>
    BY <1>1, <1>4, <2>2
  <2>4. QED
    BY <1>4, <2>3
<1>6. tasks[t].shifted \/ Cardinality(tasks[t].used) = 1
  <2>1. CASE tasks[t].used \subseteq {Effective}
    <3>1. tasks[t].used = {Effective}
      BY <1>5, <2>1
    <3>2. QED
      BY <3>1, FS_Singleton
  <2>2. QED
    BY <1>4, <2>1
<1>7. PICK ranked : ranked = Ranked(tasks[t].measured)
  OBVIOUS
<1>8. /\ ranked \in Seq(Result)
      /\ {p.profile : p \in ToSet(ranked)} = ToSet(Profiles) /\ IsInjective(ranked)
      /\ \A i, j \in DOMAIN ranked : i < j => ~Before(ranked[j], ranked[i])
  BY <1>1, <1>4, <1>7, RankingFair
<1> DEFINE row == [ranked |-> ranked, used |-> tasks[t].used, shifted |-> tasks[t].shifted]
<1>9. rankings' = Append(rankings, row)
  BY <1>7 DEF StoreRanking
<1>10. /\ row \in RankingRow /\ row.ranked = ranked /\ row.used = tasks[t].used
       /\ row.shifted = tasks[t].shifted
  BY <1>4, <1>8 DEF RankingRow
<1> HIDE DEF row
<1>11. /\ rankings' \in Seq(RankingRow)
       /\ DOMAIN rankings' = DOMAIN rankings \cup {Len(rankings) + 1}
       /\ \A i \in DOMAIN rankings : rankings'[i] = rankings[i]
       /\ rankings'[Len(rankings) + 1] = row
  BY <1>1, <1>9, <1>10, SequenceGrows
<1>12. \A r \in ToSet(rankings') : r \in ToSet(rankings) \/ r = row
  BY <1>11 DEF ToSet
<1>13. RankedFairly'
  <2>1. ASSUME NEW r \in ToSet(rankings')
        PROVE  /\ {p.profile : p \in ToSet(r.ranked)} = ToSet(Profiles) /\ IsInjective(r.ranked)
               /\ \A i, j \in DOMAIN r.ranked : i < j => ~Before(r.ranked[j], r.ranked[i])
               /\ r.shifted \/ Cardinality(r.used) = 1
    <3>1. CASE r \in ToSet(rankings)
      BY <3>1 DEF MaterialInvariant, MaterialTold, RankedFairly
    <3>2. CASE r = row
      BY <1>6, <1>8, <1>10, <3>2
    <3>3. QED
      BY <1>12, <2>1, <3>1, <3>2
  <2>2. QED
    BY <2>1 DEF RankedFairly
<1>14. VersionsHonest' /\ SessionsGrounded' /\ MaterialTyped'
       /\ \A s \in interviews' : s.blueprint \in DOMAIN blueprints'
  BY <1>1, <1>2, <1>11 DEF MaterialInvariant, MaterialTyped, MaterialTold, VersionsHonest, SessionsGrounded
<1>15. QED
  BY <1>3, <1>13, <1>14 DEF MaterialInvariant, MaterialTold

----------------------------------------------------------------------------
(* Datasets and sessions *)

LEMMA SequenceChanges ==
    ASSUME NEW S, NEW list \in Seq(S), NEW i \in DOMAIN list, NEW row \in S,
           NEW changed, changed = [list EXCEPT ![i] = row]
    PROVE  /\ changed \in Seq(S) /\ DOMAIN changed = DOMAIN list
           /\ \A k \in DOMAIN list : changed[k] = IF k = i THEN row ELSE list[k]
OBVIOUS

LEMMA DatasetRestated ==
    ASSUME NEW dataset \in DatasetRow, NEW status \in {"candidate", "frozen", "deprecated"}, NEW row,
           row = [dataset EXCEPT !.status = status]
    PROVE  /\ row \in DatasetRow /\ row.status = status /\ row.number = dataset.number
           /\ row.ready = dataset.ready /\ row.recounted = dataset.recounted
           /\ row.shifted = dataset.shifted /\ row.used = dataset.used
           /\ row.manifest = dataset.manifest
<1>1. /\ row.status = status /\ row.number = dataset.number
      /\ row.ready = dataset.ready /\ row.recounted = dataset.recounted
      /\ row.shifted = dataset.shifted /\ row.used = dataset.used
      /\ row.manifest = dataset.manifest
  BY DEF DatasetRow
<1>2. row \in DatasetRow
  BY DEF DatasetRow
<1>3. QED
  BY <1>1, <1>2

LEMMA SetDatasetStatusKeeps ==
    ASSUME AuthoringAssumption, MaterialInvariant, NEW i,
           NEW status \in {"candidate", "frozen", "deprecated"}, SetDatasetStatus(i, status)
    PROVE  MaterialInvariant'
<1>1. /\ i \in DOMAIN datasets /\ datasets \in Seq(DatasetRow)
      /\ status = "frozen" => datasets[i].ready
      /\ datasets' = [datasets EXCEPT ![i].status = status]
      /\ UNCHANGED <<prompts, blueprints, graphs, interviews, rankings, tasks, activated, coincided>>
  BY DEF SetDatasetStatus, Releasable, MaterialInvariant, MaterialTyped
<1> DEFINE row == [datasets[i] EXCEPT !.status = status]
<1>2. datasets' = [datasets EXCEPT ![i] = row]
  BY <1>1
<1>3. datasets[i] \in DatasetRow
  BY <1>1
<1>4. /\ row \in DatasetRow /\ row.status = status /\ row.number = datasets[i].number
      /\ row.ready = datasets[i].ready /\ row.recounted = datasets[i].recounted
      /\ row.shifted = datasets[i].shifted /\ row.used = datasets[i].used
      /\ row.manifest = datasets[i].manifest
  BY <1>3, DatasetRestated
<1> HIDE DEF row
<1>5. /\ datasets' \in Seq(DatasetRow) /\ DOMAIN datasets' = DOMAIN datasets
      /\ \A k \in DOMAIN datasets : datasets'[k] = IF k = i THEN row ELSE datasets[k]
  <2>1. i \in DOMAIN datasets /\ datasets \in Seq(DatasetRow) /\ row \in DatasetRow
    BY <1>1, <1>4
  <2>2. QED
    BY <1>2, <2>1, SequenceChanges
<1>6. ASSUME NEW k \in DOMAIN datasets'
      PROVE  /\ datasets'[k].status = "frozen" => datasets'[k].ready
             /\ datasets'[k].shifted \/ datasets'[k].used = {datasets'[k].manifest}
             /\ datasets'[k].recounted \/ datasets'[k].number = k
  <2>1. /\ datasets[k].status = "frozen" => datasets[k].ready
        /\ datasets[k].shifted \/ datasets[k].used = {datasets[k].manifest}
        /\ datasets[k].recounted \/ datasets[k].number = k
    BY <1>5, <1>6 DEF MaterialInvariant, MaterialTold, VersionsHonest
  <2>2. QED
    BY <1>1, <1>4, <1>5, <1>6, <2>1
<1>7. VersionsHonest'
  BY <1>1, <1>6 DEF MaterialInvariant, MaterialTold, VersionsHonest
<1>8. Grown /\ Active' = Active
  BY <1>1 DEF Grown, Active
<1>9. ASSUME NEW u \in Tasks PROVE TaskSound(tasks[u])'
  <2>1. PICK kept : kept = tasks[u] /\ kept = tasks'[u] /\ TaskSound(kept)
    BY <1>1 DEF MaterialInvariant
  <2>2. TaskSound(kept)'
    BY <1>8, <2>1, TaskStays
  <2>3. QED
    BY <2>1, <2>2
<1>10. PromptStays' /\ RankedFairly' /\ SessionsGrounded' /\ MaterialTyped'
       /\ \A s \in interviews' : s.blueprint \in DOMAIN blueprints'
  BY <1>1, <1>5, <1>8 DEF MaterialInvariant, MaterialTyped, MaterialTold, PromptStays, RankedFairly,
                          SessionsGrounded
<1>11. QED
  BY <1>7, <1>9, <1>10 DEF MaterialInvariant, MaterialTold

\* What is open on a blueprint stays open on it.
LEMMA SessionGoesOn ==
    ASSUME NEW t \in Tasks, TaskSound(tasks[t]), tasks[t].op = "session", NEW at, NEW task,
           task = Onto([at |-> at], tasks[t])
    PROVE  /\ SessionFields \subseteq DOMAIN task /\ task.op = "session" /\ task.at = at
           /\ task.blueprint = tasks[t].blueprint /\ task.template = tasks[t].template
           /\ task.blueprint \in DOMAIN blueprints
           /\ task.template # "benchmark" => Compatible(task.blueprint, task.template)
<1>1. /\ SessionFields \subseteq DOMAIN tasks[t] /\ tasks[t].blueprint \in DOMAIN blueprints
      /\ tasks[t].template # "benchmark" => Compatible(tasks[t].blueprint, tasks[t].template)
  BY DEF TaskSound, SessionSound
<1> DEFINE change == [at |-> at]
<1>2. DOMAIN change = {"at"} /\ change.at = at /\ task = Onto(change, tasks[t])
  OBVIOUS
<1> HIDE DEF change
<1>3. /\ SessionFields \subseteq DOMAIN task /\ task.op = "session" /\ task.at = at
      /\ task.blueprint = tasks[t].blueprint /\ task.template = tasks[t].template
  BY <1>1, <1>2 DEF Onto, SessionFields
<1>4. QED
  BY <1>1, <1>3

LEMMA SessionTurnKeeps ==
    ASSUME AuthoringAssumption, MaterialInvariant, NEW t \in Tasks,
           (\E b : OpenBlueprint(t, b)) \/ InsertGraph(t) \/ RollBack(t)
    PROVE  MaterialInvariant'
<1>1. MaterialTyped /\ TaskSound(tasks[t])
  BY DEF MaterialInvariant
<1>2. ASSUME NEW b, OpenBlueprint(t, b) PROVE MaterialInvariant'
  <2>1. PICK template : /\ template # "benchmark" => Compatible(b, template)
                        /\ Do(t, [op |-> "session", at |-> IF b \in graphs THEN "create" ELSE "insert",
                                  blueprint |-> b, template |-> template])
    BY <1>2 DEF OpenBlueprint
  <2> DEFINE at == IF b \in graphs THEN "create" ELSE "insert"
             change == [op |-> "session", at |-> at, blueprint |-> b, template |-> template]
  <2>2. PICK task : task = Onto(change, tasks[t])
    OBVIOUS
  <2>3. at \in {"create", "insert"} /\ (at = "create" => b \in graphs)
    OBVIOUS
  <2>4. Do(t, change)
    BY <2>1
  <2> HIDE DEF at
  <2>5. /\ DOMAIN change = SessionFields /\ change.op = "session" /\ change.at = at
        /\ change.blueprint = b /\ change.template = template
    BY DEF SessionFields
  <2> HIDE DEF change
  <2>6. /\ SessionFields \subseteq DOMAIN task /\ task.op = "session" /\ task.at = at
        /\ task.blueprint = b /\ task.template = template
    BY <2>2, <2>5 DEF Onto, SessionFields
  <2>7. b \in DOMAIN blueprints
    BY <1>2 DEF OpenBlueprint
  <2>8. TaskSound(task)
    BY <2>1, <2>3, <2>6, <2>7
       DEF TaskSound, PromptSound, MakingSound, DatasetSound, BlueprintSound,
           BenchmarkSound, SessionSound, Prompting, Making, SessionFields
  <2>9. QED
    BY <1>1, <1>2, <2>2, <2>4, <2>8, DoTurns, TaskTurns DEF OpenBlueprint
<1>3. CASE InsertGraph(t)
  <2>1. PICK at \in {"create", "built"} :
            Do(t, [at |-> at]) /\ (at = "create" => tasks[t].blueprint \in graphs)
    BY <1>3 DEF InsertGraph, Insertable
  <2>2. PICK task : task = Onto([at |-> at], tasks[t])
    OBVIOUS
  <2>3. tasks[t].op = "session"
    BY <1>3 DEF InsertGraph
  <2>4. TaskSound(task)
    <3>1. /\ SessionFields \subseteq DOMAIN task /\ task.op = "session" /\ task.at = at
          /\ task.blueprint = tasks[t].blueprint /\ task.template = tasks[t].template
          /\ task.blueprint \in DOMAIN blueprints
          /\ task.template # "benchmark" => Compatible(task.blueprint, task.template)
      BY <1>1, <2>2, <2>3, SessionGoesOn
    <3>2. QED
      BY <2>1, <3>1 DEF TaskSound, PromptSound, MakingSound, DatasetSound, BlueprintSound,
                        BenchmarkSound, SessionSound, Prompting, Making, SessionFields
  <2>5. QED
    BY <1>1, <1>3, <2>1, <2>2, <2>4, DoTurns, TaskTurns DEF InsertGraph
<1>4. CASE RollBack(t)
  BY <1>1, <1>4, FreeSound, EndTurns, TaskTurns DEF RollBack
<1>5. QED
  BY <1>2, <1>3, <1>4

LEMMA CommitGraphKeeps ==
    ASSUME AuthoringAssumption, MaterialInvariant, NEW t \in Tasks, CommitGraph(t)
    PROVE  MaterialInvariant'
<1>1. /\ MaterialTyped /\ TaskSound(tasks[t]) /\ tasks[t].op = "session"
      /\ graphs' = graphs \cup {tasks[t].blueprint} /\ Do(t, [at |-> "create"])
      /\ UNCHANGED <<prompts, datasets, blueprints, interviews, rankings, activated, coincided>>
  BY DEF MaterialInvariant, CommitGraph
<1>2. Grown
  BY <1>1 DEF Grown
<1>3. PICK task : task = Onto([at |-> "create"], tasks[t])
  OBVIOUS
<1>4. /\ SessionFields \subseteq DOMAIN task /\ task.op = "session" /\ task.at = "create"
      /\ task.blueprint = tasks[t].blueprint /\ task.template = tasks[t].template
      /\ task.blueprint \in DOMAIN blueprints
      /\ task.template # "benchmark" => Compatible(task.blueprint, task.template)
  BY <1>1, <1>3, SessionGoesOn
<1>5. TaskSound(task)'
  <2>1. SessionSound(task)'
    BY <1>1, <1>4 DEF SessionSound, Compatible
  <2>2. QED
    BY <1>4, <2>1 DEF TaskSound, PromptSound, MakingSound, DatasetSound, BlueprintSound,
                      BenchmarkSound, Prompting, Making, SessionFields
<1>6. DOMAIN tasks' = Tasks /\ tasks'[t] = task /\ \A u \in Tasks : u # t => tasks'[u] = tasks[u]
  BY <1>1, <1>3, DoTurns
<1>7. ASSUME NEW u \in Tasks PROVE TaskSound(tasks[u])'
  <2>1. CASE u = t
    BY <1>5, <1>6, <2>1
  <2>2. CASE u # t
    <3>1. PICK kept : kept = tasks[u] /\ kept = tasks'[u] /\ TaskSound(kept)
      BY <1>6, <2>2 DEF MaterialInvariant
    <3>2. TaskSound(kept)'
      BY <1>2, <3>1, TaskStays
    <3>3. QED
      BY <3>1, <3>2
  <2>3. QED
    BY <2>1, <2>2
<1>8. Active' = Active
  BY <1>1 DEF Active
<1>9. MaterialTold' /\ MaterialTyped' /\ \A s \in interviews' : s.blueprint \in DOMAIN blueprints'
  BY <1>1, <1>6, <1>8 DEF MaterialInvariant, MaterialTyped, MaterialTold, PromptStays, VersionsHonest,
                          RankedFairly, SessionsGrounded
<1>10. QED
  BY <1>7, <1>9 DEF MaterialInvariant

LEMMA CreateInterviewKeeps ==
    ASSUME AuthoringAssumption, MaterialInvariant, NEW t \in Tasks, CreateInterview(t)
    PROVE  MaterialInvariant'
<1>1. /\ MaterialTyped /\ TaskSound(tasks[t]) /\ tasks[t].op = "session" /\ tasks[t].at = "create"
      /\ tasks[t].template # "benchmark" /\ EndTask(t)
      /\ UNCHANGED <<prompts, datasets, blueprints, graphs, rankings, activated, coincided>>
  BY DEF MaterialInvariant, CreateInterview
<1> DEFINE new == [blueprint |-> tasks[t].blueprint, template |-> tasks[t].template]
<1>2. interviews' = interviews \cup {new}
  BY DEF CreateInterview
<1>3. /\ new.blueprint \in graphs /\ new.blueprint \in DOMAIN blueprints
      /\ new.template # "none" => blueprints[new.blueprint].template \in {"none", new.template}
  BY <1>1 DEF TaskSound, SessionSound, Compatible
<1> HIDE DEF new
<1>4. SessionsGrounded' /\ \A s \in interviews' : s.blueprint \in DOMAIN blueprints'
  BY <1>1, <1>2, <1>3 DEF MaterialInvariant, MaterialTold, SessionsGrounded
<1>5. DOMAIN tasks' = Tasks /\ tasks'[t] = Free /\ \A u \in Tasks : u # t => tasks'[u] = tasks[u]
  BY <1>1, EndTurns
<1>6. (\A u \in Tasks : TaskSound(tasks[u])') /\ PromptStays'
  BY <1>1, <1>5, FreeSound, GrowthTurns DEF Grown
<1>7. VersionsHonest' /\ RankedFairly' /\ MaterialTyped'
  BY <1>1, <1>5 DEF MaterialInvariant, MaterialTyped, MaterialTold, VersionsHonest, RankedFairly
<1>8. QED
  BY <1>4, <1>6, <1>7 DEF MaterialInvariant, MaterialTold

----------------------------------------------------------------------------
LEMMA MaterialBegins ==
    ASSUME InitAuthoring
    PROVE  MaterialInvariant
<1>1. \A u \in Tasks : tasks[u] = Free
  BY DEF InitAuthoring
<1>2. MaterialTyped
  BY DEF InitAuthoring, MaterialTyped, PromptStates
<1>3. MaterialTold
  <2>1. ToSet(rankings) = {} /\ DOMAIN datasets = {} /\ DOMAIN blueprints = {}
    BY DEF InitAuthoring, ToSet
  <2>2. QED
    BY <2>1 DEF InitAuthoring, MaterialTold, PromptStays, VersionsHonest, RankedFairly, SessionsGrounded
<1>4. QED
  BY <1>1, <1>2, <1>3, FreeSound DEF InitAuthoring, MaterialInvariant

LEMMA MaterialKept ==
    ASSUME AuthoringAssumption, MaterialInvariant, [NextAuthoring]_authoringVars
    PROVE  MaterialInvariant'
<1>1. CASE UNCHANGED authoringVars
  <2>1. /\ UNCHANGED <<prompts, datasets, blueprints, graphs, interviews, rankings, tasks,
                       activated, coincided>>
        /\ Grown /\ Active' = Active
    BY <1>1 DEF authoringVars, Grown, Active
  <2>2. ASSUME NEW u \in Tasks PROVE TaskSound(tasks[u])'
    <3>1. PICK kept : kept = tasks[u] /\ kept = tasks'[u] /\ TaskSound(kept)
      BY <2>1 DEF MaterialInvariant
    <3>2. TaskSound(kept)'
      BY <2>1, <3>1, TaskStays
    <3>3. QED
      BY <3>1, <3>2
  <2>3. MaterialTyped' /\ \A s \in interviews' : s.blueprint \in DOMAIN blueprints'
    BY <2>1 DEF MaterialInvariant, MaterialTyped
  <2>4. MaterialTold'
    BY <2>1 DEF MaterialInvariant, MaterialTold, PromptStays, VersionsHonest, RankedFairly,
                SessionsGrounded
  <2>5. QED
    BY <2>2, <2>3, <2>4 DEF MaterialInvariant
<1>2. ASSUME NEW t \in Tasks, AskPrompt(t) \/ MatchActive(t) \/ DemoteActive(t)
      PROVE  MaterialInvariant'
  BY <1>2, PromptTurnKeeps
<1>3. ASSUME NEW t \in Tasks, CommitPrompt(t) PROVE MaterialInvariant'
  BY <1>3, CommitPromptKeeps
<1>4. ASSUME NEW t \in Tasks, Generate(t) \/ GenerationFails(t) PROVE MaterialInvariant'
  BY <1>4, GenerateKeeps
<1>5. ASSUME NEW t \in Tasks, CallAgents(t) \/ Assemble(t) \/ Propose(t) \/ CountBlueprints(t)
      PROVE  MaterialInvariant'
  BY <1>5, MakingTurnKeeps
<1>6. ASSUME NEW t \in Tasks, StoreDataset(t) PROVE MaterialInvariant'
  BY <1>6, StoreDatasetKeeps
<1>7. ASSUME NEW t \in Tasks, StoreBlueprint(t) PROVE MaterialInvariant'
  BY <1>7, StoreBlueprintKeeps
<1>8. ASSUME NEW t \in Tasks, AnalyzePage(t) \/ CompleteGeneration(t) PROVE MaterialInvariant'
  BY <1>8, PageKeeps
<1>9. ASSUME NEW t \in Tasks, MeasureProfile(t) PROVE MaterialInvariant'
  BY <1>9, MeasureProfileKeeps
<1>10. ASSUME NEW t \in Tasks, StoreRanking(t) PROVE MaterialInvariant'
  BY <1>10, StoreRankingKeeps
<1>11. ASSUME NEW t \in Tasks, (\E b : OpenBlueprint(t, b)) \/ InsertGraph(t) \/ RollBack(t)
       PROVE  MaterialInvariant'
  BY <1>11, SessionTurnKeeps
<1>12. ASSUME NEW t \in Tasks, CommitGraph(t) PROVE MaterialInvariant'
  BY <1>12, CommitGraphKeeps
<1>13. ASSUME NEW t \in Tasks, CreateInterview(t) PROVE MaterialInvariant'
  BY <1>13, CreateInterviewKeeps
<1>14. ASSUME NEW i \in 1..MaxItems, NEW status \in {"candidate", "frozen", "deprecated"},
              SetDatasetStatus(i, status)
       PROVE  MaterialInvariant'
  BY <1>14, SetDatasetStatusKeeps
<1>15. QED
  BY <1>1, <1>2, <1>3, <1>4, <1>5, <1>6, <1>7, <1>8, <1>9, <1>10, <1>11, <1>12, <1>13, <1>14
     DEF NextAuthoring

----------------------------------------------------------------------------
(* Graphs that are being built *)

GraphsHeld ==
    /\ graphs \subseteq DOMAIN blueprints /\ activated \in 0..MaxPrompts
    /\ DOMAIN builders \subseteq Tasks
    /\ \A t \in DOMAIN builders : tasks[t].op = "session" /\ tasks[t].at = "built"

LEMMA OneTurns ==
    ASSUME MaterialTyped, NEW t \in Tasks,
           (\E change : Do(t, change)) \/ EndTask(t) \/ Abandoned(t) \/ Stored(t)
    PROVE  \A u \in Tasks : u # t => tasks'[u] = tasks[u]
BY DEF MaterialTyped, Do, EndTask, Abandoned, Stored

LEMMA GraphsStay ==
    ASSUME GraphsHeld, NEW t \in Tasks, ~(tasks[t].op = "session" /\ tasks[t].at = "built"),
           \A u \in Tasks : u # t => tasks'[u] = tasks[u],
           UNCHANGED <<builders, graphs, activated>>, DOMAIN blueprints \subseteq DOMAIN blueprints'
    PROVE  GraphsHeld'
BY DEF GraphsHeld

LEMMA GraphsKept ==
    ASSUME AuthoringAssumption, MaterialInvariant, GraphsHeld, [NextAuthoring]_authoringVars
    PROVE  GraphsHeld'
<1>1. MaterialTyped /\ \A t \in Tasks : TaskSound(tasks[t])
  BY DEF MaterialInvariant
<1>2. CASE UNCHANGED authoringVars
  BY <1>2 DEF authoringVars, GraphsHeld
<1>3. ASSUME NEW t \in Tasks, AskPrompt(t) \/ MatchActive(t) \/ DemoteActive(t)
      PROVE  GraphsHeld'
  <2>1. tasks[t].op # "session" /\ UNCHANGED <<builders, graphs, activated, blueprints>>
    BY <1>3 DEF AskPrompt, MatchActive, DemoteActive, Free
  <2>2. \E change : Do(t, change)
    <3>1. AskPrompt(t) => \E change : Do(t, change)
      BY DEF AskPrompt
    <3>2. MatchActive(t) \/ DemoteActive(t) => \E change : Do(t, change)
      BY DEF MatchActive, DemoteActive
    <3>3. QED
      BY <1>3, <3>1, <3>2
  <2>3. QED
    BY <1>1, <2>1, <2>2, OneTurns, GraphsStay
<1>4. ASSUME NEW t \in Tasks, CommitPrompt(t) PROVE GraphsHeld'
  <2>1. /\ tasks[t].op \in Prompting /\ tasks[t].at = "write"
        /\ UNCHANGED <<builders, graphs, blueprints>>
    BY <1>4 DEF CommitPrompt, Prompting
  <2>2. ASSUME NEW u \in Tasks, tasks[u].op = "session" PROVE tasks'[u] = tasks[u]
    <3>1. u # t
      BY <2>1, <2>2 DEF Prompting
    <3>2. CASE EndTask(t)
      BY <1>1, <3>1, <3>2, EndTurns
    <3>3. CASE ~EndTask(t)
      BY <1>4, <2>2, <3>1, <3>3 DEF CommitPrompt
    <3>4. QED
      BY <3>2, <3>3
  <2>3. activated' \in 0..MaxPrompts
    <3>1. tasks[t].version \in 0..MaxPrompts
      BY <1>1, <2>1 DEF TaskSound, PromptSound, Numbers
    <3>2. activated' = activated \/ activated' = tasks[t].version
      BY <1>4 DEF CommitPrompt
    <3>3. QED
      BY <3>1, <3>2 DEF GraphsHeld
  <2>4. QED
    BY <2>1, <2>2, <2>3 DEF GraphsHeld
<1>5. ASSUME NEW t \in Tasks,
             \/ Generate(t) \/ GenerationFails(t) \/ CallAgents(t) \/ Assemble(t)
             \/ Propose(t) \/ CountBlueprints(t) \/ AnalyzePage(t) \/ CompleteGeneration(t)
             \/ MeasureProfile(t) \/ StoreRanking(t) \/ StoreDataset(t)
      PROVE  GraphsHeld'
  <2>1. tasks[t].op # "session" /\ UNCHANGED <<builders, graphs, activated, blueprints>>
    BY <1>5 DEF Generate, GenerationFails, Generating, CallAgents, Assemble, Propose, CountBlueprints,
                AnalyzePage, CompleteGeneration, MeasureProfile, StoreRanking, StoreDataset, Free
  <2>2. (\E change : Do(t, change)) \/ EndTask(t) \/ Abandoned(t) \/ Stored(t)
    BY <1>5 DEF Generate, GenerateDataset, GenerateBlueprint, RunBenchmark, AnalyzeVisuals,
                GenerationFails, CallAgents, Assemble, Propose, CountBlueprints,
                AnalyzePage, CompleteGeneration, MeasureProfile, StoreRanking, StoreDataset
  <2>3. QED
    BY <1>1, <2>1, <2>2, OneTurns, GraphsStay
<1>6. ASSUME NEW t \in Tasks, StoreBlueprint(t) PROVE GraphsHeld'
  <2>1. /\ tasks[t].op # "session" /\ UNCHANGED <<builders, graphs, activated>> /\ Stored(t)
    BY <1>6 DEF StoreBlueprint
  <2>2. DOMAIN blueprints \subseteq DOMAIN blueprints'
    <3>1. PICK row : blueprints' = Append(blueprints, row)
      BY <1>6 DEF StoreBlueprint
    <3>2. blueprints \in Seq(BlueprintRow)
      BY <1>1 DEF MaterialTyped
    <3>3. QED
      BY <3>1, <3>2
  <2>3. QED
    BY <1>1, <2>1, <2>2, OneTurns, GraphsStay
<1>7. ASSUME NEW t \in Tasks, (\E b : OpenBlueprint(t, b)) \/ CreateInterview(t) PROVE GraphsHeld'
  <2>1. /\ ~(tasks[t].op = "session" /\ tasks[t].at = "built")
        /\ UNCHANGED <<builders, graphs, activated, blueprints>>
    BY <1>7 DEF OpenBlueprint, CreateInterview, Free
  <2>2. (\E change : Do(t, change)) \/ EndTask(t)
    <3>1. (\E b : OpenBlueprint(t, b)) => \E change : Do(t, change)
      BY DEF OpenBlueprint
    <3>2. CreateInterview(t) => EndTask(t)
      BY DEF CreateInterview
    <3>3. QED
      BY <1>7, <3>1, <3>2
  <2>3. QED
    BY <1>1, <2>1, <2>2, OneTurns, GraphsStay
<1>8. ASSUME NEW t \in Tasks, InsertGraph(t) PROVE GraphsHeld'
  <2>1. /\ tasks[t].op = "session" /\ tasks[t].at = "insert"
        /\ UNCHANGED <<graphs, activated, blueprints>>
    BY <1>8 DEF InsertGraph
  <2>2. CASE UNCHANGED builders
    <3>1. \E change : Do(t, change)
      BY <1>8 DEF InsertGraph
    <3>2. QED
      BY <1>1, <2>1, <2>2, <3>1, OneTurns, GraphsStay
  <2>3. CASE /\ builders' = Onto([u \in {t} |-> tasks[t].blueprint], builders)
             /\ Do(t, [at |-> "built"])
    <3>1. DOMAIN builders' = DOMAIN builders \cup {t}
      BY <2>3 DEF Onto
    <3>2. tasks'[t].op = "session" /\ tasks'[t].at = "built" /\ \A u \in Tasks : u # t => tasks'[u] = tasks[u]
      <4>1. PICK task : task = Onto([at |-> "built"], tasks[t])
        OBVIOUS
      <4>2. task.op = "session" /\ task.at = "built"
        BY <1>1, <2>1, <4>1, SessionGoesOn
      <4>3. QED
        BY <1>1, <2>3, <4>1, <4>2, DoTurns
    <3>3. QED
      BY <2>1, <3>1, <3>2 DEF GraphsHeld
  <2>4. QED
    BY <1>8, <2>2, <2>3 DEF InsertGraph
<1>9. ASSUME NEW t \in Tasks, CommitGraph(t) \/ RollBack(t) PROVE GraphsHeld'
  <2>1. /\ DOMAIN builders' = DOMAIN builders \ {t} /\ UNCHANGED <<activated, blueprints>>
        /\ (\E change : Do(t, change)) \/ EndTask(t)
    BY <1>9 DEF CommitGraph, RollBack, Others
  <2>2. \A u \in Tasks : u # t => tasks'[u] = tasks[u]
    BY <1>1, <2>1, OneTurns
  <2>3. graphs' \subseteq DOMAIN blueprints
    <3>1. CASE CommitGraph(t)
      <4>1. tasks[t].blueprint \in DOMAIN blueprints /\ graphs' = graphs \cup {tasks[t].blueprint}
        BY <1>1, <3>1 DEF CommitGraph, TaskSound, SessionSound
      <4>2. QED
        BY <4>1 DEF GraphsHeld
    <3>2. CASE RollBack(t)
      BY <3>2 DEF RollBack, GraphsHeld
    <3>3. QED
      BY <1>9, <3>1, <3>2
  <2>4. QED
    BY <2>1, <2>2, <2>3 DEF GraphsHeld
<1>10. ASSUME NEW i \in 1..MaxItems, NEW status \in {"candidate", "frozen", "deprecated"},
              SetDatasetStatus(i, status)
       PROVE  GraphsHeld'
  BY <1>10 DEF SetDatasetStatus, GraphsHeld
<1>11. QED
  BY <1>2, <1>3, <1>4, <1>5, <1>6, <1>7, <1>8, <1>9, <1>10 DEF NextAuthoring

\* Whatever requests and jobs do at the same time, and whichever of them fail, an
\* organization that has activated a prompt keeps one, datasets and blueprints
\* say truly how they were made, benchmarks rank every profile once and in order,
\* and sessions run on a committed graph by the template their blueprint was
\* planned for.
THEOREM MaterialIsSound == SpecAuthoring => []AuthoredSound
<1>1. InitAuthoring => MaterialInvariant /\ GraphsHeld
  <2>1. InitAuthoring => GraphsHeld
    BY AuthoringAssumption DEF InitAuthoring, GraphsHeld, AuthoringAssumption
  <2>2. QED
    BY <2>1, MaterialBegins
<1>2. MaterialInvariant /\ GraphsHeld /\ [NextAuthoring]_authoringVars => (MaterialInvariant /\ GraphsHeld)'
  BY AuthoringAssumption, MaterialKept, GraphsKept
<1>3. MaterialInvariant /\ GraphsHeld => AuthoredSound
  BY DEF MaterialInvariant, MaterialTyped, PromptStates, GraphsHeld, AuthoredSound, AuthoringTypeOK,
         MaterialTold
<1>4. QED
  BY <1>1, <1>2, <1>3, PTL DEF SpecAuthoring
=============================================================================
