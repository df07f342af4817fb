--------------------------- MODULE BaselinesProofs ---------------------------
(***************************************************************************)
(* TLAPS proofs about Baselines, for any number of processes and runs, in  *)
(* any overlap, and any configuration of the check.                        *)
(***************************************************************************)
EXTENDS Baselines, TLAPS, WellFoundedInduction, NaturalsInduction

-----------------------------------------------------------------------------
(* Observations.                                                           *)

\* Of some stamps up to a bound there is a last one.
LEMMA LastStamp ==
  ASSUME NEW b \in Nat, NEW T, T \subseteq 0..b, T # {}
  PROVE  \E m \in T : \A n \in T : n <= m
<1> DEFINE U == {b - t : t \in T}
<1>1. U \subseteq Nat /\ U # {}
  <2>1. \A t \in T : t \in 0..b
    OBVIOUS
  <2>2. \A t \in 0..b : b - t \in Nat
    OBVIOUS
  <2>3. \A t \in T : b - t \in Nat
    BY <2>1, <2>2
  <2>4. \E t : t \in T
    OBVIOUS
  <2> QED BY <2>3, <2>4
<1>2. PICK m \in U : \A n \in U : <<n, m>> \notin OpToRel(<, Nat)
  <2> HIDE DEF U
  <2> QED BY <1>1, NatLessThanWellFounded, WFMin
<1>3. \A n \in U : ~(n < m)
  BY <1>1, <1>2 DEF OpToRel
<1>4. PICK t \in T : m = b - t
  BY <1>2
<1>5. \A u \in T : u <= t
  <2> SUFFICES ASSUME NEW u \in T PROVE u <= t
    OBVIOUS
  <2>1. ~(b - u < b - t)
    BY <1>3, <1>4
  <2>2. t \in 0..b /\ u \in 0..b
    OBVIOUS
  <2> QED BY <2>1, <2>2
<1> QED BY <1>4, <1>5

\* The newest of some observations is one of them.
LEMMA NewestExists ==
  ASSUME started \in Nat, NEW S, S # {}, \A o \in S : o.at \in 0..started
  PROVE  Newest(S) \in S /\ \A p \in S : p.at <= Newest(S).at
<1>1. {o.at : o \in S} \subseteq 0..started /\ {o.at : o \in S} # {}
  OBVIOUS
<1>2. PICK m \in {o.at : o \in S} : \A n \in {o.at : o \in S} : n <= m
  BY <1>1, LastStamp
<1>3. PICK o \in S : m = o.at
  BY <1>2
<1>4. \A p \in S : p.at <= o.at
  BY <1>2, <1>3
<1> QED BY <1>4 DEF Newest

-----------------------------------------------------------------------------
(* Types.                                                                  *)

OneOutcome == [status : Status, value : check.scalars \cup {Null}, path : Path]

\* Stamps are handed out once: to a run under way, or to the row it left.
Stamps ==
  /\ \A o \in obs : o.at \in 1..started /\ \A r \in Runners : at[r] # o.at
  /\ \A r, s \in Runners : at[r] = at[s] /\ at[r] # 0 => r = s

ResultTypes ==
  /\ result \in [Runners -> OneOutcome \cup {NoResult}]
  /\ \A x \in check.scalars : x.type \in {"null", "number", "decimal", "text"}

TypeInv == TypeOK /\ Stamps /\ ResultTypes

\* What an evaluation may come to.
LEMMA OutcomeTypes ==
  ASSUME TypeInv, NEW x \in check.scalars
  PROVE  EvaluateUnchanged(x) \in OneOutcome /\ EvaluateVsPrevious(x) \in OneOutcome
<1>1. check \in CheckSpecs
  BY DEF TypeInv, TypeOK
<1>2. check.severity \in {"error", "warn"} /\ check.on_missing \in {"pass", "warn", "skip"}
  BY <1>1, BaselinesAssumption
<1>3. \A passed : Verdict(check.severity, passed) \in Status
  BY DEF Verdict, Status
<1>4. OnMissingStatus[check.on_missing] \in Status
  BY <1>2 DEF OnMissingStatus, Status
<1>5. \A s \in Status, y \in check.scalars \cup {Null}, path \in Path :
        Outcome(s, y, path) \in OneOutcome
  BY DEF Outcome, OneOutcome
<1>6. /\ "ERROR" \in Status
      /\ "empty" \in Path /\ "missing" \in Path /\ "compared" \in Path /\ "error" \in Path
  BY DEF Status, Path
<1>7. EvaluateUnchanged(x) \in OneOutcome
  <2> HIDE DEF OneOutcome
  <2> QED BY <1>3, <1>5, <1>6 DEF EvaluateUnchanged
<1>8. EvaluateVsPrevious(x) \in OneOutcome
  BY <1>3, <1>4, <1>5, <1>6 DEF EvaluateVsPrevious
<1> QED BY <1>7, <1>8

\* A result's row.
LEMMA RowTypes ==
  ASSUME TypeInv, NEW r \in Runners, result[r] # NoResult
  PROVE  /\ RowOf(r).at = at[r]
         /\ at[r] \in 1..started
         /\ RowOf(r).until = started /\ started \in at[r]..started
         /\ RowOf(r).status \in Status
         /\ RowOf(r).path \in Path
         /\ RowOf(r).value = NULL \/ RowOf(r).value_text = NULL
<1>1. result[r] \in OneOutcome
  BY DEF TypeInv, ResultTypes
<1>2. at[r] \in 0..started /\ at[r] # 0 /\ started \in Nat
  BY BaselinesAssumption DEF TypeInv, TypeOK
<1>3. at[r] \in 1..started /\ started \in at[r]..started
  BY <1>2
<1>4. /\ RowOf(r).at = at[r] /\ RowOf(r).until = started
      /\ RowOf(r).status = result[r].status /\ RowOf(r).path = result[r].path
      /\ RowOf(r).value = SplitValue(result[r].value).value
      /\ RowOf(r).value_text = SplitValue(result[r].value).value_text
  BY DEF RowOf
<1>5. result[r].status \in Status /\ result[r].path \in Path
  BY <1>1 DEF OneOutcome
<1>6. SplitValue(result[r].value).value = NULL \/ SplitValue(result[r].value).value_text = NULL
  BY DEF SplitValue
<1> QED BY <1>3, <1>4, <1>5, <1>6

\* The types hold at first and are kept.
LEMMA TypesHold ==
  /\ Init => TypeInv
  /\ TypeInv /\ [Next]_vars => TypeInv'
<1>1. ASSUME Init PROVE TypeInv
  <2>1. check \in CheckSpecs
    BY <1>1 DEF Init
  <2>2. \A x \in check.scalars : x.type \in {"null", "number", "decimal", "text"}
    BY <2>1, BaselinesAssumption
  <2> QED BY <1>1, <2>2, BaselinesAssumption DEF Init, TypeInv, TypeOK, Stamps, ResultTypes
<1>2. ASSUME TypeInv, [Next]_vars PROVE TypeInv'
  <2> USE <1>2
  <2>0. started \in Nat /\ MaxRuns \in Nat /\ at \in [Runners -> 0..started]
    BY BaselinesAssumption DEF TypeInv, TypeOK
  <2>1. ASSUME NEW r \in Runners, Start(r) PROVE TypeInv'
    <3>1. /\ started' = started + 1 /\ started' \in 0..MaxRuns
          /\ at' = [at EXCEPT ![r] = started + 1]
          /\ UNCHANGED <<check, source, obs, result>>
      BY <2>0, <2>1 DEF Start
    <3>2. at' \in [Runners -> 0..started']
      BY <2>0, <3>1
    <3>3. TypeOK'
      BY <2>0, <3>1, <3>2 DEF TypeInv, TypeOK
    <3>4. Stamps'
      BY <2>0, <3>1 DEF TypeInv, Stamps
    <3>5. ResultTypes'
      BY <3>1 DEF TypeInv, ResultTypes, OneOutcome
    <3> QED BY <3>3, <3>4, <3>5 DEF TypeInv
  <2>2. ASSUME NEW r \in Runners, Evaluate(r) PROVE TypeInv'
    <3>1. /\ at[r] # 0
          /\ UNCHANGED <<check, source, obs, started, at>>
      BY <2>2 DEF Evaluate
    <3>2. Outcome("SKIPPED", Null, "skipped") \in OneOutcome
          /\ Outcome("ERROR", Null, "error") \in OneOutcome
      BY DEF Outcome, OneOutcome, Status, Path
    <3>3. source # Unreachable => source \in check.scalars
      BY DEF TypeInv, TypeOK
    <3>4. \E y \in OneOutcome : result' = [result EXCEPT ![r] = y]
      BY <2>2, <3>2, <3>3, OutcomeTypes DEF Evaluate
    <3>5. ResultTypes'
      BY <3>1, <3>4 DEF TypeInv, ResultTypes, OneOutcome
    <3>6. TypeOK'
      BY <3>1, <3>4 DEF TypeInv, TypeOK, ResultTypes
    <3>7. Stamps'
      BY <3>1 DEF TypeInv, Stamps
    <3> QED BY <3>5, <3>6, <3>7 DEF TypeInv
  <2>3. ASSUME NEW r \in Runners, Persist(r) PROVE TypeInv'
    <3>1. /\ result[r] # NoResult
          /\ obs' = obs \cup {RowOf(r)}
          /\ at' = [at EXCEPT ![r] = 0]
          /\ result' = [result EXCEPT ![r] = NoResult]
          /\ UNCHANGED <<check, source, started>>
      BY <2>3 DEF Persist
    <3>2. /\ RowOf(r).at = at[r]
          /\ at[r] \in 1..started
          /\ RowOf(r).until = started /\ started \in at[r]..started
          /\ RowOf(r).status \in Status
          /\ RowOf(r).path \in Path
          /\ RowOf(r).value = NULL \/ RowOf(r).value_text = NULL
      BY <3>1, RowTypes
    <3> HIDE DEF RowOf
    <3>3. TypeOK'
      BY <2>0, <3>1, <3>2 DEF TypeInv, TypeOK, Stamps, ResultTypes
    <3>4. Stamps'
      BY <2>0, <3>1, <3>2 DEF TypeInv, Stamps
    <3>5. ResultTypes'
      BY <3>1 DEF TypeInv, ResultTypes, OneOutcome
    <3> QED BY <3>3, <3>4, <3>5 DEF TypeInv
  <2>4. ASSUME NEW r \in Runners, Lose(r) PROVE TypeInv'
    <3>1. /\ at' = [at EXCEPT ![r] = 0]
          /\ result' = [result EXCEPT ![r] = NoResult]
          /\ UNCHANGED <<check, source, obs, started>>
      BY <2>4 DEF Lose
    <3>2. TypeOK'
      BY <2>0, <3>1 DEF TypeInv, TypeOK, ResultTypes
    <3>3. Stamps'
      BY <2>0, <3>1 DEF TypeInv, Stamps
    <3>4. ResultTypes'
      BY <3>1 DEF TypeInv, ResultTypes, OneOutcome
    <3> QED BY <3>2, <3>3, <3>4 DEF TypeInv
  <2>5. ASSUME Drift PROVE TypeInv'
    BY <2>5 DEF Drift, TypeInv, TypeOK, Stamps, ResultTypes, OneOutcome
  <2>6. ASSUME Prune PROVE TypeInv'
    <3>1. obs' \subseteq obs /\ UNCHANGED <<check, source, started, at, result>>
      BY <2>6 DEF Prune
    <3> QED BY <3>1 DEF TypeInv, TypeOK, Stamps, ResultTypes, OneOutcome
  <2>7. ASSUME UNCHANGED vars PROVE TypeInv'
    BY <2>7 DEF vars, TypeInv, TypeOK, Stamps, ResultTypes, OneOutcome
  <2> QED BY <2>1, <2>2, <2>3, <2>4, <2>5, <2>6, <2>7 DEF Next
<1> QED BY <1>1, <1>2

\* Rows hold a number or a text and never both, and no stamp is used twice,
\* however runs of the check overlap, die and are pruned (TypeOK).
THEOREM TypeCorrect == Spec => []TypeOK
<1>1. Spec => []TypeInv
  BY TypesHold, PTL DEF Spec
<1>2. TypeInv => TypeOK
  BY DEF TypeInv
<1> QED BY <1>1, <1>2, PTL

-----------------------------------------------------------------------------
(* Verdicts and history.                                                   *)

After(p) == {q \in obs : p.at < q.at}

\* What a run's result c says about an earlier row p, when the rows of M are
\* all that may stand between the two.
Alarms(c, p, M) ==
  /\ HasFingerprint(c) /\ HasFingerprint(p)
  /\ \A q \in M : ~HasFingerprint(q)
  => (c.status = "OK" <=> c.value_text = p.value_text)

Keeps(c, p, M) ==
  c.path = "missing" /\ ~Broken(p) /\ UsableBaseline(p) =>
    \E q \in M : ~Broken(q) /\ ~UsableBaseline(q)

Agrees(c, p, M) ==
  /\ c.path = "compared" /\ ~Broken(p)
  /\ \A q \in M : Broken(q)
  => (c.status = "OK" <=> p.value # NULL /\ Close(c.value, p.value))

Fits(c, p, M) ==
  /\ check.expect = "unchanged" => Alarms(c, p, M)
  /\ check.expect = "vs_previous" => Keeps(c, p, M) /\ Agrees(c, p, M)

\* A result as its row will show it.
Content(y) ==
  [status |-> y.status, path |-> y.path,
   value |-> SplitValue(y.value).value, value_text |-> SplitValue(y.value).value_text]

\* A row fits every row that was there before its run began; so will the row
\* of a run that has been evaluated, after which anything may be stored.
StoredFit == \A o, p \in obs : p.until < o.at => Fits(o, p, Meanwhile(p, o))

PendingFit ==
  \A r \in Runners, p \in obs :
    result[r] # NoResult /\ p.until < at[r] => Fits(Content(result[r]), p, After(p))

\* A shape passes for unchanged only if some run has stored it.
Passed(y) ==
  check.expect = "unchanged" /\ y.path = "compared" /\ y.status = "OK"

ShapesKnown ==
  /\ \A o \in obs : HasFingerprint(o) => o.value_text \in shapes
  /\ \A r \in Runners :
       result[r] # NoResult /\ Passed(result[r])
         => Content(result[r]).value_text \in shapes

History == TypeInv /\ StoredFit /\ PendingFit /\ ShapesKnown

\* A verdict is OK exactly when the check passed.
LEMMA VerdictOK ==
  ASSUME NEW severity, NEW passed \in BOOLEAN
  PROVE  Verdict(severity, passed) = "OK" <=> passed
  BY DEF Verdict

\* The newest of some rows is a given one of them, or comes after it.
LEMMA NewestIsNext ==
  ASSUME TypeInv, NEW S, S \subseteq obs, NEW p \in S
  PROVE  Newest(S) \in S /\ (Newest(S) = p \/ Newest(S) \in After(p))
<1>1. started \in Nat /\ \A o \in obs : o.at \in 1..started
  BY BaselinesAssumption DEF TypeInv, TypeOK, Stamps
<1>2. \A o \in S : o.at \in 0..started
  BY <1>1
<1>3. Newest(S) \in S /\ p.at <= Newest(S).at
  BY <1>1, <1>2, NewestExists
<1>4. Newest(S).at = p.at => Newest(S) = p
  BY <1>3 DEF TypeInv, TypeOK
<1> QED BY <1>1, <1>3, <1>4 DEF After

\* A schema check's result, compared with the newest fingerprint.
LEMMA UnchangedRow ==
  ASSUME TypeInv, NEW x \in check.scalars, NEW c,
         c.status = EvaluateUnchanged(x).status,
         c.value_text = SplitValue(x).value_text,
         NEW p \in obs
  PROVE  Alarms(c, p, After(p))
<1> SUFFICES ASSUME HasFingerprint(p), \A q \in After(p) : ~HasFingerprint(q)
             PROVE  c.status = "OK" <=> c.value_text = p.value_text
  BY DEF Alarms
<1> DEFINE prior == Fingerprinted(obs)
<1>1. prior \subseteq obs /\ p \in prior
  BY DEF Fingerprinted, HasFingerprint
<1>2. Newest(prior) = p
  <2>1. Newest(prior) \in prior /\ (Newest(prior) = p \/ Newest(prior) \in After(p))
    <3> HIDE DEF prior
    <3> QED BY <1>1, NewestIsNext
  <2>2. HasFingerprint(Newest(prior))
    BY <2>1 DEF Fingerprinted, HasFingerprint
  <2> QED BY <2>1, <2>2
<1>3. EvaluateUnchanged(x).status
        = Verdict(check.severity, p.value_text = SplitValue(x).value_text)
  BY <1>1, <1>2 DEF EvaluateUnchanged, Outcome, Verdict
<1> QED BY <1>3, VerdictOK

\* A shape that passes is that of some stored row.
LEMMA PassedShape ==
  ASSUME TypeInv, ShapesKnown, NEW x \in check.scalars,
         EvaluateUnchanged(x).path = "compared",
         EvaluateUnchanged(x).status = "OK"
  PROVE  SplitValue(x).value_text \in shapes
<1> DEFINE prior == Fingerprinted(obs)
<1>1. prior # {} /\ prior \subseteq obs
  BY DEF EvaluateUnchanged, Outcome, Fingerprinted
<1>2. PICK p \in prior : TRUE
  BY <1>1
<1>3. Newest(prior) \in prior
  <2> HIDE DEF prior
  <2> QED BY <1>1, <1>2, NewestIsNext
<1>4. Newest(prior).value_text \in shapes
  BY <1>1, <1>3 DEF ShapesKnown, Fingerprinted, HasFingerprint
<1>5. Newest(prior).value_text = SplitValue(x).value_text
  BY <1>1 DEF EvaluateUnchanged, Outcome, Verdict
<1> QED BY <1>4, <1>5

\* A numeric check's result, compared with the newest clean observation.
LEMMA PreviousRow ==
  ASSUME TypeInv, NEW x \in check.scalars, NEW c,
         c.status = EvaluateVsPrevious(x).status,
         c.path = EvaluateVsPrevious(x).path,
         c.value = SplitValue(x).value,
         NEW p \in obs
  PROVE  Keeps(c, p, After(p)) /\ Agrees(c, p, After(p))
<1> SUFFICES ASSUME ~Broken(p) PROVE Keeps(c, p, After(p)) /\ Agrees(c, p, After(p))
  BY DEF Keeps, Agrees
<1> DEFINE n == Newest(Clean(obs))
           missing == PreviousBaseline = NULL \/ (PreviousBaseline = 0 /\ ~check.delta)
<1>1. \A q \in obs : ~Broken(q) <=> q \in Clean(obs)
  BY DEF TypeInv, TypeOK, Broken, Clean, CleanStatus, Status
<1>2. Clean(obs) \subseteq obs /\ p \in Clean(obs)
  BY <1>1 DEF Clean
<1>3. n \in Clean(obs) /\ (n = p \/ n \in After(p))
  BY <1>2, NewestIsNext
<1>5. PreviousBaseline = n.value
  BY <1>2 DEF PreviousBaseline
<1>6. c.path = "missing" => missing
  BY DEF EvaluateVsPrevious, Outcome
<1>7. c.path = "compared" =>
        /\ x.type = "number"
        /\ ~missing
        /\ c.status = Verdict(check.severity, Close(x.v, PreviousBaseline))
  BY DEF EvaluateVsPrevious, Outcome
<1> HIDE DEF n
<1>8. Keeps(c, p, After(p))
  <2> SUFFICES ASSUME c.path = "missing", UsableBaseline(p)
               PROVE  \E q \in After(p) : ~Broken(q) /\ ~UsableBaseline(q)
    BY DEF Keeps
  <2>1. ~UsableBaseline(n)
    BY <1>5, <1>6 DEF UsableBaseline
  <2>2. n \in After(p)
    BY <1>3, <2>1
  <2> QED BY <1>1, <1>2, <1>3, <2>1, <2>2
<1>9. Agrees(c, p, After(p))
  <2> SUFFICES ASSUME c.path = "compared", \A q \in After(p) : Broken(q)
               PROVE  c.status = "OK" <=> p.value # NULL /\ Close(c.value, p.value)
    BY DEF Agrees
  <2>1. n = p
    BY <1>1, <1>2, <1>3
  <2>2. p.value # NULL
    BY <1>5, <1>7, <2>1
  <2>3. c.value = x.v
    BY <1>7 DEF SplitValue
  <2>4. c.status = Verdict(check.severity, Close(c.value, p.value))
    BY <1>5, <1>7, <2>1, <2>3
  <2>5. Close(c.value, p.value) \in BOOLEAN
    BY DEF Close
  <2>6. c.status = "OK" <=> Close(c.value, p.value)
    BY <2>4, <2>5, VerdictOK
  <2> QED BY <2>2, <2>6
<1> QED BY <1>8, <1>9

\* Whatever an evaluation comes to, its row will fit the rows there are.
LEMMA EvaluatedRow ==
  ASSUME TypeInv, ShapesKnown, NEW r \in Runners, Evaluate(r)
  PROVE  /\ \A p \in obs : Fits(Content(result'[r]), p, After(p))
         /\ Passed(result'[r]) => Content(result'[r]).value_text \in shapes
<1> DEFINE y == result'[r]
           c == Content(y)
<1>2. /\ c.status = y.status /\ c.path = y.path
      /\ c.value = SplitValue(y.value).value
      /\ c.value_text = SplitValue(y.value).value_text
  BY DEF Content
<1>3. \/ y = Outcome("SKIPPED", Null, "skipped")
      \/ y = Outcome("ERROR", Null, "error")
      \/ /\ source \in check.scalars
         /\ y = IF check.expect = "unchanged" THEN EvaluateUnchanged(source)
                ELSE EvaluateVsPrevious(source)
  BY DEF Evaluate, TypeInv, TypeOK, ResultTypes
<1> HIDE DEF y, c
<1> SUFFICES /\ \A p \in obs : Fits(c, p, After(p))
             /\ Passed(y) => c.value_text \in shapes
  BY DEF y, c
<1>4. CASE y \in {Outcome("SKIPPED", Null, "skipped"), Outcome("ERROR", Null, "error")}
  <2>1. /\ y.path \notin {"missing", "compared"}
        /\ SplitValue(y.value).value_text = NULL
    BY <1>4 DEF Outcome, Null, SplitValue
  <2>2. \A p \in obs : Fits(c, p, After(p))
    BY <1>2, <2>1 DEF Fits, Alarms, Keeps, Agrees, HasFingerprint
  <2> QED BY <2>1, <2>2 DEF Passed
<1>5. CASE /\ source \in check.scalars /\ check.expect = "unchanged"
           /\ y = EvaluateUnchanged(source)
  <2>1. y.value = source
    BY <1>5 DEF EvaluateUnchanged, Outcome
  <2>2. \A p \in obs : Alarms(c, p, After(p))
    BY <1>2, <1>5, <2>1, UnchangedRow
  <2>3. Passed(y) => c.value_text \in shapes
    BY <1>2, <1>5, <2>1, PassedShape DEF Passed
  <2> QED BY <1>5, <2>2, <2>3 DEF Fits
<1>6. CASE /\ source \in check.scalars /\ check.expect # "unchanged"
           /\ y = EvaluateVsPrevious(source)
  <2>1. y.path \in {"missing", "compared"} => y.value = source
    BY <1>6 DEF EvaluateVsPrevious, Outcome
  <2>2. CASE y.path \in {"missing", "compared"}
    <3>1. \A p \in obs : Keeps(c, p, After(p)) /\ Agrees(c, p, After(p))
      BY <1>2, <1>6, <2>1, <2>2, PreviousRow
    <3> QED BY <1>6, <3>1 DEF Fits, Passed
  <2>3. CASE y.path \notin {"missing", "compared"}
    <3>1. \A p \in obs : Keeps(c, p, After(p)) /\ Agrees(c, p, After(p))
      BY <1>2, <2>3 DEF Keeps, Agrees
    <3> QED BY <1>6, <3>1 DEF Fits, Passed
  <2> QED BY <2>2, <2>3
<1> QED BY <1>3, <1>4, <1>5, <1>6

\* Rows that may stand in between only weaken what a result says.
LEMMA MoreBetween ==
  ASSUME NEW c, NEW p, NEW M, NEW L, M \subseteq L, Fits(c, p, M)
  PROVE  Fits(c, p, L)
  BY DEF Fits, Alarms, Keeps, Agrees

\* A row shows what the result said.
LEMMA RowFits ==
  ASSUME NEW r \in Runners, NEW p, NEW M, Fits(Content(result[r]), p, M)
  PROVE  Fits(RowOf(r), p, M)
<1>1. /\ RowOf(r).status = Content(result[r]).status
      /\ RowOf(r).path = Content(result[r]).path
      /\ RowOf(r).value = Content(result[r]).value
      /\ RowOf(r).value_text = Content(result[r]).value_text
  BY DEF RowOf, Content
<1> QED BY <1>1 DEF Fits, Alarms, Keeps, Agrees, HasFingerprint

\* With the rows as they are, those in between are too.
LEMMA SameRows ==
  ASSUME obs' = obs, check' = check, StoredFit
  PROVE  StoredFit' /\ \A p \in obs : After(p)' = After(p)
<1>1. \A p, o : Meanwhile(p, o)' = Meanwhile(p, o)
  BY DEF Meanwhile
<1>2. \A o, p \in obs : p.until < o.at => Fits(o, p, Meanwhile(p, o))'
  <2> SUFFICES ASSUME NEW o \in obs, NEW p \in obs, p.until < o.at
               PROVE  Fits(o, p, Meanwhile(p, o))'
    OBVIOUS
  <2>1. Fits(o, p, Meanwhile(p, o))
    BY DEF StoredFit
  <2> QED BY <1>1, <2>1 DEF Fits, Alarms, Keeps, Agrees, Close, UsableBaseline,
                            HasFingerprint, Broken
<1> QED BY <1>2 DEF StoredFit, After

\* A result is stored: it fits what was there before its run, and comes too
\* late to be compared with by anything under way.
LEMMA PersistStep ==
  ASSUME History, NEW r \in Runners, Persist(r)
  PROVE  StoredFit' /\ PendingFit' /\ ShapesKnown'
<1> DEFINE new == RowOf(r)
<1>1. /\ result[r] # NoResult
      /\ obs' = obs \cup {new}
      /\ shapes' = shapes \cup ({new.value_text} \ {NULL})
      /\ at' = [at EXCEPT ![r] = 0]
      /\ result' = [result EXCEPT ![r] = NoResult]
      /\ check' = check
  BY DEF Persist
<1>2. /\ started \in Nat /\ at \in [Runners -> 0..started]
      /\ \A o \in obs : /\ o.at \in 1..started /\ o.until \in o.at..started
                        /\ o.at # at[r]
      /\ result \in [Runners -> OneOutcome \cup {NoResult}]
  BY BaselinesAssumption DEF History, TypeInv, TypeOK, Stamps, ResultTypes
<1>3. new.at = at[r] /\ new.until = started /\ at[r] \in 1..started
  BY <1>1, RowTypes DEF History
<1>4. new.value_text = Content(result[r]).value_text
  BY DEF RowOf, Content
<1> HIDE DEF new
<1>5. new \notin obs
  BY <1>2, <1>3
<1>6. ASSUME NEW o \in obs', NEW p \in obs', p.until < o.at
      PROVE  Fits(o, p, Meanwhile(p, o))'
  <2>1. p \in obs
    BY <1>1, <1>2, <1>3, <1>6
  <2>2. Meanwhile(p, o) \subseteq Meanwhile(p, o)'
    BY <1>1 DEF Meanwhile
  <2>3. CASE o \in obs
    <3>1. Fits(o, p, Meanwhile(p, o))
      BY <1>6, <2>1, <2>3 DEF History, StoredFit
    <3>2. Fits(o, p, Meanwhile(p, o)')
      BY <2>2, <3>1, MoreBetween
    <3> QED BY <1>1, <3>2 DEF Fits, Alarms, Keeps, Agrees, Close, UsableBaseline,
                              HasFingerprint, Broken
  <2>4. CASE o = new
    <3>1. Fits(Content(result[r]), p, After(p))
      BY <1>1, <1>3, <1>6, <2>1, <2>4 DEF History, PendingFit
    <3>2. Fits(o, p, After(p))
      BY <2>4, <3>1, RowFits DEF new
    <3>3. Meanwhile(p, o)' = After(p)
      BY <1>1, <1>2, <1>3, <1>5, <2>4 DEF Meanwhile, After
    <3> QED BY <1>1, <3>2, <3>3 DEF Fits, Alarms, Keeps, Agrees, Close,
                                    UsableBaseline, HasFingerprint, Broken
  <2> QED BY <1>1, <2>3, <2>4
<1>7. ASSUME NEW q \in Runners, NEW p \in obs', result'[q] # NoResult, p.until < at'[q]
      PROVE  Fits(Content(result[q]), p, After(p))' /\ result'[q] = result[q]
  <2>1. q # r /\ result'[q] = result[q] /\ at'[q] = at[q]
    BY <1>1, <1>2, <1>7
  <2>2. p \in obs
    BY <1>1, <1>2, <1>3, <1>7, <2>1
  <2>3. Fits(Content(result[q]), p, After(p))
    BY <1>7, <2>1, <2>2 DEF History, PendingFit
  <2>4. After(p) \subseteq After(p)'
    BY <1>1 DEF After
  <2>5. Fits(Content(result[q]), p, After(p)')
    BY <2>3, <2>4, MoreBetween
  <2>6. Content(result[q])' = Content(result[q])
    BY <2>1 DEF Content
  <2> QED BY <1>1, <2>1, <2>5, <2>6 DEF Fits, Alarms, Keeps, Agrees, Close,
                              UsableBaseline, HasFingerprint, Broken
<1>8. ShapesKnown'
  <2>1. \A o \in obs' : HasFingerprint(o) => o.value_text \in shapes'
    BY <1>1 DEF History, ShapesKnown, HasFingerprint
  <2>2. ASSUME NEW q \in Runners, result'[q] # NoResult, Passed(result[q])'
        PROVE  Content(result[q])'.value_text \in shapes'
    <3>1. result'[q] = result[q] /\ Passed(result[q])
      BY <1>1, <1>2, <2>2 DEF Passed
    <3>2. Content(result[q]).value_text \in shapes
      BY <2>2, <3>1 DEF History, ShapesKnown
    <3>3. Content(result[q])' = Content(result[q])
      BY <3>1 DEF Content
    <3> QED BY <1>1, <3>2, <3>3
  <2> QED BY <2>1, <2>2 DEF ShapesKnown, HasFingerprint
<1> QED BY <1>6, <1>7, <1>8 DEF StoredFit, PendingFit

\* A prune that takes a row takes every older one with it.
LEMMA PruneStep ==
  ASSUME History, Prune
  PROVE  StoredFit' /\ PendingFit' /\ ShapesKnown'
<1>1. PICK cutoff \in {o.at : o \in obs} : obs' = {o \in obs : o.at > cutoff}
  BY DEF Prune
<1>2. UNCHANGED <<check, started, at, result, shapes>>
  BY DEF Prune
<1>3. cutoff \in Int /\ \A o \in obs : o.at \in Int
  BY BaselinesAssumption DEF History, TypeInv, TypeOK
<1>4. obs' \subseteq obs /\ \A p \in obs' : \A q \in obs : p.at < q.at => q \in obs'
  BY <1>1, <1>3
<1>5. \A p \in obs' : \A o : Meanwhile(p, o)' = Meanwhile(p, o)
  BY <1>4 DEF Meanwhile
<1>6. \A p \in obs' : After(p)' = After(p)
  BY <1>4 DEF After
<1>7. ASSUME NEW o \in obs', NEW p \in obs', p.until < o.at
      PROVE  Fits(o, p, Meanwhile(p, o))'
  <2>1. Fits(o, p, Meanwhile(p, o))
    BY <1>4, <1>7 DEF History, StoredFit
  <2> QED BY <1>2, <1>5, <2>1 DEF Fits, Alarms, Keeps, Agrees, Close, UsableBaseline,
                                  HasFingerprint, Broken
<1>8. ASSUME NEW q \in Runners, NEW p \in obs', result[q] # NoResult, p.until < at[q]
      PROVE  Fits(Content(result[q]), p, After(p))'
  <2>1. Fits(Content(result[q]), p, After(p))
    BY <1>4, <1>8 DEF History, PendingFit
  <2>2. Content(result[q])' = Content(result[q])
    BY <1>2 DEF Content
  <2> QED BY <1>2, <1>6, <2>1, <2>2 DEF Fits, Alarms, Keeps, Agrees, Close,
                                   UsableBaseline, HasFingerprint, Broken
<1>9. ShapesKnown'
  BY <1>2, <1>4 DEF History, ShapesKnown, HasFingerprint, Passed, Content
<1> QED BY <1>2, <1>7, <1>8, <1>9 DEF StoredFit, PendingFit

\* Steps that leave the rows alone, and results but for those they drop.
LEMMA QuietStep ==
  ASSUME History, obs' = obs, check' = check, shapes' = shapes,
         \A r \in Runners : result'[r] # NoResult =>
                              result'[r] = result[r] /\ at'[r] = at[r]
  PROVE  StoredFit' /\ PendingFit' /\ ShapesKnown'
<1>1. StoredFit' /\ \A p \in obs : After(p)' = After(p)
  BY SameRows DEF History
<1>2. ASSUME NEW q \in Runners, NEW p \in obs', result'[q] # NoResult, p.until < at'[q]
      PROVE  Fits(Content(result[q]), p, After(p))'
  <2>1. Fits(Content(result[q]), p, After(p))
    BY <1>2 DEF History, PendingFit
  <2>2. Content(result[q])' = Content(result[q])
    BY <1>2 DEF Content
  <2> QED BY <1>1, <1>2, <2>1, <2>2 DEF Fits, Alarms, Keeps, Agrees, Close,
                                   UsableBaseline, HasFingerprint, Broken
<1>3. ShapesKnown'
  BY DEF History, ShapesKnown, HasFingerprint, Passed, Content
<1> QED BY <1>1, <1>2, <1>3 DEF PendingFit

\* The next state fits its history, however runs overlap.
LEMMA HistoryStep ==
  ASSUME History, [Next]_vars
  PROVE  History'
<1>0. TypeInv /\ TypeInv'
  BY TypesHold DEF History
<1>1. /\ started \in Nat /\ at \in [Runners -> 0..started]
      /\ result \in [Runners -> OneOutcome \cup {NoResult}]
      /\ \A r \in Runners : result[r] # NoResult => at[r] # 0
  BY <1>0, BaselinesAssumption DEF TypeInv, TypeOK, ResultTypes
<1>4. ASSUME NEW r \in Runners, Start(r) PROVE History'
  <2>1. /\ at[r] = 0 /\ at' = [at EXCEPT ![r] = started + 1]
        /\ UNCHANGED <<check, obs, result, shapes>>
    BY <1>4 DEF Start
  <2>2. \A q \in Runners : result[q] # NoResult => at'[q] = at[q]
    BY <1>1, <2>1
  <2> QED BY <1>0, <2>1, <2>2, QuietStep DEF History
<1>5. ASSUME NEW r \in Runners, Evaluate(r) PROVE History'
  <2>1. /\ UNCHANGED <<check, obs, at, shapes>>
        /\ \E y : result' = [result EXCEPT ![r] = y]
    BY <1>5 DEF Evaluate
  <2>2. /\ \A p \in obs : Fits(Content(result'[r]), p, After(p))
        /\ Passed(result'[r]) => Content(result'[r]).value_text \in shapes
    BY <1>0, <1>5, EvaluatedRow DEF History
  <2>3. StoredFit' /\ \A p \in obs : After(p)' = After(p)
    BY <2>1, SameRows DEF History
  <2>4. ASSUME NEW q \in Runners, NEW p \in obs', result'[q] # NoResult, p.until < at'[q]
        PROVE  Fits(Content(result[q]), p, After(p))'
    <3>1. Fits(Content(result'[q]), p, After(p))
      <4>1. CASE q = r
        BY <2>1, <2>2, <4>1
      <4>2. CASE q # r
        BY <1>1, <2>1, <2>4, <4>2 DEF History, PendingFit
      <4> QED BY <4>1, <4>2
    <3>2. Content(result[q])' = Content(result'[q])
      BY DEF Content
    <3> QED BY <2>1, <2>3, <3>1, <3>2 DEF Fits, Alarms, Keeps, Agrees, Close,
                                   UsableBaseline, HasFingerprint, Broken
  <2>5. ASSUME NEW q \in Runners, result'[q] # NoResult, Passed(result[q])'
        PROVE  Content(result[q])'.value_text \in shapes'
    <3>1. Passed(result'[q])
      BY <2>1, <2>5 DEF Passed
    <3>2. Content(result'[q]).value_text \in shapes
      <4>1. CASE q = r
        BY <2>2, <3>1, <4>1
      <4>2. CASE q # r
        BY <1>1, <2>1, <2>5, <3>1, <4>2 DEF History, ShapesKnown
      <4> QED BY <4>1, <4>2
    <3> QED BY <2>1, <3>2 DEF Content
  <2>6. ShapesKnown'
    BY <2>1, <2>5 DEF History, ShapesKnown, HasFingerprint
  <2> QED BY <1>0, <2>3, <2>4, <2>6 DEF History, PendingFit
<1>6. ASSUME NEW r \in Runners, Persist(r) PROVE History'
  BY <1>0, <1>6, PersistStep DEF History
<1>7. ASSUME NEW r \in Runners, Lose(r) PROVE History'
  <2>1. /\ at' = [at EXCEPT ![r] = 0]
        /\ result' = [result EXCEPT ![r] = NoResult]
        /\ UNCHANGED <<check, obs, shapes>>
    BY <1>7 DEF Lose
  <2>2. \A q \in Runners : result'[q] # NoResult =>
                             result'[q] = result[q] /\ at'[q] = at[q]
    BY <1>1, <2>1
  <2> QED BY <1>0, <2>1, <2>2, QuietStep DEF History
<1>8. ASSUME Drift \/ UNCHANGED vars PROVE History'
  <2>1. UNCHANGED <<check, obs, at, result, shapes>>
    BY <1>8 DEF Drift, vars
  <2> QED BY <1>0, <2>1, QuietStep DEF History
<1>9. ASSUME Prune PROVE History'
  BY <1>0, <1>9, PruneStep DEF History
<1> QED BY <1>4, <1>5, <1>6, <1>7, <1>8, <1>9 DEF Next

\* Every stored row, and the one about to be stored, fits the rows that were
\* there before its run began, for any number of overlapping runs.
THEOREM HistoryFits == Spec => []History
<1>1. Init => History
  <2> SUFFICES ASSUME Init PROVE History
    OBVIOUS
  <2>1. TypeInv
    BY TypesHold
  <2>2. obs = {} /\ \A r \in Runners : result[r] = NoResult
    BY DEF Init
  <2> QED BY <2>1, <2>2 DEF History, StoredFit, PendingFit, ShapesKnown
<1>2. History /\ [Next]_vars => History'
  BY HistoryStep
<1> QED BY <1>1, <1>2, PTL DEF Spec

\* Between a fingerprint and the next run to begin after it was stored, a
\* change alarms, and nothing else does (UnchangedAlarmsOnce).
THEOREM ChangesAlarm == Spec => []UnchangedAlarmsOnce
<1>1. History => UnchangedAlarmsOnce
  BY DEF History, StoredFit, Fits, Alarms, UnchangedAlarmsOnce, NextAfter
<1> QED BY <1>1, HistoryFits, PTL

\* A shape no run has stored before never passes for an unchanged one
\* (NoChangeUnnoticed).
THEOREM NewShapesAlarm == Spec => NoChangeUnnoticed
<1>1. ASSUME History, [Next]_vars
      PROVE  [check.expect = "unchanged" =>
                \A o \in obs' \ obs :
                  o.path = "compared" /\ o.value_text \notin shapes => o.status # "OK"]_vars
  <2> SUFFICES ASSUME check.expect = "unchanged", NEW o \in obs' \ obs,
                      o.path = "compared", o.status = "OK"
               PROVE  o.value_text \in shapes
    OBVIOUS
  <2>1. PICK r \in Runners : Persist(r)
    BY <1>1 DEF Next, Start, Evaluate, Lose, Drift, Prune, vars
  <2>2. o = RowOf(r) /\ result[r] # NoResult
    BY <2>1 DEF Persist
  <2>3. Passed(result[r]) /\ o.value_text = Content(result[r]).value_text
    BY <2>2 DEF Passed, RowOf, Content
  <2> QED BY <1>1, <2>2, <2>3 DEF History, ShapesKnown
<1> QED BY <1>1, HistoryFits, PTL DEF Spec, NoChangeUnnoticed

\* Errors, days off, crashes, prunes and overlaps never displace a usable
\* baseline (BrokenRunsKeepBaseline).
THEOREM BaselinesSurvive == Spec => []BrokenRunsKeepBaseline
<1>1. History => BrokenRunsKeepBaseline
  BY DEF History, StoredFit, Fits, Keeps, BrokenRunsKeepBaseline
<1> QED BY <1>1, HistoryFits, PTL

\* A compared row's status is what its guards say about the clean row stored
\* before its run, if no other came meanwhile (VerdictMatchesHistory).
THEOREM VerdictsMatch == Spec => []VerdictMatchesHistory
<1>1. History => VerdictMatchesHistory
  BY DEF History, StoredFit, Fits, Agrees, VerdictMatchesHistory, NextAfter
<1> QED BY <1>1, HistoryFits, PTL
=============================================================================
