---------------------------- MODULE EngineProofs ----------------------------
(***************************************************************************)
(* TLAPS proofs about Engine, for any number of checks and sources, any    *)
(* assignment of checks to sources, and any fate of each check.            *)
(***************************************************************************)
EXTENDS Engine, TLAPS

-----------------------------------------------------------------------------
(* Sequences of results.                                                   *)

\* What a sequence of results is, spelled out.
LEMMA SeqFacts ==
  ASSUME NEW S, NEW q \in Seq(S)
  PROVE  /\ Len(q) \in Nat
         /\ DOMAIN q = 1..Len(q)
         /\ \A i \in DOMAIN q : q[i] \in S
  OBVIOUS

\* Appending keeps what is there and adds one at the end.
LEMMA AppendFacts ==
  ASSUME NEW S, NEW q \in Seq(S), NEW e \in S
  PROVE  /\ Append(q, e) \in Seq(S)
         /\ Len(Append(q, e)) = Len(q) + 1
         /\ DOMAIN Append(q, e) = DOMAIN q \cup {Len(q) + 1}
         /\ \A i \in DOMAIN q : Append(q, e)[i] = q[i]
         /\ Append(q, e)[Len(q) + 1] = e
  OBVIOUS

\* Concatenating: positions of the one, then of the other.
LEMMA ConcatFacts ==
  ASSUME NEW S, NEW q \in Seq(S), NEW r \in Seq(S)
  PROVE  /\ q \o r \in Seq(S)
         /\ Len(q \o r) = Len(q) + Len(r)
         /\ \A i \in DOMAIN q : (q \o r)[i] = q[i]
         /\ \A i \in DOMAIN (q \o r) \ DOMAIN q :
              i - Len(q) \in DOMAIN r /\ (q \o r)[i] = r[i - Len(q)]
         /\ \A i \in DOMAIN r : Len(q) + i \in DOMAIN (q \o r)
                                /\ (q \o r)[Len(q) + i] = r[i]
  OBVIOUS

-----------------------------------------------------------------------------
(* The inductive invariant.                                                *)

\* Each thread has a sequence of results.
Shape ==
  /\ out \in [BySource -> Seq(OneResult)]
  /\ delivered \in [BySource -> Seq(OneResult)]

\* A thread's results are in config order, with no check left out before them.
InConfigOrder(s) ==
  /\ \A i, j \in DOMAIN out[s] : i < j => out[s][i].check < out[s][j].check
  /\ \A k \in Done(s), j \in ChecksOf(s) \ Done(s) : k < j

\* on_result has had every result of the thread but the one it is called with,
\* or on which it raised.
Deliveries(s) ==
  /\ \A i \in DOMAIN delivered[s] :
       i \in DOMAIN out[s] /\ delivered[s][i] = out[s][i]
  /\ s \in calling => thread[s] = "running" /\ Len(out[s]) = Len(delivered[s]) + 1
  /\ thread[s] \in {"queued", "running", "finished"} /\ s \notin calling =>
       delivered[s] = out[s]
  /\ thread[s] = "finished" => Done(s) = ChecksOf(s)

\* A connection is in an aborted transaction since its first failing query.
Abortions(s) ==
  s \in aborted <=>
    s \in Transactional \ failed /\ \E j \in Done(s) : fate[j] = "query"

\* The caller takes finished groups only, and the adapters are open until it
\* has left the pool, which it does when no thread is running.
CallerInv ==
  /\ \A s \in taken : thread[s] = "finished"
  /\ main = "returned" => taken = BySource
  /\ main \in {"returned", "raised"} => \A s \in BySource : ~Running(s)
  /\ main \in {"collecting", "draining"} => adapters = Referenced \ failed

ResultsOf(s) == {out[s][i] : i \in DOMAIN out[s]}

\* What the caller has collected: the groups taken, in order, and before any
\* group still to come.
Collection ==
  /\ {collected[i] : i \in DOMAIN collected} = UNION {ResultsOf(s) : s \in taken}
  /\ \A i, j \in DOMAIN collected :
       i < j => Precedes(collected[i].check, collected[j].check)
  /\ \A s \in taken, t \in BySource \ taken : Before(s, t)

\* An earlier check of the same source failed inside a database that then
\* refuses the connection's later queries.
AbortedBefore(k) ==
  /\ SourceOf[k] \in Transactional
  /\ \E j \in ChecksOf(SourceOf[k]) : j < k /\ fate[j] = "query"

\* Exactly which results are ERRORs.
ErrorReasons ==
  \A s \in BySource : \A i \in DOMAIN out[s] :
    LET k == out[s][i].check
        own == s \in failed \/ fate[k] \in {"compile", "query"}
    IN out[s][i].status = "ERROR"
         <=> /\ fate[k] # "paused"
             /\ own \/ (fate[k] = "answers" /\ AbortedBefore(k))
             /\ fate[k] = "off" => s \in failed

ThreadInv(s) == InConfigOrder(s) /\ Deliveries(s) /\ Abortions(s)

IInv ==
  /\ TypeOK
  /\ Shape
  /\ \A s \in BySource : ThreadInv(s)
  /\ CallerInv
  /\ Collection
  /\ ErrorReasons

\* Before the first step there is nothing to be out of order.
LEMMA InitHolds == Init => IInv
<1> SUFFICES ASSUME Init PROVE IInv
  OBVIOUS
<1>1. TypeOK
  BY EngineAssumption DEF Init, TypeOK, Done
<1>2. Shape
  BY DEF Init, Shape
<1>3. \A s \in BySource : ThreadInv(s)
  BY DEF Init, ThreadInv, InConfigOrder, Deliveries, Abortions, Done
<1>4. CallerInv
  BY DEF Init, CallerInv
<1>5. Collection
  BY DEF Init, Collection
<1>6. ErrorReasons
  BY DEF Init, ErrorReasons
<1> QED BY <1>1, <1>2, <1>3, <1>4, <1>5, <1>6 DEF IInv

-----------------------------------------------------------------------------
(* A thread's steps.                                                       *)

\* A result of check k is the latest of source s, and k was the next one due.
Adds(s, k, status) ==
  /\ out' = [out EXCEPT ![s] = Append(out[s], [check |-> k, status |-> status])]
  /\ aborted' = IF Queries(k) /\ fate[k] = "query" /\ s \in Transactional
                THEN aborted \cup {s} ELSE aborted
  /\ status \in Status
  /\ [check |-> k, status |-> status] \in OneResult
  /\ Done(s)' = Done(s) \cup {k}
  /\ \A j \in Done(s) : j < k
  /\ \A j \in ChecksOf(s) \ (Done(s) \cup {k}) : k < j

\* What one evaluation adds: a result of the next check of the source, the
\* first that has none.
LEMMA EvaluateFacts ==
  ASSUME IInv, NEW s \in BySource, Evaluate(s)
  PROVE  \E k \in ChecksOf(s) \ Done(s) : \E status \in StatusesOf(k) :
           Adds(s, k, status)
<1> DEFINE Appends(k, status) ==
      /\ out' = [out EXCEPT ![s] = Append(out[s], [check |-> k, status |-> status])]
      /\ aborted' = IF Queries(k) /\ fate[k] = "query" /\ s \in Transactional
                    THEN aborted \cup {s} ELSE aborted
<1>0. PICK k \in Upcoming(s) : \E status \in StatusesOf(k) : Appends(k, status)
  BY DEF Evaluate
<1>1. PICK status \in StatusesOf(k) : Appends(k, status)
  BY <1>0
<1>2. /\ k \in ChecksOf(s) \ Done(s)
      /\ \A j \in ChecksOf(s) \ Done(s) : k <= j
  BY DEF Upcoming
<1>3. ChecksOf(s) \subseteq Int
  BY DEF ChecksOf, Checks
<1>4. \A j \in Done(s) : j < k
  BY <1>2 DEF IInv, ThreadInv, InConfigOrder
<1>5. \A j \in ChecksOf(s) \ (Done(s) \cup {k}) : k < j
  BY <1>2, <1>3
<1>6. status \in Status
  BY EngineAssumption DEF StatusesOf, Status
<1>7. [check |-> k, status |-> status] \in OneResult
  BY <1>2, <1>6 DEF OneResult, ChecksOf
<1>8. Done(s)' = Done(s) \cup {k}
  <2> DEFINE e == [check |-> k, status |-> status]
  <2>1. out[s] \in Seq(OneResult) /\ out'[s] = Append(out[s], e)
    BY <1>1 DEF IInv, Shape
  <2>2. /\ DOMAIN out'[s] = DOMAIN out[s] \cup {Len(out[s]) + 1}
        /\ \A i \in DOMAIN out[s] : out'[s][i] = out[s][i]
        /\ out'[s][Len(out[s]) + 1] = e
    BY <1>7, <2>1, AppendFacts
  <2> HIDE DEF e
  <2>3. \A x : x \in Done(s)' <=> x \in Done(s) \cup {e.check}
    BY <2>2 DEF Done
  <2> QED BY <2>3 DEF e
<1> QED BY <1>1, <1>2, <1>4, <1>5, <1>6, <1>7, <1>8 DEF Adds

\* Evaluating a check keeps every part of the invariant; the other threads
\* and the caller are not concerned.
LEMMA EvaluateStep ==
  ASSUME IInv, NEW s \in BySource, Evaluate(s)
  PROVE  IInv'
<1>1. PICK k \in ChecksOf(s) \ Done(s) : \E status \in StatusesOf(k) : Adds(s, k, status)
  BY EvaluateFacts
<1>2. PICK status \in StatusesOf(k) : Adds(s, k, status)
  BY <1>1
<1> USE DEF Adds
<1> DEFINE e == [check |-> k, status |-> status]
<1>3. /\ thread[s] = "running" /\ s \notin calling
      /\ calling' = calling \cup {s}
      /\ UNCHANGED <<fate, failed, adapters, thread, delivered, main, taken, collected>>
  BY DEF Evaluate
<1>4. /\ out[s] \in Seq(OneResult) /\ out'[s] = Append(out[s], e)
      /\ \A t \in BySource \ {s} : out'[t] = out[t]
      /\ out' \in [BySource -> Seq(OneResult)]
  BY <1>2, AppendFacts DEF IInv, Shape
<1>5. /\ Len(out[s]) \in Nat
      /\ DOMAIN out[s] = 1..Len(out[s])
      /\ Len(out'[s]) = Len(out[s]) + 1
      /\ DOMAIN out'[s] = DOMAIN out[s] \cup {Len(out[s]) + 1}
      /\ \A i \in DOMAIN out[s] : out'[s][i] = out[s][i]
      /\ out'[s][Len(out[s]) + 1] = e
  BY <1>2, <1>4, AppendFacts, SeqFacts
<1> HIDE DEF e
<1>6. e.check = k /\ e.status = status
  BY DEF e
<1>7. \A t \in BySource \ {s} : Done(t)' = Done(t)
  BY <1>4 DEF Done
<1>8. s \notin taken
  BY <1>3 DEF IInv, CallerInv
<1>9. TypeOK'
  <2>1. aborted' \subseteq Transactional
    BY <1>2 DEF IInv, TypeOK
  <2>2. \A t \in BySource : Done(t)' \subseteq ChecksOf(t)
    BY <1>2, <1>7 DEF IInv, TypeOK
  <2>3. Referenced' = Referenced
    BY <1>3 DEF Referenced
  <2> QED BY <1>3, <1>4, <2>1, <2>2, <2>3 DEF IInv, TypeOK, Shape
<1>10. Shape'
  BY <1>3, <1>4 DEF IInv, Shape
<1>11. \A t \in BySource \ {s} : ThreadInv(t)'
  <2>1. \A t \in BySource \ {s} : t \in aborted' <=> t \in aborted
    BY <1>2
  <2> QED BY <1>3, <1>4, <1>7, <2>1
          DEF IInv, ThreadInv, InConfigOrder, Deliveries, Abortions
<1>12. ThreadInv(s)'
  <2>1. InConfigOrder(s)'
    <3>1. \A i \in DOMAIN out[s] : out[s][i].check \in Done(s)
      BY DEF Done
    <3>2. \A i, j \in DOMAIN out'[s] : i < j => out'[s][i].check < out'[s][j].check
      BY <1>2, <1>5, <1>6, <3>1 DEF IInv, ThreadInv, InConfigOrder
    <3>3. \A m \in Done(s)', j \in ChecksOf(s) \ Done(s)' : m < j
      BY <1>2 DEF IInv, ThreadInv, InConfigOrder
    <3> QED BY <3>2, <3>3 DEF InConfigOrder
  <2>2. Deliveries(s)'
    <3>1. delivered[s] = out[s]
      BY <1>3 DEF IInv, ThreadInv, Deliveries
    <3> QED BY <1>3, <1>5, <3>1 DEF Deliveries
  <2>3. Abortions(s)'
    <3>1. fate' = fate /\ failed' = failed
      BY <1>3
    <3>2. SourceOf[k] = s
      BY DEF ChecksOf
    <3>3. Queries(k) /\ fate[k] = "query" <=> fate[k] = "query" /\ s \notin failed
      BY <3>2 DEF Queries
    <3> QED BY <1>2, <3>1, <3>3 DEF IInv, ThreadInv, Abortions
  <2> QED BY <2>1, <2>2, <2>3 DEF ThreadInv
<1>13. CallerInv'
  <2>1. Referenced' = Referenced
    BY <1>3 DEF Referenced
  <2> QED BY <1>3, <2>1 DEF IInv, CallerInv, Running
<1>14. Collection'
  <2>1. \A t \in taken : ResultsOf(t)' = ResultsOf(t)
    BY <1>4, <1>8 DEF ResultsOf, IInv, TypeOK
  <2> QED BY <1>3, <2>1 DEF IInv, Collection
<1>15. ErrorReasons'
  <2> DEFINE Excused(t, m) ==
         /\ fate[m] # "paused"
         /\ \/ t \in failed \/ fate[m] \in {"compile", "query"}
            \/ fate[m] = "answers" /\ AbortedBefore(m)
         /\ fate[m] = "off" => t \in failed
  <2>1. \A t \in BySource : \A i \in DOMAIN out[t] :
          out[t][i].status = "ERROR" <=> Excused(t, out[t][i].check)
    BY DEF IInv, ErrorReasons
  <2>2. status = "ERROR" <=> Excused(s, k)
    <3>1. SourceOf[k] = s /\ k \in Checks
      BY DEF ChecksOf
    <3>2. Done(s) = {j \in ChecksOf(s) : j < k}
      <4>1. Done(s) \subseteq ChecksOf(s)
        BY DEF IInv, TypeOK
      <4>2. \A j \in ChecksOf(s) : k < j => ~(j < k)
        BY DEF ChecksOf, Checks
      <4>3. ~(k < k)
        BY <3>1 DEF Checks
      <4> QED BY <1>2, <4>1, <4>2, <4>3
    <3>3. AbortedBefore(k) <=>
            s \in Transactional /\ \E j \in Done(s) : fate[j] = "query"
      BY <3>1, <3>2 DEF AbortedBefore
    <3>4. s \notin failed => (s \in aborted <=> AbortedBefore(k))
      BY <3>3 DEF IInv, ThreadInv, Abortions
    <3>5. fate[k] \in Fate
      BY <3>1 DEF IInv, TypeOK
    <3> QED BY <3>1, <3>4, <3>5, EngineAssumption DEF StatusesOf, Fate
  <2>3. \A t \in BySource : \A i \in DOMAIN out'[t] :
          out'[t][i].status = "ERROR" <=> Excused(t, out'[t][i].check)
    <3>1. \A i \in DOMAIN out'[s] :
            out'[s][i].status = "ERROR" <=> Excused(s, out'[s][i].check)
      <4> HIDE DEF Excused
      <4> QED BY <1>5, <1>6, <2>1, <2>2
    <3>2. \A t \in BySource \ {s} : \A i \in DOMAIN out'[t] :
            out'[t][i].status = "ERROR" <=> Excused(t, out'[t][i].check)
      <4> HIDE DEF Excused
      <4> QED BY <1>4, <2>1
    <3> QED BY <3>1, <3>2
  <2>4. fate' = fate /\ failed' = failed
    BY <1>3
  <2>5. \A m : AbortedBefore(m)' <=> AbortedBefore(m)
    BY <2>4 DEF AbortedBefore
  <2> QED BY <2>3, <2>4, <2>5 DEF ErrorReasons
<1> QED BY <1>9, <1>10, <1>11, <1>12, <1>13, <1>14, <1>15 DEF IInv

\* What depends on the results, the fates and the caller's record alone.
LEMMA SameResults ==
  ASSUME IInv, UNCHANGED <<fate, failed, out, aborted, taken, collected>>
  PROVE  /\ \A s \in BySource : InConfigOrder(s)' /\ Abortions(s)'
         /\ Collection'
         /\ ErrorReasons'
         /\ Referenced' = Referenced
         /\ \A s \in BySource : Done(s)' = Done(s)
<1>1. \A s : Done(s)' = Done(s) /\ ResultsOf(s)' = ResultsOf(s)
  BY DEF Done, ResultsOf
<1>2. \A s \in BySource : InConfigOrder(s)' /\ Abortions(s)'
  BY <1>1 DEF IInv, ThreadInv, InConfigOrder, Abortions
<1>3. Collection'
  BY <1>1 DEF IInv, Collection
<1>4. ErrorReasons'
  BY DEF IInv, ErrorReasons, AbortedBefore
<1>5. Referenced' = Referenced
  BY DEF Referenced
<1> QED BY <1>1, <1>2, <1>3, <1>4, <1>5

\* Picking a source up, delivering a result and ending.
LEMMA ThreadStep ==
  ASSUME IInv, NEW s \in BySource,
         Take(s) \/ OnResult(s) \/ OnResultRaises(s) \/ FinishSource(s)
  PROVE  IInv'
<1>1. UNCHANGED <<fate, failed, adapters, out, aborted, main, taken, collected>>
  BY DEF Take, OnResult, OnResultRaises, FinishSource
<1>2. /\ \A t \in BySource : InConfigOrder(t)' /\ Abortions(t)'
      /\ Collection' /\ ErrorReasons'
      /\ Referenced' = Referenced
      /\ \A t \in BySource : Done(t)' = Done(t)
  BY <1>1, SameResults
<1>3. /\ out[s] \in Seq(OneResult) /\ delivered[s] \in Seq(OneResult)
      /\ Len(out[s]) \in Nat /\ DOMAIN out[s] = 1..Len(out[s])
      /\ Len(delivered[s]) \in Nat /\ DOMAIN delivered[s] = 1..Len(delivered[s])
  BY SeqFacts DEF IInv, Shape
<1>4. CASE Take(s)
  <2>1. s \notin calling
    BY <1>4 DEF Take, IInv, ThreadInv, Deliveries
  <2>2. \A t \in BySource : Deliveries(t)'
    BY <1>1, <1>2, <1>4, <2>1 DEF Take, IInv, ThreadInv, Deliveries, TypeOK
  <2>3. TypeOK' /\ Shape'
    BY <1>1, <1>2, <1>4 DEF Take, IInv, TypeOK, Shape
  <2>4. CallerInv'
    BY <1>1, <1>2, <1>4 DEF Take, IInv, CallerInv, Running, TypeOK
  <2> QED BY <1>2, <2>2, <2>3, <2>4 DEF IInv, ThreadInv
<1>5. CASE OnResult(s)
  <2>1. /\ delivered' = [delivered EXCEPT ![s] = Append(delivered[s], out[s][Len(out[s])])]
        /\ calling' = calling \ {s} /\ thread' = thread
        /\ thread[s] = "running" /\ Len(out[s]) = Len(delivered[s]) + 1
        /\ \A i \in DOMAIN delivered[s] :
             i \in DOMAIN out[s] /\ delivered[s][i] = out[s][i]
    BY <1>5 DEF OnResult, IInv, ThreadInv, Deliveries
  <2>2. Len(out[s]) \in DOMAIN out[s] /\ out[s][Len(out[s])] \in OneResult
    BY <1>3, <2>1
  <2>3. /\ delivered'[s] = Append(delivered[s], out[s][Len(out[s])])
        /\ \A t \in BySource \ {s} : delivered'[t] = delivered[t]
        /\ delivered' \in [BySource -> Seq(OneResult)]
    BY <1>3, <2>1, <2>2, AppendFacts DEF IInv, Shape
  <2>4. delivered'[s] = out[s]
    <3>1. /\ delivered'[s] \in Seq(OneResult)
          /\ Len(delivered'[s]) = Len(out[s])
          /\ \A i \in 1..Len(out[s]) : delivered'[s][i] = out[s][i]
      BY <1>3, <2>1, <2>2, <2>3, AppendFacts
    <3> QED BY <1>3, <3>1
  <2>5. Deliveries(s)'
    BY <1>1, <2>1, <2>4 DEF Deliveries
  <2>6. \A t \in BySource \ {s} : Deliveries(t)'
    BY <1>1, <1>2, <2>1, <2>3 DEF IInv, ThreadInv, Deliveries
  <2>7. TypeOK' /\ Shape'
    BY <1>1, <1>2, <2>1, <2>3 DEF IInv, TypeOK, Shape
  <2>8. CallerInv'
    BY <1>1, <1>2, <2>1 DEF IInv, CallerInv, Running
  <2> QED BY <1>2, <2>5, <2>6, <2>7, <2>8 DEF IInv, ThreadInv
<1>6. CASE OnResultRaises(s)
  <2>1. /\ calling' = calling \ {s} /\ delivered' = delivered
        /\ thread' = [thread EXCEPT ![s] = "raised"]
        /\ thread[s] = "running"
    BY <1>6 DEF OnResultRaises, IInv, ThreadInv, Deliveries
  <2>2. \A t \in BySource : Deliveries(t)'
    BY <1>1, <1>2, <2>1 DEF IInv, ThreadInv, Deliveries, TypeOK
  <2>3. TypeOK' /\ Shape'
    BY <1>1, <1>2, <2>1 DEF IInv, TypeOK, Shape
  <2>4. CallerInv'
    BY <1>1, <1>2, <2>1 DEF IInv, CallerInv, Running, TypeOK
  <2> QED BY <1>2, <2>2, <2>3, <2>4 DEF IInv, ThreadInv
<1>7. CASE FinishSource(s)
  <2>1. /\ calling' = calling /\ delivered' = delivered
        /\ thread' = [thread EXCEPT ![s] = "finished"]
        /\ thread[s] = "running" /\ s \notin calling /\ Done(s) = ChecksOf(s)
    BY <1>7 DEF FinishSource
  <2>2. \A t \in BySource : Deliveries(t)'
    BY <1>1, <1>2, <2>1 DEF IInv, ThreadInv, Deliveries, TypeOK
  <2>3. TypeOK' /\ Shape'
    BY <1>1, <1>2, <2>1 DEF IInv, TypeOK, Shape
  <2>4. CallerInv'
    BY <1>1, <1>2, <2>1 DEF IInv, CallerInv, Running, TypeOK
  <2> QED BY <1>2, <2>2, <2>3, <2>4 DEF IInv, ThreadInv
<1> QED BY <1>4, <1>5, <1>6, <1>7

-----------------------------------------------------------------------------
(* The caller's steps.                                                     *)

\* The group collected next comes after those collected and before the rest.
LEMMA CollectStep ==
  ASSUME IInv, NEW s \in BySource, Collect(s)
  PROVE  IInv'
<1>1. /\ s \notin taken /\ thread[s] = "finished" /\ main = "collecting"
      /\ \A t \in BySource \ (taken \cup {s}) : Before(s, t)
      /\ collected' = collected \o out[s]
      /\ taken' = taken \cup {s}
      /\ UNCHANGED <<fate, failed, adapters, thread, out, calling, aborted,
                     delivered, main>>
  BY DEF Collect, Turn
<1>2. \A t : Done(t)' = Done(t) /\ ResultsOf(t)' = ResultsOf(t)
  BY <1>1 DEF Done, ResultsOf
<1>3. Referenced' = Referenced
  BY <1>1 DEF Referenced
<1>4. /\ collected \in Seq(OneResult) /\ out[s] \in Seq(OneResult)
      /\ Len(collected) \in Nat /\ DOMAIN collected = 1..Len(collected)
      /\ Len(out[s]) \in Nat /\ DOMAIN out[s] = 1..Len(out[s])
  BY SeqFacts DEF IInv, TypeOK
<1>5. /\ collected' \in Seq(OneResult)
      /\ Len(collected') = Len(collected) + Len(out[s])
      /\ DOMAIN collected' = 1..Len(collected')
      /\ \A i \in DOMAIN collected : collected'[i] = collected[i]
      /\ \A i \in DOMAIN collected' \ DOMAIN collected :
           i - Len(collected) \in DOMAIN out[s]
           /\ collected'[i] = out[s][i - Len(collected)]
      /\ \A i \in DOMAIN out[s] :
           Len(collected) + i \in DOMAIN collected'
           /\ collected'[Len(collected) + i] = out[s][i]
  BY <1>1, <1>4, ConcatFacts, SeqFacts
<1>6. TypeOK' /\ Shape'
  BY <1>1, <1>2, <1>3, <1>5 DEF IInv, TypeOK, Shape
<1>7. \A t \in BySource : ThreadInv(t)'
  BY <1>1, <1>2 DEF IInv, ThreadInv, InConfigOrder, Deliveries, Abortions
<1>8. CallerInv'
  BY <1>1, <1>3 DEF IInv, CallerInv, Running
<1>9. ErrorReasons'
  BY <1>1 DEF IInv, ErrorReasons, AbortedBefore
<1>10. Collection'
  <2>1. {collected'[i] : i \in DOMAIN collected'}
          = {collected[i] : i \in DOMAIN collected} \cup ResultsOf(s)
    <3>1. DOMAIN collected \subseteq DOMAIN collected'
      BY <1>4, <1>5
    <3> QED BY <1>5, <3>1 DEF ResultsOf
  <2>2. {collected'[i] : i \in DOMAIN collected'}
          = UNION {ResultsOf(t)' : t \in taken'}
    BY <1>1, <1>2, <2>1 DEF IInv, Collection
  <2>3. \A i \in DOMAIN collected : \E t \in taken : SourceOf[collected[i].check] = t
    <3> SUFFICES ASSUME NEW i \in DOMAIN collected
                 PROVE  \E t \in taken : SourceOf[collected[i].check] = t
      OBVIOUS
    <3>1. PICK t \in taken : collected[i] \in ResultsOf(t)
      BY DEF IInv, Collection
    <3>2. collected[i].check \in ChecksOf(t)
      BY <3>1 DEF ResultsOf, Done, IInv, TypeOK
    <3> QED BY <3>2 DEF ChecksOf
  <2>4. \A j \in DOMAIN out[s] : SourceOf[out[s][j].check] = s
    BY DEF IInv, TypeOK, Done, ChecksOf
  <2>5. \A t \in taken : Before(t, s)
    BY <1>1 DEF IInv, Collection
  <2>6. ASSUME NEW i \in DOMAIN collected', NEW j \in DOMAIN collected', i < j
        PROVE  Precedes(collected'[i].check, collected'[j].check)
    <3>1. CASE j \in DOMAIN collected
      <4>1. i \in DOMAIN collected
        BY <1>4, <1>5, <2>6, <3>1
      <4> QED BY <1>5, <2>6, <3>1, <4>1 DEF IInv, Collection
    <3>2. CASE i \in DOMAIN collected /\ j \notin DOMAIN collected
      <4>1. /\ collected'[i] = collected[i]
            /\ \E m \in DOMAIN out[s] : collected'[j] = out[s][m]
        BY <1>5, <3>2
      <4>2. /\ SourceOf[collected'[j].check] = s
            /\ SourceOf[collected'[i].check] # s
            /\ Before(SourceOf[collected'[i].check], s)
        BY <1>1, <2>3, <2>4, <2>5, <3>2, <4>1
      <4> QED BY <4>2 DEF Precedes
    <3>3. CASE i \notin DOMAIN collected /\ j \notin DOMAIN collected
      <4> DEFINE m == i - Len(collected)
                 n == j - Len(collected)
      <4>1. /\ m \in DOMAIN out[s] /\ collected'[i] = out[s][m]
            /\ n \in DOMAIN out[s] /\ collected'[j] = out[s][n]
        BY <1>5, <3>3
      <4>2. m < n
        BY <1>4, <1>5, <2>6
      <4> HIDE DEF m, n
      <4>3. out[s][m].check < out[s][n].check
        BY <4>1, <4>2 DEF IInv, ThreadInv, InConfigOrder
      <4> QED BY <2>4, <4>1, <4>3 DEF Precedes
    <3>4. i < j /\ j \in DOMAIN collected => i \in DOMAIN collected
      BY <1>4, <1>5
    <3> QED BY <3>1, <3>2, <3>3, <3>4, <2>6
  <2>7. \A t \in taken', u \in BySource \ taken' : Before(t, u)
    BY <1>1 DEF IInv, Collection
  <2> QED BY <2>2, <2>6, <2>7 DEF Collection
<1> QED BY <1>6, <1>7, <1>8, <1>9, <1>10 DEF IInv

\* A wait that fails drops the groups nobody has picked up.
LEMMA DrainStep ==
  ASSUME IInv, Drain
  PROVE  IInv'
<1>1. /\ main = "collecting" /\ main' = "draining"
      /\ thread' = [s \in BySource |-> IF thread[s] = "queued" THEN "dropped"
                                       ELSE thread[s]]
      /\ UNCHANGED <<fate, failed, adapters, out, calling, aborted, delivered,
                     taken, collected>>
  BY DEF Drain
<1>2. /\ \A t \in BySource : InConfigOrder(t)' /\ Abortions(t)'
      /\ Collection' /\ ErrorReasons'
      /\ Referenced' = Referenced
      /\ \A t \in BySource : Done(t)' = Done(t)
  BY <1>1, SameResults
<1>3. \A t \in BySource : Deliveries(t)'
  BY <1>1, <1>2 DEF IInv, ThreadInv, Deliveries
<1>4. TypeOK' /\ Shape'
  BY <1>1, <1>2 DEF IInv, TypeOK, Shape
<1>5. CallerInv'
  BY <1>1, <1>2 DEF IInv, CallerInv, TypeOK
<1> QED BY <1>2, <1>3, <1>4, <1>5 DEF IInv, ThreadInv

\* Leaving the pool and closing the adapters.
LEMMA LeaveStep ==
  ASSUME IInv, LeavePool \/ CloseAdapters
  PROVE  IInv'
<1>1. UNCHANGED <<fate, failed, thread, out, calling, aborted, delivered, taken,
                  collected>>
  BY DEF LeavePool, CloseAdapters
<1>2. /\ \A t \in BySource : InConfigOrder(t)' /\ Abortions(t)'
      /\ Collection' /\ ErrorReasons'
      /\ Referenced' = Referenced
      /\ \A t \in BySource : Done(t)' = Done(t)
  BY <1>1, SameResults
<1>3. \A t \in BySource : Deliveries(t)'
  BY <1>1, <1>2 DEF IInv, ThreadInv, Deliveries
<1>4. CASE LeavePool
  <2>1. TypeOK' /\ Shape'
    BY <1>1, <1>2, <1>4 DEF LeavePool, IInv, TypeOK, Shape
  <2>2. CallerInv'
    BY <1>1, <1>2, <1>4 DEF LeavePool, IInv, CallerInv, Running
  <2> QED BY <1>2, <1>3, <2>1, <2>2 DEF IInv, ThreadInv
<1>5. CASE CloseAdapters
  <2>1. TypeOK' /\ Shape'
    BY <1>1, <1>2, <1>5 DEF CloseAdapters, IInv, TypeOK, Shape
  <2>2. CallerInv'
    BY <1>1, <1>2, <1>5 DEF CloseAdapters, IInv, CallerInv, Running
  <2> QED BY <1>2, <1>3, <2>1, <2>2 DEF IInv, ThreadInv
<1> QED BY <1>4, <1>5

\* Every step of the threads and the caller.
LEMMA EngineStep ==
  ASSUME IInv, [Next]_vars
  PROVE  IInv'
<1>1. ASSUME NEW s \in BySource, Thread(s) PROVE IInv'
  BY <1>1, EvaluateStep, ThreadStep DEF Thread
<1>2. CASE Caller
  BY <1>2, CollectStep, DrainStep, LeaveStep DEF Caller, CollectRaises
<1>3. CASE Interrupt
  BY <1>3, DrainStep DEF Interrupt
<1>4. CASE UNCHANGED vars
  <2>1. /\ \A t \in BySource : InConfigOrder(t)' /\ Abortions(t)'
        /\ Collection' /\ ErrorReasons'
        /\ Referenced' = Referenced
        /\ \A t \in BySource : Done(t)' = Done(t)
    BY <1>4, SameResults DEF vars
  <2>2. TypeOK' /\ Shape' /\ CallerInv'
    BY <1>4, <2>1 DEF vars, IInv, TypeOK, Shape, CallerInv, Running
  <2>3. \A t \in BySource : Deliveries(t)'
    BY <1>4, <2>1 DEF vars, IInv, ThreadInv, Deliveries
  <2> QED BY <2>1, <2>2, <2>3 DEF IInv, ThreadInv
<1> QED BY <1>1, <1>2, <1>3, <1>4 DEF Next

\* The inductive invariant holds in every state of every evaluation.
THEOREM EngineCorrect == Spec => []IInv
<1>1. IInv /\ [Next]_vars => IInv'
  BY EngineStep
<1> QED BY InitHolds, <1>1, PTL DEF Spec

-----------------------------------------------------------------------------
(* What follows for the properties.                                        *)

\* The types hold, and no thread looks for an adapter that is not there or
\* has been closed (EngineInv).
THEOREM AdaptersAreAtHand == Spec => []EngineInv
<1>1. IInv => EngineInv
  <2> SUFFICES ASSUME IInv, NEW s \in BySource, Running(s), NEW k \in ChecksOf(s),
                      fate[k] # "paused", s \notin failed
               PROVE  s \in adapters
    BY DEF EngineInv, AdapterAtHand, IInv
  <2>1. main \in {"collecting", "draining"}
    BY DEF IInv, CallerInv, TypeOK
  <2>2. s \in Referenced
    BY DEF Referenced, ChecksOf
  <2> QED BY <2>1, <2>2 DEF IInv, CallerInv
<1> QED BY <1>1, EngineCorrect, PTL

\* When the caller has left the pool normally, every group is complete and
\* has been delivered.
LEMMA ReturnedFacts ==
  ASSUME IInv, main = "returned", NEW s \in BySource
  PROVE  /\ s \in taken
         /\ Done(s) = ChecksOf(s)
         /\ delivered[s] = out[s]
<1>1. s \in taken /\ thread[s] = "finished"
  BY DEF IInv, CallerInv
<1> QED BY <1>1 DEF IInv, ThreadInv, Deliveries

\* A run that returns has one result per check, ordered by the first
\* appearance of the sources and then as configured, whichever source was
\* faster (ResultsInOrder).
THEOREM ResultsComeInOrder == Spec => []ResultsInOrder
<1>1. IInv => ResultsInOrder
  <2> SUFFICES ASSUME IInv, main = "returned"
               PROVE  /\ {collected[i].check : i \in DOMAIN collected} = Checks
                      /\ \A i, j \in DOMAIN collected :
                           i < j => Precedes(collected[i].check, collected[j].check)
    BY DEF ResultsInOrder
  <2>1. \A k \in Checks : k \in ChecksOf(SourceOf[k]) /\ SourceOf[k] \in BySource
    BY DEF ChecksOf, BySource
  <2>2. \A k \in Checks : \E s \in taken : \E i \in DOMAIN out[s] : out[s][i].check = k
    <3> SUFFICES ASSUME NEW k \in Checks
                 PROVE  \E s \in taken : \E i \in DOMAIN out[s] : out[s][i].check = k
      OBVIOUS
    <3>1. k \in Done(SourceOf[k]) /\ SourceOf[k] \in taken
      BY <2>1, ReturnedFacts
    <3> QED BY <3>1 DEF Done
  <2>3. Checks \subseteq {collected[i].check : i \in DOMAIN collected}
    <3> SUFFICES ASSUME NEW k \in Checks
                 PROVE  \E i \in DOMAIN collected : collected[i].check = k
      OBVIOUS
    <3>1. PICK s \in taken : \E i \in DOMAIN out[s] : out[s][i].check = k
      BY <2>2
    <3>2. PICK r \in ResultsOf(s) : r.check = k
      BY <3>1 DEF ResultsOf
    <3>3. r \in {collected[i] : i \in DOMAIN collected}
      BY <3>2 DEF IInv, Collection
    <3> QED BY <3>2, <3>3
  <2>4. \A i \in DOMAIN collected : collected[i].check \in Checks
    <3>1. collected \in Seq(OneResult)
      BY DEF IInv, TypeOK
    <3>2. \A i \in DOMAIN collected : collected[i] \in OneResult
      BY <3>1, SeqFacts
    <3> QED BY <3>2 DEF OneResult
  <2> QED BY <2>3, <2>4 DEF IInv, Collection
<1> QED BY <1>1, EngineCorrect, PTL

\* on_result has had each result of a run that returned, and never one twice
\* (EachResultDeliveredOnce).
THEOREM ResultsAreDeliveredOnce == Spec => []EachResultDeliveredOnce
<1>1. IInv => EachResultDeliveredOnce
  <2> SUFFICES ASSUME IInv PROVE EachResultDeliveredOnce
    OBVIOUS
  <2>1. ASSUME NEW s \in BySource, NEW i \in DOMAIN delivered[s],
               NEW j \in DOMAIN delivered[s],
               delivered[s][i].check = delivered[s][j].check
        PROVE  i = j
    <3>1. /\ i \in DOMAIN out[s] /\ j \in DOMAIN out[s]
          /\ out[s][i].check = out[s][j].check
      BY <2>1 DEF IInv, ThreadInv, Deliveries
    <3>2. /\ i < j => out[s][i].check < out[s][j].check
          /\ j < i => out[s][j].check < out[s][i].check
      BY <3>1 DEF IInv, ThreadInv, InConfigOrder
    <3>3. out[s] \in Seq(OneResult)
      BY DEF IInv, TypeOK
    <3>4. /\ i \in Int /\ j \in Int
          /\ out[s][i] \in OneResult /\ out[s][j] \in OneResult
      BY <3>1, <3>3, SeqFacts
    <3>5. out[s][i].check \in Int /\ out[s][j].check \in Int
      BY <3>4 DEF OneResult, Checks
    <3> QED BY <3>1, <3>2, <3>4, <3>5
  <2>2. ASSUME main = "returned"
        PROVE  {collected[i] : i \in DOMAIN collected}
                 = UNION {{delivered[s][i] : i \in DOMAIN delivered[s]} : s \in BySource}
    <3>1. \A s \in BySource : {delivered[s][i] : i \in DOMAIN delivered[s]} = ResultsOf(s)
      BY <2>2, ReturnedFacts DEF ResultsOf
    <3>2. taken = BySource
      BY <2>2 DEF IInv, CallerInv
    <3>3. {collected[i] : i \in DOMAIN collected} = UNION {ResultsOf(s) : s \in BySource}
      BY <3>2 DEF IInv, Collection
    <3>4. {ResultsOf(s) : s \in BySource}
            = {{delivered[s][i] : i \in DOMAIN delivered[s]} : s \in BySource}
      BY <3>1
    <3> QED BY <3>3, <3>4
  <2> QED BY <2>1, <2>2 DEF EachResultDeliveredOnce
<1> QED BY <1>1, EngineCorrect, PTL

\* What cannot be evaluated is an ERROR, and an ERROR is the check's own or
\* follows one on its connection, never another source's (ErrorsAreLocal).
THEOREM ErrorsStayLocal == Spec => []ErrorsAreLocal
<1>1. ASSUME IInv PROVE ErrorsAreLocal
  <2> SUFFICES ASSUME NEW s \in BySource, NEW i \in DOMAIN out[s]
               PROVE  /\ FailsItself(out[s][i].check) => out[s][i].status = "ERROR"
                      /\ out[s][i].status = "ERROR" /\ ~FailsItself(out[s][i].check)
                           => /\ s \in Transactional
                              /\ \E j \in 1..i-1 : FailsItself(out[s][j].check)
    BY DEF ErrorsAreLocal
  <2> DEFINE k == out[s][i].check
  <2>1. /\ out[s] \in Seq(OneResult)
        /\ \A j \in DOMAIN out[s] : out[s][j].check \in ChecksOf(s)
    BY <1>1 DEF IInv, TypeOK, Done
  <2>2. /\ i \in Nat /\ DOMAIN out[s] = 1..Len(out[s])
        /\ \A j \in DOMAIN out[s] : out[s][j].check \in Int
    BY <2>1, SeqFacts DEF ChecksOf, Checks
  <2>3. k \in ChecksOf(s) /\ SourceOf[k] = s /\ k \in Done(s)
    BY <2>1 DEF ChecksOf, Done
  <2>4. fate[k] \in Fate
    BY <1>1, <2>3 DEF IInv, TypeOK, ChecksOf
  <2>5. out[s][i].status = "ERROR"
          <=> /\ fate[k] # "paused"
              /\ \/ s \in failed \/ fate[k] \in {"compile", "query"}
                 \/ fate[k] = "answers" /\ AbortedBefore(k)
              /\ fate[k] = "off" => s \in failed
    BY <1>1 DEF IInv, ErrorReasons
  <2>6. FailsItself(k) => out[s][i].status = "ERROR"
    BY <2>3, <2>4, <2>5 DEF FailsItself, Fate
  <2>7. ASSUME out[s][i].status = "ERROR", ~FailsItself(k)
        PROVE  s \in Transactional /\ \E j \in 1..i-1 : FailsItself(out[s][j].check)
    <3>1. AbortedBefore(k)
      BY <2>3, <2>5, <2>7 DEF FailsItself
    <3>2. PICK f \in ChecksOf(s) : f < k /\ fate[f] = "query"
      BY <2>3, <3>1 DEF AbortedBefore
    <3>3. f \in Done(s)
      BY <1>1, <2>2, <2>3, <3>2 DEF IInv, ThreadInv, InConfigOrder, ChecksOf, Checks
    <3>4. PICK j \in DOMAIN out[s] : out[s][j].check = f
      BY <3>3 DEF Done
    <3>5. j < i
      BY <1>1, <2>2, <3>2, <3>4 DEF IInv, ThreadInv, InConfigOrder
    <3>6. FailsItself(out[s][j].check)
      BY <3>2, <3>4 DEF FailsItself
    <3> QED BY <2>2, <2>3, <3>1, <3>5, <3>6 DEF AbortedBefore
  <2> QED BY <2>6, <2>7
<1> QED BY <1>1, EngineCorrect, PTL

-----------------------------------------------------------------------------
(* Refinement of Evaluation.                                               *)

AllResults == UNION {ResultsOf(s) : s \in BySource}
EvaluationPhase == IF main \in {"collecting", "draining"} THEN "evaluating" ELSE main

\* The refinement mapping by its parts.
LEMMA MappingParts ==
  /\ Abstract!EvaluationInit <=> AllResults = {} /\ EvaluationPhase = "evaluating"
  /\ Abstract!Deliver <=>
       /\ EvaluationPhase = "evaluating"
       /\ \E k \in Checks \ {r.check : r \in AllResults}, s \in Status :
            AllResults' = AllResults \cup {[check |-> k, status |-> s]}
       /\ EvaluationPhase' = EvaluationPhase
  /\ Abstract!Return <=>
       /\ EvaluationPhase = "evaluating"
       /\ {r.check : r \in AllResults} = Checks
       /\ EvaluationPhase' = "returned"
       /\ AllResults' = AllResults
  /\ Abstract!Raise <=>
       /\ EvaluationPhase = "evaluating"
       /\ EvaluationPhase' = "raised"
       /\ AllResults' = AllResults
  /\ Abstract!evaluation = <<AllResults, EvaluationPhase>>
  BY DEF Abstract!EvaluationInit, Abstract!Deliver, Abstract!Return, Abstract!Raise,
         Abstract!evaluation, AllResults, ResultsOf, EvaluationPhase,
         Abstract!Status, Status

\* Every step of the threads and the caller is a step of the evaluation, or
\* changes nothing it can see.
LEMMA RefinementStep ==
  ASSUME IInv, IInv', [Next]_vars
  PROVE  [Abstract!EvaluationNext]_(Abstract!evaluation)
<1> USE MappingParts
<1>1. ASSUME NEW s \in BySource, Evaluate(s) PROVE Abstract!Deliver
  <2>1. PICK k \in ChecksOf(s) \ Done(s) : \E status \in StatusesOf(k) : Adds(s, k, status)
    BY <1>1, EvaluateFacts
  <2>2. PICK status \in StatusesOf(k) : Adds(s, k, status)
    BY <2>1
  <2> DEFINE e == [check |-> k, status |-> status]
  <2>3. EvaluationPhase = "evaluating" /\ EvaluationPhase' = EvaluationPhase
    <3>1. thread[s] = "running" /\ main' = main
      BY <1>1 DEF Evaluate
    <3> QED BY <3>1 DEF IInv, CallerInv, TypeOK, Running, EvaluationPhase
  <2>4. k \in Checks \ {r.check : r \in AllResults}
    <3>1. \A t \in BySource : \A r \in ResultsOf(t) : r.check \in Done(t)
      BY DEF ResultsOf, Done
    <3>2. \A t \in BySource : k \in Done(t) => t = s
      BY DEF IInv, TypeOK, ChecksOf
    <3> QED BY <3>1, <3>2 DEF AllResults, ChecksOf
  <2>5. ResultsOf(s)' = ResultsOf(s) \cup {e}
    <3>1. out[s] \in Seq(OneResult) /\ e \in OneResult /\ out'[s] = Append(out[s], e)
      BY <2>2 DEF IInv, Shape, Adds
    <3>2. /\ DOMAIN out'[s] = DOMAIN out[s] \cup {Len(out[s]) + 1}
          /\ \A i \in DOMAIN out[s] : out'[s][i] = out[s][i]
          /\ out'[s][Len(out[s]) + 1] = e
      BY <3>1, AppendFacts
    <3> HIDE DEF e
    <3> QED BY <3>2 DEF ResultsOf
  <2>6. \A t \in BySource \ {s} : ResultsOf(t)' = ResultsOf(t)
    BY <2>2 DEF Adds, ResultsOf, IInv, Shape
  <2>7. AllResults' = AllResults \cup {e}
    <3>1. BySource' = BySource
      BY DEF BySource
    <3> HIDE DEF e
    <3>2. \A r : r \in AllResults' <=> \E t \in BySource : r \in ResultsOf(t)'
      BY <3>1 DEF AllResults
    <3>3. \A r : r \in AllResults <=> \E t \in BySource : r \in ResultsOf(t)
      BY DEF AllResults
    <3>4. \A r : r \in AllResults' <=> r \in AllResults \cup {e}
      BY <2>5, <2>6, <3>2, <3>3
    <3> QED BY <3>4
  <2>8. status \in Status
    BY <2>2 DEF Adds
  <2> QED BY <2>3, <2>4, <2>7, <2>8
<1>2. out' = out => AllResults' = AllResults
  BY DEF AllResults, ResultsOf
<1>7. out' = out /\ EvaluationPhase' = EvaluationPhase => UNCHANGED Abstract!evaluation
  BY DEF Abstract!evaluation, EvaluationPhase
<1>3. ASSUME NEW s \in BySource,
             Take(s) \/ OnResult(s) \/ OnResultRaises(s) \/ FinishSource(s) \/ Collect(s)
      PROVE  UNCHANGED Abstract!evaluation
  <2>1. out' = out /\ main' = main
    BY <1>3 DEF Take, OnResult, OnResultRaises, FinishSource, Collect
  <2> QED BY <1>7, <2>1 DEF EvaluationPhase
<1>4. CASE Drain
  <2>1. out' = out /\ main = "collecting" /\ main' = "draining"
    BY <1>4 DEF Drain
  <2> QED BY <1>7, <2>1 DEF EvaluationPhase
<1>5. CASE CloseAdapters \/ UNCHANGED vars
  <2>1. out' = out /\ main' = main
    BY <1>5 DEF CloseAdapters, vars
  <2> QED BY <1>7, <2>1 DEF EvaluationPhase
<1>6. CASE LeavePool
  <2>1. out' = out
    BY <1>6 DEF LeavePool
  <2>2. CASE main = "collecting" /\ taken = BySource /\ main' = "returned"
    <3>1. \A s \in BySource : Done(s)' = ChecksOf(s)
      BY <2>2, ReturnedFacts, <2>1 DEF IInv, CallerInv, ThreadInv, Deliveries, Done
    <3>2. \A s \in BySource : Done(s) = ChecksOf(s)
      BY <2>1, <3>1 DEF Done
    <3>3. \A k : k \in {r.check : r \in AllResults} <=> \E s \in BySource : k \in Done(s)
      BY DEF AllResults, ResultsOf, Done
    <3>4. \A k : k \in Checks <=> \E s \in BySource : k \in ChecksOf(s)
      BY DEF ChecksOf, BySource
    <3>5. {r.check : r \in AllResults} = Checks
      BY <3>2, <3>3, <3>4
    <3>6. Abstract!Return
      BY <1>2, <2>1, <2>2, <3>5 DEF EvaluationPhase
    <3> QED BY <3>6 DEF Abstract!EvaluationNext
  <2>3. CASE main = "draining" /\ main' = "raised"
    <3>1. Abstract!Raise
      BY <1>2, <2>1, <2>3 DEF EvaluationPhase
    <3> QED BY <3>1 DEF Abstract!EvaluationNext
  <2> QED BY <1>6, <2>2, <2>3 DEF LeavePool
<1> QED BY <1>1, <1>3, <1>4, <1>5, <1>6
        DEF Next, Thread, Caller, CollectRaises, Interrupt, Abstract!EvaluationNext

\* The threads implement the evaluation RunStore takes for granted: a result
\* of a check at a time, in any order and each once, until all are there and
\* run_checks returns, or it raises (ImplementsEvaluation).
THEOREM EngineImplementsEvaluation == Spec => ImplementsEvaluation
<1>1. Init => Abstract!EvaluationInit
  <2> SUFFICES ASSUME Init PROVE Abstract!EvaluationInit
    OBVIOUS
  <2>1. \A s \in BySource : ResultsOf(s) = {}
    BY DEF Init, ResultsOf
  <2>2. AllResults = {}
    BY <2>1 DEF AllResults
  <2> QED BY <2>2, MappingParts DEF Init, EvaluationPhase
<1>2. IInv /\ IInv' /\ [Next]_vars => [Abstract!EvaluationNext]_(Abstract!evaluation)
  BY RefinementStep
<1> QED BY <1>1, <1>2, EngineCorrect, PTL
        DEF Spec, ImplementsEvaluation, Abstract!EvaluationSpec
=============================================================================
