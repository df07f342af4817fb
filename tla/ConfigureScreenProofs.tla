----------------------- MODULE ConfigureScreenProofs -----------------------
(***************************************************************************)
(* TLAPS proofs about ConfigureScreen, for any forms, descriptions, checks *)
(* in the files, selections and numbers of presses and edits.              *)
(***************************************************************************)
EXTENDS ConfigureScreen, FiniteSetTheorems, TLAPS

-----------------------------------------------------------------------------
(* The inductive invariants.                                               *)

Final == {"cancelled", "success", "error"}

Msg == [kind : {"propose", "accept"}, press : {0}]
         \cup [kind : Final \cup {"running"}, press : Presses]

\* Types, with those of the queue and of the answers.
TypeInv ==
  /\ TypeOK
  /\ queue \in Seq(Msg)
  /\ answer = [p \in Presses |-> answer[p]]

\* No more than MaxPresses presses are made, handled or waiting.
CountInv == newest + Cardinality(Queued("propose")) <= MaxPresses

\* a is what a thread may return for the form f: an error, or what is found
\* for f's table under some description of it.
Answers(a, f) == a = Failed \/ \E info : a = Found(f.table, info, f.entered)

\* Workers belong to presses; a thread answers the form of its press.
WorkInv ==
  /\ \A p \in Presses :
       /\ p > newest => task[p] = "none"
       /\ task[p] \in {"none", "pending", "dropped"} => thread[p] = "none"
       /\ thread[p] = "returned" => Answers(answer[p], asked[p])
  /\ \A i \in DOMAIN queue : queue[i].kind = "success" => thread[queue[i].press] = "returned"
  /\ ~open => queue = <<>> /\ Active = {}

\* For a person whose presses are handled one by one: the button is enabled
\* and the title busy as they should be; at most one worker is under way or
\* about to be reported, that of the last press; its start is handled before
\* its end; and a press that waits found the button enabled.
Button == (enabled <=> ~Outstanding) /\ (busy => Outstanding)

Messages ==
  \A i \in DOMAIN queue :
    /\ queue[i].kind = "propose" => enabled
    /\ queue[i].kind = "running" => Outstanding
    /\ queue[i].kind \in Final => queue[i].press = newest /\ Active = {}
    /\ \A j \in DOMAIN queue :
         /\ queue[i].kind = "propose" /\ queue[j].kind = "propose" => i = j
         /\ queue[i].kind \in Final /\ queue[j].kind \in Final => i = j
         /\ queue[i].kind = "running" /\ queue[j].kind \in Final => i < j

PatientInv == patient /\ open => Button /\ Active \subseteq {newest} /\ Messages

\* The panels are the answer of the last press, and its thread is done.
PanelsInv ==
  patient /\ panels # Nothing =>
    /\ newest \in Presses /\ thread[newest] = "returned"
    /\ panels = answer[newest] /\ panels # Failed

IInv == TypeInv /\ CountInv /\ WorkInv /\ PatientInv /\ PanelsInv

-----------------------------------------------------------------------------
(* Sequences of messages.                                                  *)

\* Where messages of a kind are.
KindIn(q, kind) == {i \in DOMAIN q : q[i].kind = kind}

\* Posting adds a message at the end of the queue.
LEMMA PostFacts ==
  ASSUME NEW S, NEW q \in Seq(S), NEW m \in S
  PROVE  /\ Append(q, m) \in Seq(S)
         /\ Len(q) \in Nat /\ DOMAIN q = 1..Len(q)
         /\ DOMAIN Append(q, m) = 1..Len(q) + 1
         /\ \A i \in DOMAIN q : Append(q, m)[i] = q[i] /\ q[i] \in S
         /\ Append(q, m)[Len(q) + 1] = m
  OBVIOUS

\* Handling a message takes it from the front of the queue.
LEMMA TakeFacts ==
  ASSUME NEW S, NEW q \in Seq(S), q # <<>>
  PROVE  /\ Tail(q) \in Seq(S)
         /\ Len(q) \in Nat \ {0} /\ DOMAIN q = 1..Len(q)
         /\ DOMAIN Tail(q) = 1..Len(q) - 1
         /\ \A i \in DOMAIN Tail(q) : i + 1 \in DOMAIN q /\ Tail(q)[i] = q[i + 1]
         /\ \A j \in DOMAIN q : j = 1 \/ (j - 1 \in DOMAIN Tail(q) /\ Tail(q)[j - 1] = q[j])
         /\ Head(q) = q[1] /\ 1 \in DOMAIN q /\ q[1] \in S
<1>1. /\ Tail(q) \in Seq(S)
      /\ Len(q) \in Nat \ {0} /\ DOMAIN q = 1..Len(q)
      /\ DOMAIN Tail(q) = 1..Len(q) - 1
      /\ \A i \in DOMAIN Tail(q) : i + 1 \in DOMAIN q /\ Tail(q)[i] = q[i + 1]
      /\ Head(q) = q[1] /\ 1 \in DOMAIN q /\ q[1] \in S
  OBVIOUS
<1>2. ASSUME NEW j \in DOMAIN q, j # 1
      PROVE  j - 1 \in DOMAIN Tail(q) /\ Tail(q)[j - 1] = q[j]
  <2>1. j - 1 \in DOMAIN Tail(q) /\ (j - 1) + 1 = j
    BY <1>1, <1>2
  <2> QED BY <1>1, <2>1
<1> QED BY <1>1, <1>2

\* The messages of a kind are finitely many; posting one adds one to its kind.
LEMMA CountPosted ==
  ASSUME NEW S, NEW q \in Seq(S), NEW m \in S, NEW kind
  PROVE  /\ IsFiniteSet(KindIn(q, kind)) /\ Cardinality(KindIn(q, kind)) \in Nat
         /\ Cardinality(KindIn(Append(q, m), kind)) =
              IF m.kind = kind THEN Cardinality(KindIn(q, kind)) + 1
              ELSE Cardinality(KindIn(q, kind))
<1> DEFINE n == Len(q) + 1
<1>1. /\ DOMAIN q = 1..Len(q) /\ Len(q) \in Nat
      /\ DOMAIN Append(q, m) = 1..n
      /\ \A i \in DOMAIN q : Append(q, m)[i] = q[i]
      /\ Append(q, m)[n] = m
  BY PostFacts
<1>2. IsFiniteSet(1..Len(q))
  BY <1>1, FS_Interval
<1>3. IsFiniteSet(KindIn(q, kind)) /\ Cardinality(KindIn(q, kind)) \in Nat
  <2>1. KindIn(q, kind) \in SUBSET (1..Len(q))
    BY <1>1 DEF KindIn
  <2> QED BY <1>2, <2>1, FS_Subset, FS_CardinalityType
<1>4. n \notin KindIn(q, kind)
  BY <1>1 DEF KindIn
<1>5. \A i : i \in 1..n <=> i \in 1..Len(q) \/ i = n
  BY <1>1
<1> HIDE DEF n
<1>6. CASE m.kind = kind
  <2>1. KindIn(Append(q, m), kind) = KindIn(q, kind) \cup {n}
    BY <1>1, <1>5, <1>6 DEF KindIn
  <2> QED BY <1>3, <1>4, <1>6, <2>1, FS_AddElement
<1>7. CASE m.kind # kind
  <2>1. KindIn(Append(q, m), kind) = KindIn(q, kind)
    BY <1>1, <1>5, <1>7 DEF KindIn
  <2> QED BY <1>3, <1>7, <2>1
<1> QED BY <1>6, <1>7

\* Handling one takes one from its kind.
LEMMA CountTaken ==
  ASSUME NEW S, NEW q \in Seq(S), q # <<>>, NEW kind
  PROVE  /\ Cardinality(KindIn(q, kind)) \in Nat
         /\ Cardinality(KindIn(Tail(q), kind)) =
              IF Head(q).kind = kind THEN Cardinality(KindIn(q, kind)) - 1
              ELSE Cardinality(KindIn(q, kind))
<1> DEFINE T == KindIn(Tail(q), kind)
           U == KindIn(q, kind) \ {1}
           f == [i \in T |-> i + 1]
<1>1. /\ DOMAIN q = 1..Len(q) /\ Len(q) \in Nat
      /\ DOMAIN Tail(q) = 1..Len(q) - 1
      /\ \A i \in DOMAIN Tail(q) : i + 1 \in DOMAIN q /\ Tail(q)[i] = q[i + 1]
      /\ \A j \in DOMAIN q : j = 1 \/ (j - 1 \in DOMAIN Tail(q) /\ Tail(q)[j - 1] = q[j])
      /\ Head(q) = q[1] /\ 1 \in DOMAIN q
  BY TakeFacts
<1>2. IsFiniteSet(KindIn(q, kind)) /\ Cardinality(KindIn(q, kind)) \in Nat
  BY <1>1, CountPosted
<1>3. IsFiniteSet(T)
  <2>1. IsFiniteSet(1..Len(q) - 1)
    BY <1>1, FS_Interval
  <2>2. T \in SUBSET (1..Len(q) - 1)
    BY <1>1 DEF KindIn
  <2> QED BY <2>1, <2>2, FS_Subset
<1>4. T \subseteq Int /\ U \subseteq Int
  BY <1>1 DEF KindIn
<1>5. \A i \in T : i + 1 \in U
  <2> SUFFICES ASSUME NEW i \in T PROVE i + 1 \in U
    OBVIOUS
  <2>1. i \in DOMAIN Tail(q) /\ Tail(q)[i].kind = kind
    BY DEF KindIn
  <2>2. i + 1 # 1
    BY <1>1, <2>1
  <2> QED BY <1>1, <2>1, <2>2 DEF KindIn
<1>6. \A j \in U : j - 1 \in T
  BY <1>1 DEF KindIn
<1> HIDE DEF T, U
<1>7. ExistsBijection(T, U)
  <2>1. f \in [T -> U]
    BY <1>5
  <2>2. \A i, j \in T : f[i] = f[j] => i = j
    BY <1>4
  <2>3. \A j \in U : \E i \in T : f[i] = j
    <3> SUFFICES ASSUME NEW j \in U PROVE \E i \in T : f[i] = j
      OBVIOUS
    <3>1. j - 1 \in T /\ (j - 1) + 1 = j
      BY <1>4, <1>6
    <3> QED BY <3>1
  <2> HIDE DEF f
  <2> QED BY <2>1, <2>2, <2>3 DEF ExistsBijection, Bijection, Injection, Surjection, IsInjective
<1>8. Cardinality(U) = Cardinality(T)
  BY <1>3, <1>7, FS_Bijection
<1>9. Cardinality(U) = IF Head(q).kind = kind THEN Cardinality(KindIn(q, kind)) - 1
                       ELSE Cardinality(KindIn(q, kind))
  <2>1. 1 \in KindIn(q, kind) <=> Head(q).kind = kind
    BY <1>1 DEF KindIn
  <2> QED BY <1>2, <2>1, FS_RemoveElement DEF U
<1> QED BY <1>2, <1>8, <1>9 DEF T

-----------------------------------------------------------------------------
(* Types, and the presses made.                                            *)

\* What the person types, pastes and edits does not reach the workers.
Aside == FillForm \/ PasteModal \/ CloseModal \/ EditFiles \/ UNCHANGED vars

\* It leaves the workers, the messages and the panels alone.
LEMMA AsideFacts ==
  ASSUME Aside
  PROVE  UNCHANGED <<queue, newest, asked, task, thread, answer, adapters, enabled, busy,
                     panels, open, patient>>
  BY DEF Aside, FillForm, PasteModal, CloseModal, EditFiles, vars, formVars, workVars, fileVars

\* Every message posted is one.
LEMMA MessageTypes ==
  /\ \A kind \in {"propose", "accept"} :
       Message(kind, 0) \in Msg /\ Message(kind, 0).kind = kind
  /\ \A kind \in Final \cup {"running"}, p \in Presses :
       /\ Message(kind, p) \in Msg
       /\ Message(kind, p).kind = kind /\ Message(kind, p).press = p
  /\ \A m \in Msg : m.kind \in Final \cup {"running"} => m.press \in Presses
  BY DEF Message, Msg, Final

\* No worker posts for a press that was never made; at most one is cancelled.
LEMMA ProposePosts ==
  ASSUME TypeInv, HandlePropose
  PROVE  \/ queue' = Tail(queue)
         \/ \E q \in Presses : /\ task[q] = "running"
                               /\ queue' = Append(Tail(queue), Message("cancelled", q))
<1> DEFINE begun == {q \in Presses : task[q] = "running"}
<1>1. queue' = IF begun = {} THEN Tail(queue)
               ELSE Append(Tail(queue), Message("cancelled", CHOOSE q \in begun : TRUE))
  BY DEF HandlePropose
<1>2. begun # {} => (CHOOSE q \in begun : TRUE) \in begun
  OBVIOUS
<1>3. \A q \in begun : q \in Presses /\ task[q] = "running"
  OBVIOUS
<1> HIDE DEF begun
<1> QED BY <1>1, <1>2, <1>3

\* The queue holds messages, and no more presses than there may be.
LEMMA QueueKept ==
  ASSUME TypeInv, CountInv, [Next]_vars
  PROVE  queue' \in Seq(Msg) /\ CountInv'
<1>0. /\ queue \in Seq(Msg) /\ newest \in Nat /\ MaxPresses \in Nat
      /\ newest + Cardinality(KindIn(queue, "propose")) <= MaxPresses
      /\ Cardinality(KindIn(queue, "propose")) \in Nat
  <2>1. queue \in Seq(Msg) /\ newest \in Nat /\ MaxPresses \in Nat
    BY ConfigureAssumption DEF TypeInv, TypeOK
  <2>2. Cardinality(KindIn(queue, "propose")) \in Nat
    BY <2>1, MessageTypes, CountPosted
  <2> QED BY <2>1, <2>2 DEF CountInv, Queued, KindIn
<1>1. newest' + Cardinality(KindIn(queue', "propose")) <= MaxPresses => CountInv'
  BY DEF CountInv, Queued, KindIn
<1>2. ASSUME queue' = queue, newest' = newest PROVE queue' \in Seq(Msg) /\ CountInv'
  BY <1>0, <1>1, <1>2
<1>3. ASSUME NEW m \in Msg, m.kind # "propose", queue' = Append(queue, m), newest' = newest
      PROVE  queue' \in Seq(Msg) /\ CountInv'
  BY <1>0, <1>1, <1>3, CountPosted, PostFacts
<1>4. ASSUME PressPropose PROVE queue' \in Seq(Msg) /\ CountInv'
  <2>1. /\ newest + Cardinality(KindIn(queue, "propose")) < MaxPresses
        /\ newest' = newest
        /\ queue' = Append(queue, Message("propose", 0))
    BY <1>4 DEF PressPropose, Queued, KindIn
  <2>2. /\ Message("propose", 0) \in Msg /\ Message("propose", 0).kind = "propose"
    BY MessageTypes
  <2>3. Cardinality(KindIn(queue', "propose")) = Cardinality(KindIn(queue, "propose")) + 1
    BY <1>0, <2>1, <2>2, CountPosted
  <2> QED BY <1>0, <1>1, <2>1, <2>2, <2>3, PostFacts
<1>5. ASSUME queue # <<>>, queue' = Tail(queue), newest' = newest
      PROVE  queue' \in Seq(Msg) /\ CountInv'
  <2>1. Cardinality(KindIn(queue', "propose")) \in
          {Cardinality(KindIn(queue, "propose")), Cardinality(KindIn(queue, "propose")) - 1}
    BY <1>0, <1>5, CountTaken
  <2> QED BY <1>0, <1>1, <1>5, <2>1, TakeFacts
<1>6. ASSUME HandlePropose PROVE queue' \in Seq(Msg) /\ CountInv'
  <2>1. queue # <<>> /\ Head(queue).kind = "propose" /\ newest' = newest + 1
    BY <1>6 DEF HandlePropose, Received
  <2>2. Tail(queue) \in Seq(Msg)
    BY <1>0, <2>1, TakeFacts
  <2>3. Cardinality(KindIn(Tail(queue), "propose")) = Cardinality(KindIn(queue, "propose")) - 1
    BY <1>0, <2>1, CountTaken
  <2>4. CASE queue' = Tail(queue)
    BY <1>0, <1>1, <2>1, <2>2, <2>3, <2>4
  <2>5. CASE \E q \in Presses : queue' = Append(Tail(queue), Message("cancelled", q))
    <3>1. PICK q \in Presses : queue' = Append(Tail(queue), Message("cancelled", q))
      BY <2>5
    <3>2. Message("cancelled", q) \in Msg /\ Message("cancelled", q).kind = "cancelled"
      BY MessageTypes DEF Final
    <3> DEFINE t == Tail(queue)
               m == Message("cancelled", q)
    <3>3. t \in Seq(Msg) /\ m \in Msg /\ m.kind = "cancelled" /\ queue' = Append(t, m)
          /\ Cardinality(KindIn(t, "propose")) = Cardinality(KindIn(queue, "propose")) - 1
      BY <2>2, <2>3, <3>1, <3>2
    <3> HIDE DEF t, m
    <3>4. Cardinality(KindIn(queue', "propose")) = Cardinality(KindIn(t, "propose"))
      BY <3>3, CountPosted
    <3> QED BY <1>0, <1>1, <2>1, <3>3, <3>4, PostFacts
  <2> QED BY <1>6, <2>4, <2>5, ProposePosts
<1>7. ASSUME Leave PROVE queue' \in Seq(Msg) /\ CountInv'
  <2>1. queue' = <<>> /\ newest' = newest
    BY <1>7 DEF Leave
  <2>2. KindIn(queue', "propose") = {}
    BY <2>1 DEF KindIn
  <2>3. Cardinality(KindIn(queue', "propose")) = 0
    BY <2>2, FS_EmptySet
  <2>4. CountInv'
    BY <1>0, <1>1, <2>1, <2>3
  <2> QED BY <2>1, <2>4
<1>8. ASSUME Aside \/ \E p \in Presses : Thread(p) PROVE queue' = queue /\ newest' = newest
  BY <1>8, AsideFacts DEF Thread, ThreadConnect, ThreadIntrospect, ThreadRaises
<1>9. ASSUME PressAccept \/ \E p \in Presses : StartTask(p) \/ EndTask(p)
      PROVE  /\ newest' = newest
             /\ \E m \in Msg : m.kind # "propose" /\ queue' = Append(queue, m)
  BY <1>9, MessageTypes DEF PressAccept, StartTask, EndTask, Final
<1>10. ASSUME \/ HandleProposeNowhere \/ HandleRunning \/ HandleFailure \/ HandleProposal
              \/ HandleAcceptInVain \/ HandleAccept
       PROVE  queue # <<>> /\ queue' = Tail(queue) /\ newest' = newest
  BY <1>10 DEF HandleProposeNowhere, HandleRunning, HandleFailure, HandleProposal,
               HandleAcceptInVain, HandleAccept, Received
<1> QED BY <1>2, <1>3, <1>4, <1>5, <1>6, <1>7, <1>8, <1>9, <1>10
        DEF Next, Person, Handle, Dismiss, HandleProposalTwice, HandleAcceptRaises, Aside

\* The flags are Booleans.
Flags == /\ enabled \in BOOLEAN /\ busy \in BOOLEAN /\ parses \in BOOLEAN /\ twice \in BOOLEAN
         /\ open \in BOOLEAN /\ patient \in BOOLEAN

\* The flags of TypeOK, one by one.
LEMMA FlagsFacts == (\A b \in {enabled, busy, parses, twice, open, patient} : b \in BOOLEAN) <=> Flags
  BY Zenon DEF Flags

\* The flags stay Booleans.
LEMMA FlagsKept ==
  ASSUME Flags, [Next]_vars
  PROVE  Flags'
  BY Zenon DEF Flags, Next, Person, Handle, Dismiss, HandleProposalTwice,
     HandleAcceptRaises, Leave, Thread,
     FillForm, PressPropose, PressAccept, PasteModal, CloseModal, EditFiles, StartTask, EndTask,
     ThreadConnect, ThreadIntrospect, ThreadRaises, HandleProposeNowhere, HandlePropose,
     HandleRunning, HandleFailure, HandleProposal, HandleAcceptInVain, HandleAccept, vars,
     formVars, fileVars

\* The types of the workers.
WorkTypes ==
  /\ newest \in 0..MaxPresses
  /\ asked \in [Presses -> Forms \cup {Nothing}]
  /\ task \in [Presses -> {"none", "pending", "running", "dropped", "cancelled", "ended"}]
  /\ thread \in [Presses -> {"none", "queued", "dropped", "connected", "returned", "raised"}]
  /\ adapters \subseteq {p \in Presses : thread[p] = "connected"}
  /\ answer = [p \in Presses |-> answer[p]]

\* They are kept.
LEMMA WorkTypesKept ==
  ASSUME TypeInv, CountInv, WorkInv, [Next]_vars
  PROVE  WorkTypes' /\ form' \in Forms
<1>0. WorkTypes /\ form \in Forms /\ queue \in Seq(Msg)
  BY DEF TypeInv, TypeOK, WorkTypes
<1>1. form' \in Forms
  BY <1>0 DEF Next, Person, Handle, Dismiss, HandleProposalTwice,
     HandleAcceptRaises, Leave, Thread,
     FillForm, PressPropose, PressAccept, PasteModal, CloseModal, EditFiles, StartTask, EndTask,
     ThreadConnect, ThreadIntrospect, ThreadRaises, HandleProposeNowhere, HandlePropose,
     HandleRunning, HandleFailure, HandleProposal, HandleAcceptInVain, HandleAccept, vars,
     formVars
<1>2. ASSUME UNCHANGED <<newest, asked, task, thread, adapters, answer>> PROVE WorkTypes'
  BY <1>0, <1>2 DEF WorkTypes
<1>3. ASSUME \/ Aside \/ PressPropose \/ PressAccept
             \/ HandleProposeNowhere \/ HandleRunning \/ HandleFailure \/ HandleProposal
             \/ HandleAcceptInVain \/ HandleAccept
      PROVE  UNCHANGED <<newest, asked, task, thread, adapters, answer>>
  BY <1>3, AsideFacts DEF PressPropose, PressAccept, HandleProposeNowhere, HandleRunning,
     HandleFailure, HandleProposal, HandleAcceptInVain, HandleAccept, workVars
<1>4. ASSUME Leave PROVE WorkTypes'
  BY <1>0, <1>4 DEF Leave, CancelTasks, WorkTypes
<1>5. ASSUME NEW p \in Presses, StartTask(p) \/ EndTask(p) PROVE WorkTypes'
  <2>1. CASE StartTask(p)
    <3>1. thread[p] = "none"
      BY <2>1 DEF StartTask, WorkInv
    <3> QED BY <1>0, <2>1, <3>1 DEF StartTask, WorkTypes
  <2>2. CASE EndTask(p)
    BY <1>0, <2>2 DEF EndTask, WorkTypes
  <2> QED BY <1>5, <2>1, <2>2
<1>6. ASSUME NEW p \in Presses, Thread(p) PROVE WorkTypes'
  <2>1. answer' = answer \/ \E a : answer' = [answer EXCEPT ![p] = a]
    BY <1>6 DEF Thread, ThreadConnect, ThreadIntrospect, ThreadRaises
  <2>2. answer' = [q \in Presses |-> answer'[q]]
    BY <1>0, <2>1 DEF WorkTypes
  <2> QED BY <1>0, <1>6, <2>2 DEF Thread, ThreadConnect, ThreadIntrospect, ThreadRaises, WorkTypes
<1>7. ASSUME HandlePropose PROVE WorkTypes'
  <2>1. /\ queue # <<>> /\ Head(queue).kind = "propose" /\ newest' = newest + 1
        /\ asked' = [asked EXCEPT ![newest + 1] = form]
        /\ adapters' = adapters /\ answer' = answer
    BY <1>7 DEF HandlePropose, Received
  <2>2. newest + 1 <= MaxPresses
    <3>0. 1 \in KindIn(queue, "propose")
      BY <1>0, <2>1, TakeFacts DEF KindIn
    <3>1. /\ Cardinality(KindIn(queue, "propose")) \in Nat
          /\ KindIn(queue, "propose") # {}
          /\ IsFiniteSet(KindIn(queue, "propose"))
      BY <1>0, <3>0, MessageTypes, CountPosted
    <3>2. Cardinality(KindIn(queue, "propose")) # 0
      BY <3>1, FS_EmptySet
    <3>3. newest + Cardinality(KindIn(queue, "propose")) <= MaxPresses
      BY DEF CountInv, Queued, KindIn
    <3> QED BY <1>0, <3>1, <3>2, <3>3, ConfigureAssumption DEF WorkTypes
  <2>3. newest' \in 0..MaxPresses
    BY <1>0, <2>1, <2>2, ConfigureAssumption DEF WorkTypes
  <2>4. asked' \in [Presses -> Forms \cup {Nothing}]
    BY <1>0, <2>1 DEF WorkTypes
  <2>5. /\ task' \in [Presses -> {"none", "pending", "running", "dropped", "cancelled", "ended"}]
        /\ thread' \in [Presses -> {"none", "queued", "dropped", "connected", "returned",
                                    "raised"}]
        /\ \A p \in Presses : thread[p] = "connected" => thread'[p] = "connected"
    BY <1>0, <1>7 DEF HandlePropose, WorkTypes
  <2> QED BY <1>0, <2>1, <2>3, <2>4, <2>5 DEF WorkTypes
<1> QED BY <1>1, <1>2, <1>3, <1>4, <1>5, <1>6, <1>7
        DEF Next, Person, Handle, Dismiss, HandleProposalTwice, HandleAcceptRaises, Aside

\* All the types are kept.
LEMMA TypesKept ==
  ASSUME TypeInv, CountInv, WorkInv, [Next]_vars
  PROVE  TypeInv' /\ CountInv'
<1>1. Flags
  BY FlagsFacts DEF TypeInv, TypeOK
<1>2. Flags'
  BY <1>1, FlagsKept
<1>3. \A b \in {enabled', busy', parses', twice', open', patient'} : b \in BOOLEAN
  BY <1>2, Zenon DEF Flags
<1> QED BY <1>3, QueueKept, WorkTypesKept DEF TypeInv, TypeOK, WorkTypes

-----------------------------------------------------------------------------
(* The workers.                                                            *)

\* What holds of each worker; of what has been reported; and of a screen that
\* is gone.
WorkersInv ==
  \A p \in Presses :
    /\ p > newest => task[p] = "none"
    /\ task[p] \in {"none", "pending", "dropped"} => thread[p] = "none"
    /\ thread[p] = "returned" => Answers(answer[p], asked[p])

ReportsInv ==
  \A i \in DOMAIN queue : queue[i].kind = "success" => thread[queue[i].press] = "returned"

GoneInv == ~open => queue = <<>> /\ Active = {}

\* Together they are the invariant of the workers.
LEMMA WorkParts == WorkInv <=> WorkersInv /\ ReportsInv /\ GoneInv
  BY DEF WorkInv, WorkersInv, ReportsInv, GoneInv

\* Messages handled and threads that go on leave the reports right.
LEMMA ReportsTaken ==
  ASSUME queue \in Seq(Msg), queue # <<>>, queue' = Tail(queue), ReportsInv,
         \A p \in Presses : thread[p] = "returned" => thread'[p] = "returned"
  PROVE  ReportsInv'
<1>1. /\ DOMAIN queue = 1..Len(queue)
      /\ \A i \in DOMAIN queue' : i + 1 \in DOMAIN queue /\ queue'[i] = queue[i + 1]
  BY TakeFacts
<1>2. \A i \in DOMAIN queue : queue[i] \in Msg
  OBVIOUS
<1>3. \A i \in DOMAIN queue : queue[i].kind = "success" => queue[i].press \in Presses
  BY <1>2, MessageTypes DEF Final
<1> QED BY <1>1, <1>3 DEF ReportsInv

\* So does a message that is true.
LEMMA ReportsPosted ==
  ASSUME queue \in Seq(Msg), NEW m \in Msg, queue' = Append(queue, m), ReportsInv,
         m.kind = "success" => thread'[m.press] = "returned",
         \A p \in Presses : thread[p] = "returned" => thread'[p] = "returned"
  PROVE  ReportsInv'
<1>1. /\ DOMAIN queue = 1..Len(queue) /\ Len(queue) \in Nat
      /\ DOMAIN queue' = 1..Len(queue) + 1
      /\ \A i \in DOMAIN queue : queue'[i] = queue[i] /\ queue[i] \in Msg
      /\ queue'[Len(queue) + 1] = m
  BY PostFacts
<1>2. \A i \in DOMAIN queue : queue[i].kind = "success" => queue[i].press \in Presses
  BY <1>1, MessageTypes DEF Final
<1>3. \A i \in DOMAIN queue' : i \in DOMAIN queue \/ i = Len(queue) + 1
  BY <1>1
<1> QED BY <1>1, <1>2, <1>3 DEF ReportsInv

\* The workers keep to their presses.
LEMMA WorkKept ==
  ASSUME TypeInv, WorkInv, [Next]_vars
  PROVE  WorkInv'
<1>0. /\ WorkTypes /\ queue \in Seq(Msg) /\ newest \in Int
      /\ WorkersInv /\ ReportsInv /\ GoneInv
  BY WorkParts DEF TypeInv, TypeOK, WorkTypes
<1>1. WorkersInv' /\ ReportsInv' /\ GoneInv' => WorkInv'
  BY DEF WorkInv, WorkersInv, ReportsInv, GoneInv
<1>2. ASSUME UNCHANGED <<newest, asked, task, thread, answer>> PROVE WorkersInv' /\ Active' = Active
  BY <1>0, <1>2 DEF WorkersInv, Active
<1>3. ASSUME Aside PROVE WorkInv'
  BY <1>0, <1>1, <1>2, <1>3, AsideFacts DEF ReportsInv, GoneInv
<1>4. ASSUME PressPropose \/ PressAccept PROVE WorkInv'
  <2>1. /\ UNCHANGED <<newest, asked, task, thread, answer, open>> /\ open
        /\ \E kind \in {"propose", "accept"} : queue' = Append(queue, Message(kind, 0))
    BY <1>4 DEF PressPropose, PressAccept, Reachable, workVars
  <2>2. PICK kind \in {"propose", "accept"} : queue' = Append(queue, Message(kind, 0))
    BY <2>1
  <2> DEFINE m == Message(kind, 0)
  <2>3. m \in Msg /\ m.kind # "success" /\ queue' = Append(queue, m)
    BY <2>2, MessageTypes
  <2> HIDE DEF m
  <2>4. ReportsInv'
    BY <1>0, <2>1, <2>3, ReportsPosted
  <2> QED BY <1>1, <1>2, <2>1, <2>4 DEF GoneInv
<1>5. ASSUME NEW p \in Presses, StartTask(p) PROVE WorkInv'
  <2>1. /\ task[p] = "pending" /\ task' = [task EXCEPT ![p] = "running"]
        /\ thread' = [thread EXCEPT ![p] = "queued"]
        /\ queue' = Append(queue, Message("running", p))
        /\ UNCHANGED <<newest, asked, answer, open>>
    BY <1>5 DEF StartTask
  <2>2. thread[p] = "none" /\ open /\ ~(p > newest)
    BY <1>0, <2>1 DEF WorkersInv, GoneInv, Active
  <2>3. WorkersInv'
    BY <1>0, <2>1, <2>2 DEF WorkersInv, WorkTypes
  <2>4. /\ Message("running", p) \in Msg /\ Message("running", p).kind = "running"
    BY MessageTypes
  <2>5. \A q \in Presses : thread[q] = "returned" => thread'[q] = "returned"
    BY <1>0, <2>1, <2>2 DEF WorkTypes
  <2>6. ReportsInv'
    BY <1>0, <2>1, <2>4, <2>5, ReportsPosted
  <2> QED BY <1>1, <2>1, <2>2, <2>3, <2>6 DEF GoneInv
<1>6. ASSUME NEW p \in Presses, Thread(p) PROVE WorkInv'
  <2>1. /\ thread[p] \in {"queued", "connected"}
        /\ \E state \in {"connected", "returned", "raised"} :
             thread' = [thread EXCEPT ![p] = state]
        /\ UNCHANGED <<queue, newest, asked, task, open>>
        /\ \/ answer' = answer /\ thread'[p] # "returned"
           \/ \E a : answer' = [answer EXCEPT ![p] = a] /\ Answers(a, asked[p])
    <3>1. CASE ThreadConnect(p)
      BY <1>0, <3>1 DEF ThreadConnect, WorkTypes, Answers
    <3>3. CASE ThreadRaises(p)
      BY <1>0, <3>3 DEF ThreadRaises, WorkTypes
    <3>2. CASE ThreadIntrospect(p)
      <4>1. PICK info : answer' = [answer EXCEPT ![p] = IF info = Missing THEN Failed
                                     ELSE Found(asked[p].table, info, asked[p].entered)]
        BY <3>2 DEF ThreadIntrospect
      <4>2. Answers(IF info = Missing THEN Failed
                    ELSE Found(asked[p].table, info, asked[p].entered), asked[p])
        BY DEF Answers
      <4>3. \E a : answer' = [answer EXCEPT ![p] = a] /\ Answers(a, asked[p])
        BY <4>1, <4>2
      <4> QED BY <3>2, <4>3 DEF ThreadIntrospect
    <3> QED BY <1>6, <3>1, <3>2, <3>3 DEF Thread
  <2>2. \A q \in Presses \ {p} : thread'[q] = thread[q] /\ answer'[q] = answer[q]
    BY <1>0, <2>1 DEF WorkTypes
  <2>3. task[p] \notin {"none", "pending", "dropped"}
    BY <1>0, <2>1 DEF WorkersInv
  <2>4. thread'[p] = "returned" => Answers(answer'[p], asked'[p])
    <3>0. answer = [q \in Presses |-> answer[q]]
      BY DEF TypeInv
    <3>1. p \in DOMAIN answer
      BY <3>0
    <3> QED BY <2>1, <3>1
  <2>5. WorkersInv'
    BY <1>0, <2>1, <2>2, <2>3, <2>4 DEF WorkersInv
  <2>6. ReportsInv'
    <3>1. \A i \in DOMAIN queue : queue[i] \in Msg
      BY <1>0
    <3>2. \A i \in DOMAIN queue : queue[i].kind = "success" => queue[i].press \in Presses
      BY <3>1, MessageTypes DEF Final
    <3> QED BY <1>0, <2>1, <2>2, <3>2 DEF ReportsInv
  <2> QED BY <1>0, <1>1, <2>1, <2>5, <2>6 DEF GoneInv, Active
<1>7. ASSUME NEW p \in Presses, EndTask(p) PROVE WorkInv'
  <2>1. /\ task[p] = "running" /\ task' = [task EXCEPT ![p] = "ended"]
        /\ thread[p] \in {"returned", "raised"}
        /\ queue' = Append(queue, Message(IF thread[p] = "returned" THEN "success"
                                          ELSE "error", p))
        /\ UNCHANGED <<newest, asked, answer, thread, open>>
    BY <1>7 DEF EndTask
  <2>2. open /\ ~(p > newest)
    BY <1>0, <2>1 DEF WorkersInv, GoneInv, Active
  <2>3. WorkersInv'
    BY <1>0, <2>1, <2>2 DEF WorkersInv, WorkTypes
  <2> DEFINE m == Message(IF thread[p] = "returned" THEN "success" ELSE "error", p)
  <2>4. m \in Msg /\ m.press = p /\ (m.kind = "success" => thread[p] = "returned")
    BY MessageTypes DEF Final
  <2>5. queue' = Append(queue, m)
    BY <2>1
  <2> HIDE DEF m
  <2>6. ReportsInv'
    BY <1>0, <2>1, <2>4, <2>5, ReportsPosted
  <2> QED BY <1>1, <2>1, <2>2, <2>3, <2>6 DEF GoneInv
<1>8. ASSUME queue # <<>>, queue' = Tail(queue), UNCHANGED workVars, newest' = newest, open' = open
      PROVE  WorkInv'
  <2>1. UNCHANGED <<newest, asked, task, thread, answer, open>> /\ open
    BY <1>0, <1>8 DEF workVars, GoneInv
  <2>2. ReportsInv'
    BY <1>0, <1>8, <2>1, ReportsTaken
  <2> QED BY <1>1, <1>2, <2>1, <2>2 DEF GoneInv
<1>9. ASSUME \/ HandleProposeNowhere \/ HandleRunning \/ HandleFailure \/ HandleProposal
             \/ HandleAcceptInVain \/ HandleAccept
      PROVE  WorkInv'
  BY <1>8, <1>9 DEF HandleProposeNowhere, HandleRunning, HandleFailure, HandleProposal,
                    HandleAcceptInVain, HandleAccept, Received
<1>10. ASSUME HandlePropose PROVE WorkInv'
  <2> DEFINE begun == {q \in Presses : task[q] = "running"}
             n == newest + 1
  <2>1. /\ queue # <<>> /\ newest' = n
        /\ asked' = [asked EXCEPT ![n] = form]
        /\ task' = [q \in Presses |->
                      IF q = n THEN "pending"
                      ELSE IF q \in begun THEN "cancelled"
                      ELSE IF task[q] = "pending" THEN "dropped" ELSE task[q]]
        /\ thread' = [q \in Presses |-> IF q \in begun /\ thread[q] = "queued"
                                        THEN "dropped" ELSE thread[q]]
        /\ UNCHANGED <<answer, open>>
    BY <1>10 DEF HandlePropose, Received
  <2>2. open
    BY <1>0, <2>1 DEF GoneInv
  <2>3. \A q \in Presses : q = n \/ q > n => task[q] = "none" /\ thread[q] = "none"
    <3>1. \A q \in Presses : q = n \/ q > n => q > newest
      BY <1>0 DEF Presses
    <3> QED BY <1>0, <3>1 DEF WorkersInv
  <2>4. /\ \A q \in Presses : thread[q] = "returned" => thread'[q] = "returned"
        /\ \A q \in Presses : thread'[q] = "returned" => thread[q] = "returned"
        /\ \A q \in Presses : thread[q] = "none" => thread'[q] = "none"
    BY <1>0, <2>1 DEF WorkTypes
  <2>5. WorkersInv'
    <3> SUFFICES ASSUME NEW q \in Presses
                 PROVE  /\ q > newest' => task'[q] = "none"
                        /\ task'[q] \in {"none", "pending", "dropped"} => thread'[q] = "none"
                        /\ thread'[q] = "returned" => Answers(answer'[q], asked'[q])
      BY DEF WorkersInv
    <3>1. CASE q = n
      BY <1>0, <2>1, <2>3, <2>4, <3>1 DEF WorkTypes
    <3>2. CASE q # n
      <4>1. /\ asked'[q] = asked[q] /\ answer'[q] = answer[q]
            /\ task'[q] = IF q \in begun THEN "cancelled"
                          ELSE IF task[q] = "pending" THEN "dropped" ELSE task[q]
        BY <1>0, <2>1, <3>2 DEF WorkTypes
      <4>2. q > newest' => q \notin begun /\ task'[q] = "none"
        BY <2>1, <2>3, <4>1
      <4>3. task'[q] \in {"none", "pending", "dropped"} => thread'[q] = "none"
        BY <1>0, <2>4, <4>1 DEF WorkersInv
      <4>4. thread'[q] = "returned" => Answers(answer'[q], asked'[q])
        BY <1>0, <2>4, <4>1 DEF WorkersInv
      <4> QED BY <4>2, <4>3, <4>4
    <3> QED BY <3>1, <3>2
  <2>6. ReportsInv'
    <3>1. CASE queue' = Tail(queue)
      BY <1>0, <2>1, <2>4, <3>1, ReportsTaken
    <3>2. CASE \E q \in Presses : queue' = Append(Tail(queue), Message("cancelled", q))
      <4>1. PICK q \in Presses : queue' = Append(Tail(queue), Message("cancelled", q))
        BY <3>2
      <4> DEFINE t == Tail(queue)
                 m == Message("cancelled", q)
      <4>2. m \in Msg /\ m.kind = "cancelled" /\ queue' = Append(t, m)
        BY <4>1, MessageTypes DEF Final
      <4>3. /\ t \in Seq(Msg) /\ DOMAIN queue = 1..Len(queue)
            /\ \A i \in DOMAIN t : i + 1 \in DOMAIN queue /\ t[i] = queue[i + 1]
        BY <1>0, <2>1, TakeFacts
      <4> HIDE DEF t, m
      <4>4. /\ \A i \in DOMAIN t : queue'[i] = t[i] /\ t[i] \in Msg
            /\ \A i \in DOMAIN queue' : i \in DOMAIN t \/ queue'[i] = m
        <5>1. /\ DOMAIN t = 1..Len(t) /\ Len(t) \in Nat
              /\ DOMAIN queue' = 1..Len(t) + 1
              /\ \A i \in DOMAIN t : queue'[i] = t[i] /\ t[i] \in Msg
              /\ queue'[Len(t) + 1] = m
          BY <4>2, <4>3, PostFacts
        <5> QED BY <5>1
      <4>5. \A i \in DOMAIN t : t[i].kind = "success" =>
              thread[t[i].press] = "returned" /\ t[i].press \in Presses
        BY <1>0, <4>3, <4>4, MessageTypes DEF ReportsInv, Final
      <4> QED BY <2>4, <4>2, <4>4, <4>5 DEF ReportsInv
    <3> QED BY <1>10, <3>1, <3>2, ProposePosts
  <2> QED BY <1>1, <2>1, <2>2, <2>5, <2>6 DEF GoneInv
<1>11. ASSUME Leave PROVE WorkInv'
  <2>1. /\ queue' = <<>> /\ UNCHANGED <<newest, asked, answer>>
        /\ task' = [p \in Presses |-> IF p \notin Active THEN task[p]
                      ELSE IF task[p] = "pending" THEN "dropped" ELSE "cancelled"]
        /\ thread' = [p \in Presses |-> IF p \in Active /\ thread[p] = "queued"
                                        THEN "dropped" ELSE thread[p]]
    BY <1>11 DEF Leave, CancelTasks
  <2>2. Active' = {}
    BY <2>1 DEF Active
  <2>3. WorkersInv'
    BY <1>0, <2>1 DEF WorkersInv, Active, WorkTypes
  <2> QED BY <1>1, <2>1, <2>2, <2>3 DEF ReportsInv, GoneInv
<1> QED BY <1>3, <1>4, <1>5, <1>6, <1>7, <1>9, <1>10, <1>11
        DEF Next, Person, Handle, Dismiss, HandleProposalTwice, HandleAcceptRaises, Aside

-----------------------------------------------------------------------------
(* The person whose presses are handled one by one.                        *)

\* Nobody becomes patient, and a screen that is gone stays so.
LEMMA StaysImpatient ==
  ASSUME [Next]_vars
  PROVE  (patient' => patient) /\ (open' => open)
<1>1. PressPropose => (patient' => patient) /\ open' = open
  BY DEF PressPropose
<1>2. Leave => patient' = patient /\ ~open'
  BY DEF Leave, formVars
<1>3. Aside => patient' = patient /\ open' = open
  BY AsideFacts
<1>4. ASSUME \/ PressAccept \/ HandleProposeNowhere \/ HandlePropose \/ HandleRunning
             \/ HandleFailure \/ HandleProposal \/ HandleAcceptInVain \/ HandleAccept
             \/ \E p \in Presses : StartTask(p) \/ Thread(p) \/ EndTask(p)
      PROVE  patient' = patient /\ open' = open
  BY <1>4 DEF PressAccept, StartTask, EndTask, Thread, ThreadConnect, ThreadIntrospect,
     ThreadRaises, HandleProposeNowhere, HandlePropose, HandleRunning, HandleFailure,
     HandleProposal, HandleAcceptInVain, HandleAccept, formVars
<1> QED BY <1>1, <1>2, <1>3, <1>4
        DEF Next, Person, Handle, Dismiss, HandleProposalTwice, HandleAcceptRaises, Aside

\* Something is outstanding while a worker is under way or its end is queued.
LEMMA OutstandingFacts ==
  Outstanding <=> Active # {} \/ \E i \in DOMAIN queue : queue[i].kind \in Final
  BY DEF Outstanding, Final

\* A message that leaves the worker where it is changes nothing outstanding.
LEMMA PatientPosted ==
  ASSUME queue \in Seq(Msg), NEW m \in Msg, queue' = Append(queue, m),
         Button, Active \subseteq {newest}, Messages,
         UNCHANGED <<newest, enabled, busy>>, Active' = Active,
         m.kind \notin Final,
         m.kind = "running" => Active # {},
         m.kind = "propose" => enabled /\ \A i \in DOMAIN queue : queue[i].kind # "propose"
  PROVE  Button' /\ Active' \subseteq {newest'} /\ Messages'
<1> DEFINE n == Len(queue) + 1
<1>1. /\ DOMAIN queue = 1..Len(queue) /\ Len(queue) \in Nat
      /\ DOMAIN queue' = 1..n
      /\ \A i \in DOMAIN queue : queue'[i] = queue[i] /\ queue[i] \in Msg
      /\ queue'[n] = m
  BY PostFacts
<1>2. /\ \A i \in DOMAIN queue : i \in DOMAIN queue' /\ i < n
      /\ \A i \in DOMAIN queue' : i \in DOMAIN queue \/ i = n
  BY <1>1
<1> HIDE DEF n
<1>3. Outstanding' <=> Outstanding
  BY <1>1, <1>2, OutstandingFacts DEF Outstanding, Final
<1>4. Button'
  BY <1>3 DEF Button
<1>5. Active # {} => Outstanding
  BY DEF Outstanding
<1>6. Messages'
  <2> SUFFICES ASSUME NEW i \in DOMAIN queue'
               PROVE  /\ queue'[i].kind = "propose" => enabled
                      /\ queue'[i].kind = "running" => Outstanding
                      /\ queue'[i].kind \in Final => queue'[i].press = newest /\ Active = {}
                      /\ \A j \in DOMAIN queue' :
                           /\ queue'[i].kind = "propose" /\ queue'[j].kind = "propose" => i = j
                           /\ queue'[i].kind \in Final /\ queue'[j].kind \in Final => i = j
                           /\ queue'[i].kind = "running" /\ queue'[j].kind \in Final => i < j
    BY <1>3 DEF Messages
  <2>1. CASE i \in DOMAIN queue
    BY <1>1, <1>2, <2>1 DEF Messages
  <2>2. CASE i = n
    <3>1. m.kind = "running" => \A j \in DOMAIN queue : queue[j].kind \notin Final
      BY DEF Messages
    <3>2. m.kind = "running" \/ m.kind # "running"
      OBVIOUS
    <3> QED BY <1>1, <1>2, <1>5, <2>2, <3>1 DEF Final
  <2> QED BY <1>2, <2>1, <2>2
<1> QED BY <1>4, <1>6

\* Neither does handling one that is not about a worker.
LEMMA PatientTaken ==
  ASSUME queue \in Seq(Msg), queue # <<>>, queue' = Tail(queue),
         Button, Active \subseteq {newest}, Messages,
         UNCHANGED <<newest, enabled>>, Active' = Active,
         Head(queue).kind \notin Final,
         busy' = busy \/ Head(queue).kind = "running"
  PROVE  Button' /\ Active' \subseteq {newest'} /\ Messages'
<1>1. /\ DOMAIN queue = 1..Len(queue) /\ Len(queue) \in Nat
      /\ DOMAIN queue' = 1..Len(queue) - 1
      /\ \A i \in DOMAIN queue' : i + 1 \in DOMAIN queue /\ queue'[i] = queue[i + 1]
      /\ \A j \in DOMAIN queue : j = 1 \/ (j - 1 \in DOMAIN queue' /\ queue'[j - 1] = queue[j])
      /\ Head(queue) = queue[1] /\ 1 \in DOMAIN queue
  BY TakeFacts
<1>2. Outstanding' <=> Outstanding
  <2>1. (\E i \in DOMAIN queue' : queue'[i].kind \in Final)
          <=> \E i \in DOMAIN queue : queue[i].kind \in Final
    BY <1>1
  <2>2. Outstanding' <=> Active' # {} \/ \E i \in DOMAIN queue' : queue'[i].kind \in Final
    BY DEF Outstanding, Final
  <2> QED BY <2>1, <2>2, OutstandingFacts
<1>3. queue[1].kind = "running" => Outstanding
  BY <1>1 DEF Messages
<1>4. Button'
  BY <1>1, <1>2, <1>3 DEF Button
<1>5. \A i, j \in DOMAIN queue' : (i + 1 = j + 1 => i = j) /\ (i + 1 < j + 1 => i < j)
  BY <1>1
<1>6. Messages'
  <2> SUFFICES ASSUME NEW i \in DOMAIN queue'
               PROVE  /\ queue'[i].kind = "propose" => enabled
                      /\ queue'[i].kind = "running" => Outstanding
                      /\ queue'[i].kind \in Final => queue'[i].press = newest /\ Active = {}
                      /\ \A j \in DOMAIN queue' :
                           /\ queue'[i].kind = "propose" /\ queue'[j].kind = "propose" => i = j
                           /\ queue'[i].kind \in Final /\ queue'[j].kind \in Final => i = j
                           /\ queue'[i].kind = "running" /\ queue'[j].kind \in Final => i < j
    BY <1>2 DEF Messages
  <2> QED BY <1>1, <1>5 DEF Messages
<1> QED BY <1>4, <1>6

\* A worker's end, once handled, leaves nothing outstanding.
LEMMA PatientEnded ==
  ASSUME queue \in Seq(Msg), queue # <<>>, queue' = Tail(queue),
         Button, Active \subseteq {newest}, Messages,
         newest' = newest, enabled' = TRUE, busy' = FALSE, Active' = Active,
         Head(queue).kind \in Final
  PROVE  Button' /\ Active' \subseteq {newest'} /\ Messages'
<1>1. /\ DOMAIN queue = 1..Len(queue) /\ Len(queue) \in Nat
      /\ DOMAIN queue' = 1..Len(queue) - 1
      /\ \A i \in DOMAIN queue' : i + 1 \in DOMAIN queue /\ queue'[i] = queue[i + 1]
      /\ Head(queue) = queue[1] /\ 1 \in DOMAIN queue
  BY TakeFacts
<1>2. Active = {}
  BY <1>1 DEF Messages
<1>3. ASSUME NEW i \in DOMAIN queue'
      PROVE  queue'[i].kind \notin Final /\ queue'[i].kind # "running"
  <2>1. i + 1 # 1 /\ ~(i + 1 < 1) /\ i + 1 \in DOMAIN queue /\ queue'[i] = queue[i + 1]
    BY <1>1
  <2> QED BY <1>1, <2>1 DEF Messages
<1>4. ~Outstanding'
  BY <1>2, <1>3 DEF Outstanding, Final
<1>5. Button'
  BY <1>4 DEF Button
<1>6. \A i, j \in DOMAIN queue' : i + 1 = j + 1 => i = j
  BY <1>1
<1>7. Messages'
  BY <1>1, <1>3, <1>6 DEF Messages
<1> QED BY <1>2, <1>5, <1>7

\* Every step keeps what a patient person sees.
LEMMA PatientKept ==
  ASSUME TypeInv, CountInv, WorkInv, PatientInv, [Next]_vars
  PROVE  PatientInv'
<1> SUFFICES ASSUME patient', open' PROVE Button' /\ Active' \subseteq {newest'} /\ Messages'
  BY DEF PatientInv
<1>0. /\ patient /\ open
      /\ Button /\ Active \subseteq {newest} /\ Messages
      /\ queue \in Seq(Msg) /\ WorkTypes
  BY StaysImpatient DEF PatientInv, TypeInv, TypeOK, WorkTypes
<1> DEFINE Goal == Button' /\ Active' \subseteq {newest'} /\ Messages'
<1>1. task' = task => Active' = Active
  BY DEF Active
<1>2. ASSUME UNCHANGED <<queue, newest, task, enabled, busy>> PROVE Goal
  BY <1>0, <1>1, <1>2 DEF Button, Messages, Outstanding
<1>3. ASSUME Aside \/ \E p \in Presses : Thread(p) PROVE Goal
  BY <1>2, <1>3, AsideFacts DEF Thread, ThreadConnect, ThreadIntrospect, ThreadRaises
<1>4. ASSUME PressPropose \/ PressAccept PROVE Goal
  <2>1. PICK kind \in {"propose", "accept"} :
          /\ queue' = Append(queue, Message(kind, 0))
          /\ kind = "propose" => enabled /\ Queued("propose") = {}
    BY <1>4 DEF PressPropose, PressAccept
  <2>2. UNCHANGED <<newest, task, enabled, busy>>
    BY <1>4 DEF PressPropose, PressAccept, workVars
  <2> DEFINE m == Message(kind, 0)
  <2>3. m \in Msg /\ m.kind = kind /\ queue' = Append(queue, m)
    BY <2>1, MessageTypes
  <2>4. m.kind = "propose" => enabled /\ \A i \in DOMAIN queue : queue[i].kind # "propose"
    BY <2>1, <2>3 DEF Queued
  <2>5. m.kind \notin Final /\ m.kind # "running"
    BY <2>3 DEF Final
  <2> HIDE DEF m
  <2> QED BY <1>0, <1>1, <2>2, <2>3, <2>4, <2>5, PatientPosted
<1>5. ASSUME NEW p \in Presses, StartTask(p) PROVE Goal
  <2>1. /\ task[p] = "pending" /\ task' = [task EXCEPT ![p] = "running"]
        /\ queue' = Append(queue, Message("running", p))
        /\ UNCHANGED <<newest, enabled, busy>>
    BY <1>5 DEF StartTask
  <2>2. Active' = Active /\ Active # {}
    BY <1>0, <2>1 DEF Active, WorkTypes
  <2>3. /\ Message("running", p) \in Msg /\ Message("running", p).kind = "running"
    BY MessageTypes
  <2>4. "running" \notin Final
    BY DEF Final
  <2> QED BY <1>0, <2>1, <2>2, <2>3, <2>4, PatientPosted
<1>6. ASSUME NEW p \in Presses, EndTask(p) PROVE Goal
  <2> DEFINE n == Len(queue) + 1
             m == Message(IF thread[p] = "returned" THEN "success" ELSE "error", p)
  <2>1. /\ task[p] = "running" /\ task' = [task EXCEPT ![p] = "ended"]
        /\ queue' = Append(queue, m)
        /\ UNCHANGED <<newest, enabled, busy>>
    BY <1>6 DEF EndTask
  <2>2. m \in Msg /\ m.kind \in Final /\ m.press = p
    BY MessageTypes DEF Final
  <2> HIDE DEF m
  <2>3. p = newest /\ Active # {} /\ Active' = {}
    <3>1. p \in Active
      BY <2>1 DEF Active
    <3>2. Active = {p}
      BY <1>0, <3>1
    <3>3. \A q \in Active' : q \in Active /\ q # p
      BY <1>0, <2>1 DEF Active, WorkTypes
    <3> QED BY <1>0, <3>1, <3>2, <3>3
  <2>4. /\ DOMAIN queue = 1..Len(queue) /\ Len(queue) \in Nat
        /\ DOMAIN queue' = 1..n
        /\ \A i \in DOMAIN queue : queue'[i] = queue[i]
        /\ queue'[n] = m
    BY <1>0, <2>1, <2>2, PostFacts
  <2>5. /\ \A i \in DOMAIN queue : i < n
        /\ \A i \in DOMAIN queue' : i \in DOMAIN queue \/ i = n
        /\ n \in DOMAIN queue'
    BY <2>4
  <2> HIDE DEF n
  <2>6. Outstanding /\ Outstanding'
    BY <2>2, <2>3, <2>4, <2>5 DEF Outstanding, Final
  <2>7. Button'
    BY <1>0, <2>1, <2>6 DEF Button
  <2>8. \A i \in DOMAIN queue : queue[i].kind \notin Final
    BY <1>0, <2>3 DEF Messages
  <2>9. m.kind # "propose" /\ m.kind # "running"
    BY <2>2 DEF Final
  <2>10. Messages'
    <3> SUFFICES ASSUME NEW i \in DOMAIN queue'
                 PROVE  /\ queue'[i].kind = "propose" => enabled
                        /\ queue'[i].kind \in Final => queue'[i].press = newest
                        /\ \A j \in DOMAIN queue' :
                             /\ queue'[i].kind = "propose" /\ queue'[j].kind = "propose" => i = j
                             /\ queue'[i].kind \in Final /\ queue'[j].kind \in Final => i = j
                             /\ queue'[i].kind = "running" /\ queue'[j].kind \in Final => i < j
      BY <2>1, <2>3, <2>6 DEF Messages
    <3>1. CASE i \in DOMAIN queue
      BY <1>0, <2>4, <2>5, <2>8, <2>9, <3>1 DEF Messages
    <3>2. CASE i = n
      BY <2>2, <2>3, <2>4, <2>5, <2>8, <2>9, <3>2
    <3> QED BY <2>5, <3>1, <3>2
  <2> QED BY <2>3, <2>7, <2>10
<1>7. ASSUME HandleProposeNowhere \/ HandleRunning \/ HandleAcceptInVain \/ HandleAccept
      PROVE  Goal
  <2>1. /\ queue # <<>> /\ queue' = Tail(queue)
        /\ UNCHANGED <<newest, enabled, task>>
        /\ Head(queue).kind \in {"propose", "running", "accept"}
        /\ busy' = busy \/ Head(queue).kind = "running"
    BY <1>7 DEF HandleProposeNowhere, HandleRunning, HandleAcceptInVain, HandleAccept,
                Received, workVars
  <2>2. Head(queue).kind \notin Final
    BY <2>1 DEF Final
  <2> QED BY <1>0, <1>1, <2>1, <2>2, PatientTaken
<1>8. ASSUME HandleFailure \/ HandleProposal PROVE Goal
  <2>1. /\ queue # <<>> /\ queue' = Tail(queue)
        /\ UNCHANGED <<newest, task>> /\ enabled' = TRUE /\ busy' = FALSE
        /\ Head(queue).kind \in {"cancelled", "error", "success"}
    BY <1>8 DEF HandleFailure, HandleProposal, Received, workVars
  <2>2. Head(queue).kind \in Final
    BY <2>1 DEF Final
  <2> QED BY <1>0, <1>1, <2>1, <2>2, PatientEnded
<1>9. ASSUME HandlePropose PROVE Goal
  <2>1. /\ queue # <<>> /\ Head(queue).kind = "propose"
        /\ newest' = newest + 1 /\ enabled' = FALSE
        /\ busy' = busy
    BY <1>9 DEF HandlePropose, Received
  <2>2. /\ DOMAIN queue = 1..Len(queue) /\ Len(queue) \in Nat
        /\ DOMAIN Tail(queue) = 1..Len(queue) - 1
        /\ \A i \in DOMAIN Tail(queue) : i + 1 \in DOMAIN queue /\ Tail(queue)[i] = queue[i + 1]
        /\ Head(queue) = queue[1] /\ 1 \in DOMAIN queue
    BY <1>0, <2>1, TakeFacts
  <2>3. enabled /\ ~Outstanding
    BY <1>0, <2>1, <2>2 DEF Messages, Button
  <2>4. Active = {} /\ \A i \in DOMAIN queue : queue[i].kind \notin Final
    BY <2>3, OutstandingFacts
  <2>5. queue' = Tail(queue)
    BY <1>9, <2>4, ProposePosts DEF Active
  <2>6. newest + 1 \in Presses
    <3>1. newest' \in 0..MaxPresses /\ newest \in 0..MaxPresses
      BY <1>0, WorkTypesKept DEF WorkTypes
    <3> QED BY <2>1, <3>1, ConfigureAssumption DEF Presses
  <2>7. Active' = {newest + 1}
    <3>1. \A q \in Presses : task'[q] = IF q = newest + 1 THEN "pending" ELSE task[q]
      BY <1>9, <2>4 DEF HandlePropose, Active
    <3> QED BY <2>4, <2>6, <3>1 DEF Active
  <2>8. Outstanding'
    BY <2>7 DEF Outstanding
  <2>9. ASSUME NEW i \in DOMAIN queue'
        PROVE  queue'[i].kind # "propose" /\ queue'[i].kind \notin Final
    <3>1. i + 1 # 1 /\ i + 1 \in DOMAIN queue /\ queue'[i] = queue[i + 1]
      BY <2>2, <2>5
    <3> QED BY <1>0, <2>1, <2>2, <2>4, <3>1 DEF Messages
  <2>10. Messages'
    BY <2>8, <2>9 DEF Messages
  <2> QED BY <2>1, <2>7, <2>8, <2>10 DEF Button
<1>10. ~Leave
  BY DEF Leave
<1> QED BY <1>3, <1>4, <1>5, <1>6, <1>7, <1>8, <1>9, <1>10
        DEF Next, Person, Handle, Dismiss, HandleProposalTwice, HandleAcceptRaises, Aside

\* The panels keep to the last press.
LEMMA PanelsKept ==
  ASSUME TypeInv, WorkInv, PatientInv, PanelsInv, [Next]_vars
  PROVE  PanelsInv'
<1> SUFFICES ASSUME patient', panels' # Nothing
             PROVE  /\ newest' \in Presses /\ thread'[newest'] = "returned"
                    /\ panels' = answer'[newest'] /\ panels' # Failed
  BY DEF PanelsInv
<1>0. /\ patient /\ queue \in Seq(Msg) /\ WorkTypes /\ WorkersInv /\ ReportsInv /\ GoneInv
      /\ panels # Nothing => /\ newest \in Presses /\ thread[newest] = "returned"
                             /\ panels = answer[newest] /\ panels # Failed
  BY StaysImpatient, WorkParts DEF PanelsInv, TypeInv, TypeOK, WorkTypes
<1> DEFINE Goal == /\ newest' \in Presses /\ thread'[newest'] = "returned"
                   /\ panels' = answer'[newest'] /\ panels' # Failed
<1>1. ASSUME UNCHANGED <<newest, answer, thread, panels>> PROVE Goal
  BY <1>0, <1>1
<1>2. ASSUME \/ Aside \/ PressPropose \/ PressAccept \/ HandleProposeNowhere \/ HandleRunning
             \/ HandleFailure \/ HandleAcceptInVain \/ HandleAccept
             \/ \E p \in Presses : EndTask(p)
      PROVE  Goal
  BY <1>1, <1>2, AsideFacts DEF PressPropose, PressAccept, HandleProposeNowhere, HandleRunning,
     HandleFailure, HandleAcceptInVain, HandleAccept, EndTask, workVars
<1>3. ASSUME NEW p \in Presses, StartTask(p) PROVE Goal
  <2>1. /\ thread' = [thread EXCEPT ![p] = "queued"] /\ task[p] = "pending"
        /\ UNCHANGED <<newest, answer, panels>>
    BY <1>3 DEF StartTask
  <2>2. thread[p] = "none"
    BY <1>0, <2>1 DEF WorkersInv
  <2> QED BY <1>0, <2>1, <2>2 DEF WorkTypes
<1>4. ASSUME NEW p \in Presses, Thread(p) PROVE Goal
  <2>1. /\ thread[p] \in {"queued", "connected"}
        /\ \E state : thread' = [thread EXCEPT ![p] = state]
        /\ answer' = answer \/ \E a : answer' = [answer EXCEPT ![p] = a]
        /\ UNCHANGED <<newest, panels>>
    BY <1>4 DEF Thread, ThreadConnect, ThreadIntrospect, ThreadRaises
  <2>2. /\ newest \in Presses /\ panels = answer[newest] /\ panels # Failed
        /\ thread[newest] = "returned" /\ p # newest
    BY <1>0, <2>1
  <2> QED BY <1>0, <2>1, <2>2 DEF WorkTypes
<1>5. ASSUME HandleProposal PROVE Goal
  <2>1. /\ queue # <<>> /\ Head(queue).kind = "success"
        /\ panels' = answer[Head(queue).press] /\ answer[Head(queue).press] # Failed
        /\ UNCHANGED <<newest, answer, thread>>
    BY <1>5 DEF HandleProposal, Received, workVars
  <2>2. Head(queue) = queue[1] /\ 1 \in DOMAIN queue /\ queue[1] \in Msg
    BY <1>0, <2>1, TakeFacts
  <2>3. queue[1].press \in Presses /\ thread[queue[1].press] = "returned"
    BY <1>0, <2>1, <2>2, MessageTypes DEF ReportsInv, Final
  <2>4. Messages
    BY <1>0, <2>1 DEF PatientInv, GoneInv
  <2>5. queue[1].press = newest
    BY <2>1, <2>2, <2>4 DEF Messages, Final
  <2> QED BY <2>1, <2>2, <2>3, <2>5
<1>6. ~HandlePropose /\ ~Leave
  BY DEF HandlePropose, Leave
<1> QED BY <1>2, <1>3, <1>4, <1>5, <1>6
        DEF Next, Person, Handle, Dismiss, HandleProposalTwice, HandleAcceptRaises, Aside

-----------------------------------------------------------------------------
(* What holds in every state.                                              *)

\* The inductive invariant.
THEOREM ScreenCorrect == Spec => []IInv
<1>1. Init => IInv
  <2> SUFFICES ASSUME Init PROVE IInv
    OBVIOUS
  <2>1. queue = <<>> /\ DOMAIN queue = {} /\ newest = 0 /\ newest \in 0..MaxPresses
    BY ConfigureAssumption DEF Init
  <2>2. TypeInv
    <3>1. Flags
      BY DEF Init, Flags
    <3>2. \A b \in {enabled, busy, parses, twice, open, patient} : b \in BOOLEAN
      BY <3>1, FlagsFacts
    <3> QED BY <2>1, <3>2 DEF Init, TypeInv, TypeOK
  <2>3. CountInv
    <3>1. Queued("propose") = {}
      BY <2>1 DEF Queued
    <3>2. Cardinality(Queued("propose")) = 0 /\ newest = 0
      BY <2>1, <3>1, FS_EmptySet
    <3>3. MaxPresses \in Nat
      BY ConfigureAssumption
    <3> QED BY <3>2, <3>3 DEF CountInv
  <2>4. Active = {} /\ ~Outstanding
    BY <2>1 DEF Init, Active, Outstanding
  <2>5. WorkInv
    BY <2>1, <2>4 DEF Init, WorkInv
  <2>6. PatientInv /\ PanelsInv
    BY <2>1, <2>4 DEF Init, PatientInv, PanelsInv, Button, Messages
  <2> QED BY <2>2, <2>3, <2>5, <2>6 DEF IInv
<1>2. IInv /\ [Next]_vars => IInv'
  BY TypesKept, WorkKept, PatientKept, PanelsKept DEF IInv
<1> QED BY <1>1, <1>2, PTL DEF Spec

\* The types hold, and for a person whose presses are handled one by one
\* Propose is enabled exactly when no worker is under way (ScreenInv).
THEOREM ProposeIsTruthful == Spec => []ScreenInv
<1>1. IInv => ScreenInv
  BY DEF IInv, TypeInv, PatientInv, Button, ScreenInv, ProposeMeansIdle
<1> QED BY <1>1, ScreenCorrect, PTL

\* Every box of a proposal is about the table it was asked for.
LEMMA ProposalFacts ==
  ASSUME NEW table, NEW info, NEW entered
  PROVE  LET a == Found(table, info, entered)
         IN  /\ a.table = table
             /\ \A b \in a.proposed \cup a.offered : b.table = table
             /\ a.proposed \cap a.offered = {}
<1> DEFINE proposed == ProposeChecks(table, info, entered)
           offered == OfferedColumnChecks(table, info, proposed)
<1>1. \A metric, column : Block(table, metric, column).table = table
  BY DEF Block
<1>2. \A b \in proposed : b.table = table
  BY <1>1 DEF ProposeChecks
<1>3. \A c : \A b \in Offers(table, c) : b.table = table
  BY <1>1 DEF Offers
<1>4. \A b \in offered : b \notin proposed /\ \E c \in info.columns : b \in Offers(table, c)
  <2> SUFFICES ASSUME NEW b \in offered
               PROVE  b \notin proposed /\ \E c \in info.columns : b \in Offers(table, c)
    OBVIOUS
  <2>1. b \in (UNION {Offers(table, c) : c \in info.columns}) \ proposed
    BY DEF OfferedColumnChecks
  <2>2. b \notin proposed /\ b \in UNION {Offers(table, c) : c \in info.columns}
    BY <2>1
  <2>3. \E c \in info.columns : b \in Offers(table, c)
    BY <2>2, Zenon
  <2> QED BY <2>2, <2>3
<1>6. (\A b \in offered : b.table = table) /\ proposed \cap offered = {}
  <2> HIDE DEF proposed, offered
  <2> QED BY <1>3, <1>4
<1>5. /\ Found(table, info, entered).table = table
      /\ Found(table, info, entered).proposed = proposed
      /\ Found(table, info, entered).offered = offered
  BY DEF Found
<1> HIDE DEF proposed, offered
<1> QED BY <1>2, <1>5, <1>6

\* The panels show the outcome of the last press and of no other, about the
\* table it was made for, and no check twice (PanelsAnswerLastPress).
THEOREM PanelsAreTheLastAnswer == Spec => []PanelsAnswerLastPress
<1>1. IInv => PanelsAnswerLastPress
  <2> SUFFICES ASSUME IInv, patient, panels # Nothing
               PROVE  /\ panels = answer[newest]
                      /\ panels.table = asked[newest].table
                      /\ \A b \in panels.proposed \cup panels.offered : b.table = panels.table
                      /\ panels.proposed \cap panels.offered = {}
    BY DEF PanelsAnswerLastPress
  <2>1. panels = answer[newest] /\ panels # Failed /\ Answers(answer[newest], asked[newest])
    BY DEF IInv, PanelsInv, WorkInv
  <2>2. \E info : panels = Found(asked[newest].table, info, asked[newest].entered)
    BY <2>1 DEF Answers
  <2> QED BY <2>1, <2>2, ProposalFacts
<1> QED BY <1>1, ScreenCorrect, PTL
=============================================================================
