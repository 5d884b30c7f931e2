-------------------------- MODULE RunEventsProofs ----------------------------
(***************************************************************************)
(* Proofs about RunEvents, for any number of viewers and any number of     *)
(* cases of an eval run.                                                   *)
(***************************************************************************)
EXTENDS RunEvents, SequenceTheorems, TLAPS

USE KindAssumption, CasesAssumption

Stages == {"input_scan", "retrieval", "eligibility", "triage", "draft_generation",
           "output_scan", "eval_case"}
Statuses == {"started", "completed", "failed", "blocked"}
Events == [stage : Stages, status : Statuses, case : Nat]

LEMMA EventsAre ==
  /\ \A stage \in Stages, status \in Statuses : Stage(stage, status) \in Events
  /\ \A i \in Nat, status \in Statuses : Case(i, status) \in Events
BY DEF Stage, Case, Event, Events, Stages

LEMMA FinishedIs ==
  ASSUME NEW stages \in Seq(Stages) PROVE Finished(stages) \in Seq(Events)
<1> DEFINE f(i) == Stage(stages[(i + 1) \div 2], IF i % 2 = 1 THEN "started" ELSE "completed")
<1>1. Len(stages) \in Nat
  OBVIOUS
<1>2. ASSUME NEW i \in 1 .. 2 * Len(stages) PROVE f(i) \in Events
  <2>1. (i + 1) \div 2 \in 1 .. Len(stages)
    BY <1>1
  <2>2. stages[(i + 1) \div 2] \in Stages
    BY <2>1
  <2>3. QED
    BY <2>2, EventsAre DEF Statuses
<1> HIDE DEF f
<1>3. [i \in 1 .. 2 * Len(stages) |-> f(i)] \in Seq(Events)
  BY <1>1, <1>2
<1>4. QED
  BY <1>3 DEF Finished, f

LEMMA PlansAreSequences == ASSUME kind \in Kind, NEW plan \in Plans PROVE plan \in Seq(Events)
<1>1. CASE plan \in TriagePlans
  <2>1. <<"input_scan">> \in Seq(Stages)
    BY DEF Stages
  <2>2. Finished(<<"input_scan">>) \in Seq(Events)
    BY <2>1, FinishedIs
  <2>3. PICK result \in {"completed", "failed"} :
          plan = Finished(<<"input_scan">>) \o <<Stage("triage", "started"), Stage("triage", result)>>
    BY <1>1 DEF TriagePlans
  <2>4. <<Stage("triage", "started"), Stage("triage", result)>> \in Seq(Events)
    BY EventsAre DEF Stages, Statuses
  <2>5. QED
    BY <2>2, <2>3, <2>4, ConcatProperties
<1>2. CASE plan \in DraftPlans
  <2> DEFINE begun == Finished(<<"input_scan", "retrieval", "eligibility">>)
             sofar == begun \o <<Stage("draft_generation", "started")>>
  <2>1. <<"input_scan", "retrieval", "eligibility">> \in Seq(Stages)
    BY DEF Stages
  <2>2. begun \in Seq(Events)
    BY <2>1, FinishedIs
  <2>3. <<Stage("draft_generation", "started")>> \in Seq(Events)
    BY EventsAre DEF Stages, Statuses
  <2> HIDE DEF begun
  <2>4. sofar \in Seq(Events)
    BY <2>2, <2>3, ConcatProperties
  <2>5. PICK tail \in Seq(Events) : plan = sofar \o tail
    <3>1. <<Stage("draft_generation", "failed")>> \in Seq(Events)
      BY EventsAre DEF Stages, Statuses
    <3>2. ASSUME NEW verdict \in {"completed", "blocked"}
          PROVE  <<Stage("draft_generation", "completed"), Stage("output_scan", "started"),
                   Stage("output_scan", verdict)>> \in Seq(Events)
      BY EventsAre DEF Stages, Statuses
    <3>3. QED
      BY <1>2, <3>1, <3>2 DEF DraftPlans, begun
  <2> HIDE DEF sofar
  <2>6. QED
    BY <2>4, <2>5, ConcatProperties
<1>3. CASE plan \in EvalPlans
  <2> DEFINE f(i) == Case((i + 1) \div 2, IF i % 2 = 1 THEN "started" ELSE "completed")
             done(n) == [i \in 1 .. 2 * n |-> f(i)]
  <2>1. ASSUME NEW n \in Nat PROVE done(n) \in Seq(Events)
    <3>1. ASSUME NEW i \in 1 .. 2 * n PROVE f(i) \in Events
      <4>1. (i + 1) \div 2 \in Nat
        OBVIOUS
      <4>2. QED
        BY <4>1, EventsAre DEF Statuses
    <3> HIDE DEF f
    <3>2. QED
      BY <3>1
  <2>2. ASSUME NEW n \in 0 .. Cases - 1
        PROVE  done(n) \o <<Case(n + 1, "started"), Case(n + 1, "failed")>> \in Seq(Events)
    <3>1. n \in Nat /\ <<Case(n + 1, "started"), Case(n + 1, "failed")>> \in Seq(Events)
      BY EventsAre DEF Stages, Statuses
    <3> HIDE DEF done
    <3>2. QED
      BY <2>1, <3>1, ConcatProperties
  <2>3. \/ plan = done(Cases)
        \/ \E n \in 0 .. Cases - 1 : plan = done(n) \o <<Case(n + 1, "started"), Case(n + 1, "failed")>>
    BY <1>3 DEF EvalPlans
  <2> HIDE DEF done
  <2>4. QED
    BY <2>1, <2>2, <2>3
<1>4. QED
  BY <1>1, <1>2, <1>3 DEF Plans

LEMMA SomePlan == ASSUME kind \in Kind PROVE Plans # {}
<1>1. TriagePlans # {} /\ DraftPlans # {} /\ EvalPlans # {}
  BY DEF TriagePlans, DraftPlans, EvalPlans
<1>2. QED
  BY <1>1 DEF Plans

LEMMA PrefixGrows ==
  ASSUME NEW S, NEW s \in Seq(S), NEW t \in Seq(S), IsPrefix(s, t), Len(t) > Len(s)
  PROVE  IsPrefix(Append(s, t[Len(s) + 1]), t)
<1>1. PICK x \in S : x = t[Len(s) + 1]
  OBVIOUS
<1>2. Append(s, x) \in Seq(S) /\ Len(Append(s, x)) = Len(s) + 1
  BY AppendProperties
<1>3. ASSUME NEW i \in 1 .. Len(s) + 1 PROVE Append(s, x)[i] = t[i]
  <2>1. CASE i \in 1 .. Len(s)
    BY <2>1, AppendProperties DEF IsPrefix
  <2>2. CASE i = Len(s) + 1
    BY <1>1, <2>2, AppendProperties
  <2>3. QED
    BY <2>1, <2>2
<1>4. SubSeq(Append(s, x), 1, Len(s) + 1) = SubSeq(t, 1, Len(s) + 1)
  BY <1>2, <1>3
<1>5. QED
  BY <1>1, <1>2, <1>4 DEF IsPrefix

\* ----- the inductive invariant -------------------------------------------
\* A row that says the run is over was written after its last event.
RowIsLast == row = "done" => run = "over" /\ stored \in Plans

\* Position i of a stream with the server's record st: its replay, then what was
\* told from the moment the replay was written.
SentAt(st, i) == IF i \in 1 .. st.events THEN i ELSE st.from + (i - st.events)

\* What was written to a stream: nothing before the answer, then the replay, then
\* the events in turn.  It listens only while its row is open, and what it was
\* told last is what was published last.
StreamOk(st, s) ==
  /\ st.at \in {"idle", "asked", "read", "refused"} => s = << >> /\ ~st.listening
  /\ st.at \in {"open", "closed"} =>
       /\ st.events <= Len(s) /\ st.events <= st.from + 1
       /\ \A i \in 1 .. Len(s) : s[i] = SentAt(st, i)
       /\ st.listening => st.row # "done" /\ st.from + (Len(s) - st.events) = published
       /\ st.row = "done" => Len(s) = st.events
  /\ st.events <= published + 1
  /\ st.row = "done" => row = "done"
  /\ kind # "eval" /\ st.at \in {"read", "open", "closed"} /\ st.row = "done"
       => st.events = Len(stored)

StreamSet(n, told) ==
  [at : At, gone : BOOLEAN, row : {"absent", "pending", "done"},
   events : 0 .. n, from : 0 .. told, listening : BOOLEAN, ended : BOOLEAN]

IInv ==
  /\ TypeOK /\ stored \in Seq(Events) /\ RowIsLast
  /\ \A v \in Viewer : StreamOk(stream[v], sent[v])

LEMMA Typed ==
  ASSUME IInv
  PROVE  /\ kind \in Kind /\ stored \in Seq(Events) /\ Len(stored) \in Nat /\ published \in Nat
         /\ published <= Len(stored) /\ Len(stored) <= published + 1
         /\ stream \in [Viewer -> StreamSet(Len(stored), published)]
         /\ sent \in [Viewer -> Seq(1 .. Len(stored))] /\ got \in [Viewer -> Nat]
         /\ \A v \in Viewer : got[v] <= Len(sent[v]) /\ Len(sent[v]) \in Nat
<1>1. stored \in Seq(Events) /\ Len(stored) \in Nat
  BY DEF IInv
<1>2. published \in Nat /\ published <= Len(stored) /\ Len(stored) <= published + 1
  BY <1>1 DEF IInv, TypeOK
<1>3. \A v \in Viewer : Len(sent[v]) \in Nat
  <2>1. \A v \in Viewer : sent[v] \in Seq(1 .. Len(stored))
    BY DEF IInv, TypeOK
  <2>2. QED
    BY <2>1
<1>4. QED
  BY <1>1, <1>2, <1>3 DEF IInv, TypeOK, StreamSet

LEMMA InitIInv == Init => IInv
<1> SUFFICES ASSUME Init PROVE IInv
  OBVIOUS
<1>1. stored = << >> /\ Len(stored) = 0 /\ stored \in Seq(Events) /\ kind \in Kind
  BY DEF Init
<1>2. \E plan \in Plans : IsPrefix(stored, plan)
  <2>1. PICK plan \in Plans : TRUE
    BY <1>1, SomePlan
  <2>2. plan \in Seq(Events)
    BY <1>1, PlansAreSequences
  <2>3. Len(plan) \in Nat /\ SubSeq(stored, 1, 0) = SubSeq(plan, 1, 0)
    BY <1>1, <2>2
  <2>4. QED
    BY <1>1, <2>3 DEF IsPrefix
<1>3. TypeOK
  BY <1>1, <1>2 DEF Init, TypeOK, NoStream, At
<1>4. ASSUME NEW v \in Viewer PROVE StreamOk(stream[v], sent[v])
  BY <1>1 DEF Init, StreamOk, NoStream
<1>5. RowIsLast
  BY DEF Init, RowIsLast
<1>6. QED
  BY <1>1, <1>3, <1>4, <1>5 DEF IInv

\* ----- the run -----------------------------------------------------------
LEMMA PersistKeeps == ASSUME IInv, Persist PROVE IInv'
<1>1. /\ run = "running" /\ published = Len(stored)
      /\ UNCHANGED <<kind, published, run, row, stream, sent, got>>
  BY DEF Persist
<1>2. PICK plan \in Plans :
        /\ Len(plan) > Len(stored) /\ IsPrefix(stored, plan)
        /\ stored' = Append(stored, plan[Len(stored) + 1])
  BY DEF Persist
<1>3. plan \in Seq(Events) /\ plan \in Plans'
  BY <1>1, <1>2, Typed, PlansAreSequences DEF Plans
<1>4. IsPrefix(stored', plan)
  BY <1>2, <1>3, Typed, PrefixGrows
<1>5. stored' \in Seq(Events) /\ Len(stored') = Len(stored) + 1
  <2>1. plan[Len(stored) + 1] \in Events
    BY <1>2, <1>3, Typed
  <2>2. QED
    BY <1>2, <2>1, Typed, AppendProperties
<1>6. TypeOK'
  <2>1. /\ StreamSet(Len(stored), published) \subseteq StreamSet(Len(stored'), published')
        /\ 1 .. Len(stored) \subseteq 1 .. Len(stored')
    BY <1>1, <1>5, Typed DEF StreamSet
  <2>2. /\ stream' \in [Viewer -> StreamSet(Len(stored'), published')]
        /\ sent' \in [Viewer -> Seq(1 .. Len(stored'))]
    <3>1. ASSUME NEW v \in Viewer PROVE sent[v] \in Seq(1 .. Len(stored'))
      <4>1. sent[v] \in Seq(1 .. Len(stored))
        BY Typed
      <4>2. /\ Len(sent[v]) \in Nat /\ sent[v] = [i \in 1 .. Len(sent[v]) |-> sent[v][i]]
            /\ \A i \in 1 .. Len(sent[v]) : sent[v][i] \in 1 .. Len(stored')
        BY <2>1, <4>1
      <4>3. QED
        BY <4>2
    <3>2. QED
      BY <1>1, <2>1, <3>1, Typed
  <2>3. published' \in {Len(stored'), Len(stored') - 1} \cap Nat
    BY <1>1, <1>5, Typed
  <2>4. \E pl \in Plans' : IsPrefix(stored', pl)
    BY <1>3, <1>4
  <2>5. QED
    BY <1>1, <2>2, <2>3, <2>4 DEF IInv, TypeOK, StreamSet
<1>7. row # "done"
  BY <1>1 DEF IInv, RowIsLast
<1>8. ASSUME NEW v \in Viewer PROVE StreamOk(stream[v], sent[v])'
  BY <1>1, <1>7 DEF IInv, StreamOk, SentAt
<1>9. QED
  BY <1>1, <1>5, <1>6, <1>7, <1>8 DEF IInv, RowIsLast

LEMMA OneFurther ==
  ASSUME NEW from \in Nat, NEW n \in Nat, NEW e \in Nat, NEW told \in Nat, NEW more \in Nat,
         e <= n, from + (n - e) = told, more = n + 1
  PROVE  e <= more /\ from + (more - e) = told + 1
OBVIOUS

LEMMA PublishKeeps == ASSUME IInv, Publish PROVE IInv'
<1> DEFINE k == published + 1
           Told(v) == stream[v].listening
<1>1. /\ run = "running" /\ published < Len(stored) /\ published' = k
      /\ UNCHANGED <<kind, stored, run, row, got>>
      /\ sent' = [v \in Viewer |-> IF Told(v) THEN Append(sent[v], k) ELSE sent[v]]
  BY DEF Publish
<1>2. \A v \in Viewer :
        stream'[v] = IF Told(v) /\ IsTerminalEvent(stored[k])
                     THEN [stream[v] EXCEPT !.listening = FALSE, !.ended = TRUE]
                     ELSE stream[v]
  BY DEF Publish
<1>3. ASSUME NEW v \in Viewer
      PROVE  /\ stream'[v] \in StreamSet(Len(stored), published')
             /\ stream'[v].at = stream[v].at /\ stream'[v].row = stream[v].row
             /\ stream'[v].events = stream[v].events /\ stream'[v].from = stream[v].from
             /\ stream'[v].listening => Told(v)
  <2>1. stream[v] \in StreamSet(Len(stored), published)
    BY Typed
  <2>2. 0 .. published \subseteq 0 .. published'
    BY <1>1, Typed
  <2>3. stream[v] \in StreamSet(Len(stored), published')
    BY <2>1, <2>2 DEF StreamSet
  <2>4. QED
    BY <1>2, <2>3 DEF StreamSet
<1>4. k \in 1 .. Len(stored) /\ k \in Nat
  BY <1>1, Typed
<1>5. ASSUME NEW v \in Viewer, Told(v)
      PROVE  /\ sent'[v] \in Seq(1 .. Len(stored)) /\ Len(sent'[v]) = Len(sent[v]) + 1
             /\ \A i \in 1 .. Len(sent[v]) : sent'[v][i] = sent[v][i]
             /\ sent'[v][Len(sent[v]) + 1] = k
  <2>1. sent[v] \in Seq(1 .. Len(stored)) /\ sent'[v] = Append(sent[v], k)
    BY <1>1, <1>5, Typed
  <2>2. QED
    BY <1>4, <2>1, AppendProperties
<1> HIDE DEF k
<1>6. TypeOK'
  <2>1. stream' \in [Viewer -> StreamSet(Len(stored), published')]
    BY <1>3 DEF Publish
  <2>2. sent' \in [Viewer -> Seq(1 .. Len(stored))]
    BY <1>1, <1>5, Typed
  <2>3. published' \in {Len(stored), Len(stored) - 1} \cap Nat
    BY <1>1, <1>4, Typed DEF k
  <2>4. \A v \in Viewer : got[v] <= Len(sent'[v])
    BY <1>1, <1>5, Typed
  <2>5. Plans' = Plans
    BY <1>1 DEF Plans
  <2>6. QED
    BY <1>1, <2>1, <2>2, <2>3, <2>4, <2>5 DEF IInv, TypeOK, StreamSet
<1>7. ASSUME NEW v \in Viewer PROVE StreamOk(stream[v], sent[v])'
  <2>1. StreamOk(stream[v], sent[v]) /\ published' = published + 1 /\ UNCHANGED <<kind, stored, row>>
        /\ Len(sent[v]) \in Nat /\ stream[v].events \in Nat /\ published \in Nat
        /\ stream[v].from \in Nat
    BY <1>1, Typed DEF IInv, k, StreamSet
  <2>2. /\ stream'[v].at = stream[v].at /\ stream'[v].row = stream[v].row
        /\ stream'[v].events = stream[v].events /\ stream'[v].from = stream[v].from
        /\ (stream'[v].listening => Told(v))
    BY <1>3
  <2>3. CASE ~Told(v)
    <3>1. sent'[v] = sent[v] /\ ~stream'[v].listening
      BY <1>1, <2>2, <2>3
    <3>2. QED
      BY <2>1, <2>2, <3>1 DEF StreamOk, SentAt
  <2>4. CASE Told(v)
    <3> DEFINE n == Len(sent[v])
               e == stream[v].events
    <3>1. /\ Len(sent'[v]) = n + 1 /\ \A i \in 1 .. n : sent'[v][i] = sent[v][i]
          /\ sent'[v][n + 1] = published + 1
      BY <1>5, <2>4 DEF k
    <3>2. stream[v].at \in {"open", "closed"} /\ stream[v].row # "done" /\ e <= n
      <4>1. stream[v].at \in At
        BY Typed DEF StreamSet
      <4>2. QED
        BY <2>1, <2>4, <4>1 DEF StreamOk, At
    <3>3. ASSUME NEW i \in 1 .. n + 1 PROVE sent'[v][i] = SentAt(stream[v], i)
      <4>1. CASE i = n + 1
        <5>1. stream[v].from + (n - e) = published
          BY <2>1, <2>4, <3>2 DEF StreamOk
        <5>2. i \notin 1 .. e /\ stream[v].from + (i - e) = published + 1
          BY <2>1, <3>2, <4>1, <5>1
        <5>3. QED
          BY <3>1, <4>1, <5>2 DEF SentAt
      <4>2. CASE i # n + 1
        <5>1. i \in 1 .. n
          BY <2>1, <3>3, <4>2
        <5>2. sent[v][i] = SentAt(stream[v], i)
          BY <2>1, <3>2, <5>1 DEF StreamOk
        <5>3. QED
          BY <3>1, <5>1, <5>2
      <4>3. QED
        BY <4>1, <4>2
    <3>4. \A i \in 1 .. Len(sent'[v]) : sent'[v][i] = SentAt(stream'[v], i)
      BY <2>2, <3>1, <3>3 DEF SentAt
    <3>5. /\ e <= Len(sent'[v]) /\ e <= stream[v].from + 1
          /\ stream[v].from + (Len(sent'[v]) - e) = published + 1
      <4>1. e <= stream[v].from + 1 /\ stream[v].from + (n - e) = published
        BY <2>1, <2>4, <3>2 DEF StreamOk
      <4>2. e <= n /\ n \in Nat /\ e \in Nat /\ Len(sent'[v]) = n + 1 /\ n + 1 \in Nat
        BY <2>1, <3>1, <3>2
      <4> HIDE DEF n, e
      <4>3. PICK m \in Nat, d \in Nat, from \in Nat, told \in Nat, more \in Nat :
              /\ m = n /\ d = e /\ from = stream[v].from /\ told = published
              /\ more = Len(sent'[v])
        BY <2>1, <4>2
      <4>4. d <= m /\ from + (m - d) = told /\ more = m + 1
        BY <4>1, <4>2, <4>3
      <4>5. d <= more /\ from + (more - d) = told + 1
        BY <4>4, OneFurther
      <4>6. QED
        BY <4>1, <4>3, <4>5
    <3>6. stream[v].events <= published + 1
      BY <2>1 DEF StreamOk
    <3>7. QED
      <4>1. /\ stream'[v].at \in {"open", "closed"} /\ stream'[v].row # "done"
            /\ stream'[v].events <= Len(sent'[v]) /\ stream'[v].events <= stream'[v].from + 1
            /\ stream'[v].from + (Len(sent'[v]) - stream'[v].events) = published'
        BY <2>1, <2>2, <3>1, <3>2, <3>5
      <4>2. stream'[v].events <= published' + 1
        BY <2>1, <2>2, <3>6
      <4>3. QED
        BY <3>4, <4>1, <4>2 DEF StreamOk, SentAt
  <2>5. QED
    BY <2>3, <2>4
<1>8. RowIsLast'
  BY <1>1 DEF IInv, RowIsLast, Plans
<1>9. QED
  BY <1>1, <1>6, <1>7, <1>8 DEF IInv

\* The actions of the run that write no event and touch no stream.
LEMMA RunKeeps == ASSUME IInv, StartEval \/ Begin \/ Complete \/ Throw PROVE IInv'
<1>1. UNCHANGED <<kind, stored, published, stream, sent, got>>
  BY DEF StartEval, Begin, Complete, Throw
<1>2. Plans' = Plans
  BY <1>1 DEF Plans
<1>3. /\ run' \in {"starting", "running", "over", "dead"}
      /\ row' \in {"absent", "pending", "done"}
      /\ row = "done" => row' = "done"
      /\ row' = "done" => run' = "over" /\ stored \in Plans
  <2>1. CASE StartEval
    BY <2>1 DEF StartEval, IInv, TypeOK
  <2>2. CASE Begin
    BY <2>2 DEF Begin, IInv, TypeOK, RowIsLast
  <2>3. CASE Complete
    BY <2>3 DEF Complete
  <2>4. CASE Throw
    BY <2>4 DEF Throw, IInv, TypeOK, RowIsLast
  <2>5. QED
    BY <2>1, <2>2, <2>3, <2>4
<1>4. TypeOK'
  BY <1>1, <1>2, <1>3 DEF IInv, TypeOK
<1>5. ASSUME NEW v \in Viewer PROVE StreamOk(stream[v], sent[v])'
  BY <1>1, <1>3 DEF IInv, StreamOk, SentAt
<1>6. QED
  BY <1>1, <1>2, <1>3, <1>4, <1>5 DEF IInv, RowIsLast

\* ----- a step of one viewer ----------------------------------------------
\* A step that leaves the run alone and changes at most one viewer's stream
\* keeps the invariant when the stream it makes is in order.
LEMMA ViewerKeeps ==
  ASSUME IInv, NEW v \in Viewer, NEW st \in StreamSet(Len(stored), published),
         NEW s \in Seq(1 .. Len(stored)), NEW g \in Nat, g <= Len(s), StreamOk(st, s),
         UNCHANGED <<kind, stored, published, run, row>>,
         stream' = [stream EXCEPT ![v] = st], sent' = [sent EXCEPT ![v] = s],
         got' = [got EXCEPT ![v] = g]
  PROVE  IInv'
<1>1. Plans' = Plans
  BY DEF Plans
<1>2. /\ stream' \in [Viewer -> StreamSet(Len(stored), published)]
      /\ sent' \in [Viewer -> Seq(1 .. Len(stored))] /\ got' \in [Viewer -> Nat]
  BY Typed
<1>3. \A w \in Viewer : \/ w = v /\ stream'[w] = st /\ sent'[w] = s /\ got'[w] = g
                        \/ stream'[w] = stream[w] /\ sent'[w] = sent[w] /\ got'[w] = got[w]
  <2>1. DOMAIN stream = Viewer /\ DOMAIN sent = Viewer /\ DOMAIN got = Viewer
    BY Typed
  <2>2. ASSUME NEW w \in Viewer, w = v PROVE stream'[w] = st /\ sent'[w] = s /\ got'[w] = g
    BY <2>1, <2>2
  <2>3. ASSUME NEW w \in Viewer, w # v
        PROVE  stream'[w] = stream[w] /\ sent'[w] = sent[w] /\ got'[w] = got[w]
    BY <2>1, <2>3
  <2>4. QED
    BY <2>2, <2>3
<1>4. \A w \in Viewer : got'[w] <= Len(sent'[w])
  BY <1>3, Typed
<1>5. TypeOK'
  BY <1>1, <1>2, <1>4 DEF IInv, TypeOK, StreamSet
<1>6. ASSUME NEW w \in Viewer PROVE StreamOk(stream[w], sent[w])'
  <2>1. StreamOk(stream'[w], sent'[w])
    BY <1>3 DEF IInv
  <2>2. QED
    BY <2>1 DEF StreamOk, SentAt
<1>7. QED
  BY <1>1, <1>5, <1>6 DEF IInv, RowIsLast

LEMMA OpenKeeps == ASSUME IInv, NEW v \in Viewer, Open(v) PROVE IInv'
<1> DEFINE st == [(IF RowFirst THEN ReadRow(v) ELSE ReadEvents(v)) EXCEPT !.at = "asked"]
<1>1. /\ stream[v] \in StreamSet(Len(stored), published) /\ stream[v].at = "idle"
      /\ sent[v] \in Seq(1 .. Len(stored)) /\ got[v] \in Nat /\ got[v] <= Len(sent[v])
      /\ StreamOk(stream[v], sent[v])
  BY Typed DEF Open, IInv
<1>2. row \in {"absent", "pending", "done"} /\ Len(stored) <= published + 1
  BY Typed DEF IInv, TypeOK
<1>3. st \in StreamSet(Len(stored), published)
  <2>1. ReadRow(v) \in StreamSet(Len(stored), published)
    BY <1>1, <1>2 DEF ReadRow, StreamSet
  <2>2. ReadEvents(v) \in StreamSet(Len(stored), published)
    <3>1. Len(stored) \in 0 .. Len(stored)
      BY Typed
    <3>2. QED
      BY <1>1, <3>1 DEF ReadEvents, StreamSet
  <2>3. QED
    BY <2>1, <2>2 DEF StreamSet, At
<1>4. StreamOk(st, sent[v])
  BY <1>1, <1>2, Typed DEF ReadRow, ReadEvents, StreamSet, StreamOk
<1> HIDE DEF st
<1>5. /\ UNCHANGED <<kind, stored, published, run, row>> /\ stream' = [stream EXCEPT ![v] = st]
      /\ sent' = [sent EXCEPT ![v] = sent[v]] /\ got' = [got EXCEPT ![v] = got[v]]
  BY Typed DEF Open, st
<1>6. QED
  BY <1>1, <1>3, <1>4, <1>5, ViewerKeeps

LEMMA ReadOtherKeeps == ASSUME IInv, NEW v \in Viewer, ReadOther(v) PROVE IInv'
<1> DEFINE st == [(IF RowFirst THEN ReadEvents(v) ELSE ReadRow(v)) EXCEPT !.at = "read"]
<1>1. /\ stream[v] \in StreamSet(Len(stored), published) /\ stream[v].at = "asked"
      /\ sent[v] \in Seq(1 .. Len(stored)) /\ got[v] \in Nat /\ got[v] <= Len(sent[v])
      /\ StreamOk(stream[v], sent[v])
  BY Typed DEF ReadOther, IInv
<1>2. row \in {"absent", "pending", "done"} /\ Len(stored) <= published + 1
  BY Typed DEF IInv, TypeOK
<1>3. st \in StreamSet(Len(stored), published)
  <2>1. ReadRow(v) \in StreamSet(Len(stored), published)
    BY <1>1, <1>2 DEF ReadRow, StreamSet
  <2>2. ReadEvents(v) \in StreamSet(Len(stored), published)
    <3>1. Len(stored) \in 0 .. Len(stored)
      BY Typed
    <3>2. QED
      BY <1>1, <3>1 DEF ReadEvents, StreamSet
  <2>3. QED
    BY <2>1, <2>2 DEF StreamSet, At
<1>4. StreamOk(st, sent[v])
  BY <1>1, <1>2, Typed DEF ReadRow, ReadEvents, StreamSet, StreamOk, RowFirst
<1> HIDE DEF st
<1>5. /\ UNCHANGED <<kind, stored, published, run, row>> /\ stream' = [stream EXCEPT ![v] = st]
      /\ sent' = [sent EXCEPT ![v] = sent[v]] /\ got' = [got EXCEPT ![v] = got[v]]
  BY Typed DEF ReadOther, st
<1>6. QED
  BY <1>1, <1>3, <1>4, <1>5, ViewerKeeps

LEMMA AnswerKeeps == ASSUME IInv, NEW v \in Viewer, Answer(v) PROVE IInv'
<1>1. /\ stream[v] \in StreamSet(Len(stored), published) /\ stream[v].at = "read"
      /\ sent[v] \in Seq(1 .. Len(stored)) /\ got[v] \in Nat /\ got[v] <= Len(sent[v])
      /\ StreamOk(stream[v], sent[v])
  BY Typed DEF Answer, IInv
<1>2. /\ UNCHANGED <<kind, stored, published, run, row>>
      /\ got' = [got EXCEPT ![v] = got[v]] /\ sent[v] = << >> /\ got[v] = 0
  BY <1>1, Typed DEF Answer, StreamOk
<1>3. CASE NotFound(v)
  <2> DEFINE st == [stream[v] EXCEPT !.at = "refused"]
  <2>1. st \in StreamSet(Len(stored), published) /\ StreamOk(st, sent[v])
    BY <1>1, <1>2 DEF StreamSet, StreamOk, At
  <2>2. stream' = [stream EXCEPT ![v] = st] /\ sent' = [sent EXCEPT ![v] = sent[v]]
    BY <1>3, Typed DEF Answer
  <2> HIDE DEF st
  <2>3. QED
    BY <1>1, <1>2, <2>1, <2>2, ViewerKeeps
<1>4. CASE ~NotFound(v)
  <2> DEFINE st == [stream[v] EXCEPT !.at = Opened(v), !.from = published,
                                     !.ended = RowIsFinal(v), !.listening = ~RowIsFinal(v)]
             s == [i \in 1 .. stream[v].events |-> i]
  <2>1. stream[v].events \in 0 .. Len(stored) /\ Len(stored) \in Nat
    BY <1>1, Typed DEF StreamSet
  <2>2. /\ s \in Seq(1 .. Len(stored)) /\ Len(s) = stream[v].events
        /\ \A i \in 1 .. stream[v].events : s[i] = i
    BY <2>1
  <2>3. /\ st \in StreamSet(Len(stored), published) /\ st.at \in {"open", "closed"}
        /\ st.events = stream[v].events /\ st.row = stream[v].row
        /\ st.from = published /\ (st.listening => st.row # "done")
    <3>1. published \in 0 .. published
      BY Typed
    <3>2. Opened(v) \in {"open", "closed"} /\ RowIsFinal(v) \in BOOLEAN
      BY DEF Opened, RowIsFinal
    <3>3. st \in StreamSet(Len(stored), published)
      BY <1>1, <3>1, <3>2 DEF StreamSet, At
    <3>4. QED
      BY <1>1, <3>2, <3>3 DEF StreamSet, RowIsFinal
  <2>4. << >> \o s = s
    BY <2>2, ConcatEmptySeq
  <2>5. sent' = [sent EXCEPT ![v] = s] /\ stream' = [stream EXCEPT ![v] = st]
    BY <1>2, <1>4, <2>4, Typed DEF Answer
  <2> HIDE DEF st, s
  <2>6. StreamOk(st, s)
    <3>1. st.events \in Nat /\ st.from \in Nat /\ published \in Nat
      BY <2>1, <2>3, Typed
    <3>2. /\ st.events <= published + 1 /\ (st.row = "done" => row = "done")
          /\ (kind # "eval" /\ st.row = "done" => st.events = Len(stored))
      BY <1>1, <2>3 DEF StreamOk
    <3>3. \A i \in 1 .. Len(s) : s[i] = SentAt(st, i)
      BY <2>2, <2>3 DEF SentAt
    <3>4. QED
      BY <2>2, <2>3, <3>1, <3>2, <3>3 DEF StreamOk
  <2>7. got[v] \in Nat /\ got[v] <= Len(s)
    BY <1>1, <1>2, <2>1, <2>2
  <2>8. st \in StreamSet(Len(stored), published) /\ s \in Seq(1 .. Len(stored))
    BY <2>2, <2>3
  <2>9. QED
    BY <1>2, <2>5, <2>6, <2>7, <2>8, ViewerKeeps
<1>5. QED
  BY <1>3, <1>4

\* Closing the page's end changes nothing of what the stream carried.
LEMMA CloseKeepsStream ==
  ASSUME IInv, NEW v \in Viewer, stream[v].at = "open", NEW st,
         st = [stream[v] EXCEPT !.at = "closed", !.listening = FALSE]
  PROVE  st \in StreamSet(Len(stored), published) /\ StreamOk(st, sent[v])
<1>1. stream[v] \in StreamSet(Len(stored), published) /\ StreamOk(stream[v], sent[v])
  BY Typed DEF IInv
<1>2. st \in StreamSet(Len(stored), published)
  BY <1>1 DEF StreamSet, At
<1>3. /\ st.at = "closed" /\ ~st.listening
      /\ st.row = stream[v].row /\ st.events = stream[v].events /\ st.from = stream[v].from
  BY <1>1 DEF StreamSet
<1>4. StreamOk(st, sent[v])
  BY <1>1, <1>3 DEF StreamOk, SentAt
<1>5. QED
  BY <1>2, <1>4

LEMMA ReceiveKeeps == ASSUME IInv, NEW v \in Viewer, Receive(v) PROVE IInv'
<1> DEFINE st == [stream[v] EXCEPT !.at = "closed", !.listening = FALSE]
<1>1. /\ stream[v] \in StreamSet(Len(stored), published) /\ stream[v].at = "open"
      /\ sent[v] \in Seq(1 .. Len(stored)) /\ got[v] + 1 \in Nat /\ got[v] + 1 <= Len(sent[v])
      /\ StreamOk(stream[v], sent[v])
  BY Typed DEF Receive, IInv
<1>2. st \in StreamSet(Len(stored), published) /\ StreamOk(st, sent[v])
  BY <1>1, CloseKeepsStream
<1>3. stream' = [stream EXCEPT ![v] = st] \/ stream' = [stream EXCEPT ![v] = stream[v]]
  BY Typed DEF Receive, Close
<1> HIDE DEF st
<1>4. /\ UNCHANGED <<kind, stored, published, run, row>>
      /\ sent' = [sent EXCEPT ![v] = sent[v]] /\ got' = [got EXCEPT ![v] = got[v] + 1]
  BY Typed DEF Receive
<1>5. QED
  BY <1>1, <1>2, <1>3, <1>4, ViewerKeeps

LEMMA EndedKeeps == ASSUME IInv, NEW v \in Viewer, Ended(v) PROVE IInv'
<1> DEFINE st == [stream[v] EXCEPT !.at = "closed", !.listening = FALSE]
<1>1. /\ stream[v].at = "open" /\ sent[v] \in Seq(1 .. Len(stored))
      /\ got[v] \in Nat /\ got[v] <= Len(sent[v])
  BY Typed DEF Ended
<1>2. st \in StreamSet(Len(stored), published) /\ StreamOk(st, sent[v])
  BY <1>1, CloseKeepsStream
<1>3. stream' = [stream EXCEPT ![v] = st]
  BY Typed DEF Ended, Close
<1> HIDE DEF st
<1>4. /\ UNCHANGED <<kind, stored, published, run, row>>
      /\ sent' = [sent EXCEPT ![v] = sent[v]] /\ got' = [got EXCEPT ![v] = got[v]]
  BY Typed DEF Ended
<1>5. QED
  BY <1>1, <1>2, <1>3, <1>4, ViewerKeeps

LEMMA LeaveKeeps == ASSUME IInv, NEW v \in Viewer, Leave(v) PROVE IInv'
<1>1. /\ sent[v] \in Seq(1 .. Len(stored)) /\ got[v] \in Nat /\ got[v] <= Len(sent[v])
      /\ UNCHANGED <<kind, stored, published, run, row>>
      /\ sent' = [sent EXCEPT ![v] = sent[v]] /\ got' = [got EXCEPT ![v] = got[v]]
  BY Typed DEF Leave
<1>2. CASE stream[v].at = "open" /\ Close(v)
  <2> DEFINE st == [stream[v] EXCEPT !.at = "closed", !.listening = FALSE]
  <2>1. st \in StreamSet(Len(stored), published) /\ StreamOk(st, sent[v])
    BY <1>2, CloseKeepsStream
  <2>2. stream' = [stream EXCEPT ![v] = st]
    BY <1>2, Typed DEF Close
  <2> HIDE DEF st
  <2>3. QED
    BY <1>1, <2>1, <2>2, ViewerKeeps
<1>3. CASE stream' = [stream EXCEPT ![v].gone = TRUE]
  <2> DEFINE st == [stream[v] EXCEPT !.gone = TRUE]
  <2>1. stream[v] \in StreamSet(Len(stored), published) /\ StreamOk(stream[v], sent[v])
    BY Typed DEF IInv
  <2>2. st \in StreamSet(Len(stored), published)
    BY <2>1 DEF StreamSet
  <2>3. /\ st.at = stream[v].at /\ st.listening = stream[v].listening
        /\ st.row = stream[v].row /\ st.events = stream[v].events /\ st.from = stream[v].from
    BY <2>1 DEF StreamSet
  <2>4. StreamOk(st, sent[v])
    BY <2>1, <2>3 DEF StreamOk, SentAt
  <2>5. stream' = [stream EXCEPT ![v] = st]
    BY <1>3, Typed
  <2> HIDE DEF st
  <2>6. QED
    BY <1>1, <2>2, <2>4, <2>5, ViewerKeeps
<1>4. QED
  BY <1>2, <1>3 DEF Leave

LEMMA StepKeeps == ASSUME IInv, [Next]_vars PROVE IInv'
<1>1. CASE Persist
  BY <1>1, PersistKeeps
<1>2. CASE Publish
  BY <1>2, PublishKeeps
<1>3. CASE StartEval \/ Begin \/ Complete \/ Throw
  BY <1>3, RunKeeps
<1>4. ASSUME NEW v \in Viewer, Follow(v) \/ Open(v) \/ Leave(v) PROVE IInv'
  BY <1>4, OpenKeeps, ReadOtherKeeps, AnswerKeeps, ReceiveKeeps, EndedKeeps, LeaveKeeps DEF Follow
<1>5. CASE UNCHANGED vars
  <2>1. Plans' = Plans
    BY <1>5 DEF Plans, vars
  <2>2. TypeOK'
    BY <1>5, <2>1 DEF IInv, TypeOK, vars
  <2>3. ASSUME NEW v \in Viewer PROVE StreamOk(stream[v], sent[v])'
    BY <1>5 DEF IInv, StreamOk, SentAt, vars
  <2>4. QED
    BY <1>5, <2>1, <2>2, <2>3 DEF IInv, RowIsLast, vars
<1>6. QED
  BY <1>1, <1>2, <1>3, <1>4, <1>5 DEF Next, Advance

LEMMA Inductive == Spec => []IInv
<1>1. Init => IInv
  BY InitIInv
<1>2. IInv /\ [Next]_vars => IInv'
  BY StepKeeps
<1>3. QED
  BY <1>1, <1>2, PTL DEF Spec

\* ----- the theorems ------------------------------------------------------
\* The rows of a run are always a prefix of what its pipeline may emit, at most
\* one of them is untold, and no stream holds a position that is not stored.
THEOREM TypeCorrect == Spec => []TypeOK
<1>1. IInv => TypeOK
  BY DEF IInv
<1>2. QED
  BY <1>1, Inductive, PTL

\* Whatever the order of the two queries and of the events that come between
\* them, a stream holds what its queries found and then, in turn, what was told
\* since its replay was written: one event at most comes twice, and only events
\* told while the handler waited are lacking.
THEOREM StreamsLackTheSeamOnly == Spec => []SeamIsExact
<1>1. ASSUME IInv PROVE SeamIsExact
  <2>1. ASSUME NEW v \in Viewer, stream[v].at \in {"open", "closed"}
        PROVE  /\ stream[v].events <= Len(sent[v]) /\ stream[v].events <= stream[v].from + 1
               /\ \A i \in 1 .. Len(sent[v]) :
                    sent[v][i] = IF i \in 1 .. stream[v].events THEN i
                                 ELSE stream[v].from + (i - stream[v].events)
               /\ Hears(v) => stream[v].from + (Len(sent[v]) - stream[v].events) = published
    BY <1>1, <2>1 DEF IInv, StreamOk, SentAt, Hears
  <2>2. QED
    BY <2>1 DEF SeamIsExact
<1>2. QED
  BY <1>1, Inductive, PTL

\* A ticket run's stream that ends at once has replayed the whole run: its row
\* was read before its events, and the row is written after the last event.
THEOREM ReplaysAreWhole == Spec => []ReplayIsWhole
<1>1. ASSUME IInv PROVE ReplayIsWhole
  <2>1. ASSUME NEW v \in Viewer, kind # "eval", stream[v].at \in {"open", "closed"},
               stream[v].row = "done"
        PROVE  Len(sent[v]) = Len(stored) /\ stored \in Plans
    BY <1>1, <2>1 DEF IInv, StreamOk, RowIsLast
  <2>2. QED
    BY <2>1 DEF ReplayIsWhole
<1>2. QED
  BY <1>1, Inductive, PTL
=============================================================================
