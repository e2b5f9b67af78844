---------------------------- MODULE StreamProofs ----------------------------
(***************************************************************************)
(* Proofs about AgentStream: what RunAgentChat and TurnAggregator make of  *)
(* a stream of any length, with any tool calls.  The induction over the    *)
(* lines of a stream is a descent: of the numbers of lines after which a   *)
(* claim is false there would be a least one.                              *)
(***************************************************************************)
EXTENDS AgentStream, FiniteSetTheorems, SequenceTheorems, WellFoundedInduction, TLAPS

-----------------------------------------------------------------------------
(* Descent over numbers.                                                   *)

(* A set of numbers that is not empty has a least one.                     *)
LEMMA LeastNumber ==
  ASSUME NEW B, B \subseteq Nat, B # {}
  PROVE  \E m \in B : \A n \in B : m <= n
<1>1. PICK m \in B : \A n \in B : ~ (<<n, m>> \in OpToRel(<, Nat))
  BY NatLessThanWellFounded, WFMin
<1>2. \A n \in B : <<n, m>> \in Nat \X Nat /\ ~(n < m)
  BY <1>1 DEF OpToRel
<1>3. ASSUME NEW n \in B
      PROVE  m <= n
  <2>1. m \in Nat /\ n \in Nat /\ ~(n < m)
    BY <1>1, <1>2
  <2> QED BY <2>1
<1> QED BY <1>1, <1>3

(* What holds of no line and passes from each line to the next holds of    *)
(* all of them.                                                            *)
LEMMA LineByLine ==
  ASSUME NEW n \in Nat, NEW G, 0 \in G, \A i \in 1..n : i - 1 \in G => i \in G
  PROVE  0..n \subseteq G
<1> DEFINE B == (0..n) \ G
<1>1. SUFFICES ASSUME B # {} PROVE FALSE
  OBVIOUS
<1>2. PICK m \in B : \A k \in B : m <= k
  <2>1. B \subseteq Nat
    OBVIOUS
  <2> HIDE DEF B
  <2> QED BY <1>1, <2>1, LeastNumber
<1>3. m \in 1..n /\ m - 1 \in 0..n /\ ~(m <= m - 1)
  BY <1>2
<1>4. m - 1 \in G
  BY <1>2, <1>3
<1> QED BY <1>2, <1>3, <1>4

-----------------------------------------------------------------------------
(* The stream, line by line.                                               *)

Lines == Facts \cup Legacy \cup Broken

(* What the gateway holds after one more line.                             *)
Take(st, f) == ProcessAgentDataPayload(Observe(st, f), f)

(* st[i] is what the gateway holds after i of the first n lines.           *)
IsReading(fs, n, st) ==
  st = [i \in 0..n |-> IF i = 0 THEN NewTurnAggregator ELSE Take(st[i - 1], fs[i])]
Reading(fs) == CHOOSE st : IsReading(fs, Len(fs), st)

(* There is such a function, as the recursion of Consume takes it.         *)
LEMMA ReadingExists ==
  ASSUME NEW fs, NEW n \in Nat
  PROVE  \E st : IsReading(fs, n, st)
<1> DEFINE G == {i \in 0..n : \E st : IsReading(fs, i, st)}
<1>1. 0 \in G
  <2> DEFINE st == [i \in 0..0 |-> NewTurnAggregator]
  <2>1. IsReading(fs, 0, st)
    BY DEF IsReading
  <2> QED BY <2>1
<1>2. ASSUME NEW m \in 1..n, m - 1 \in G
      PROVE  m \in G
  <2>1. PICK st : IsReading(fs, m - 1, st)
    BY <1>2
  <2> DEFINE longer == [i \in 0..m |-> IF i = m THEN Take(st[m - 1], fs[m]) ELSE st[i]]
  <2>2. \A i \in 0..m : longer[i] = IF i = 0 THEN NewTurnAggregator ELSE Take(longer[i - 1], fs[i])
    <3>1. ASSUME NEW i \in 0..m
          PROVE  longer[i] = IF i = 0 THEN NewTurnAggregator ELSE Take(longer[i - 1], fs[i])
      <4>0. DOMAIN st = 0..m - 1 /\ st[0] = NewTurnAggregator
            /\ \A j \in 1..m - 1 : st[j] = Take(st[j - 1], fs[j])
        BY <2>1 DEF IsReading
      <4>1. CASE i = 0
        BY <4>0, <4>1
      <4>2. CASE i = m
        <5>1. i # 0 /\ m - 1 \in 0..m /\ m - 1 # m
          BY <4>2
        <5> QED BY <4>2, <5>1
      <4>3. CASE i \in 1..m - 1
        <5>1. i # 0 /\ i # m /\ i - 1 \in 0..m /\ i - 1 # m
          BY <4>3
        <5>2. longer[i] = st[i] /\ longer[i - 1] = st[i - 1]
          BY <5>1
        <5> QED BY <4>0, <4>3, <5>1, <5>2
      <4> QED BY <4>1, <4>2, <4>3
    <3> QED BY <3>1
  <2>3. IsReading(fs, m, longer)
    <3>1. longer = [i \in 0..m |-> longer[i]]
      OBVIOUS
    <3> HIDE DEF longer
    <3> QED BY <2>2, <3>1 DEF IsReading
  <2> QED BY <2>3
<1>3. 0..n \subseteq G
  <2> HIDE DEF G
  <2> QED BY <1>1, <1>2, LineByLine
<1> QED BY <1>3

(* So Consume reads a stream line by line.                                 *)
LEMMA ConsumeReads ==
  ASSUME NEW fs, Len(fs) \in Nat
  PROVE  /\ Consume(fs) = Reading(fs)[Len(fs)]
         /\ Reading(fs)[0] = NewTurnAggregator
         /\ \A i \in 1..Len(fs) : Reading(fs)[i] = Take(Reading(fs)[i - 1], fs[i])
<1>1. IsReading(fs, Len(fs), Reading(fs))
  BY ReadingExists DEF Reading
<1>2. Consume(fs) = Reading(fs)[Len(fs)]
  BY DEF Consume, Reading, IsReading, Take
<1> QED BY <1>1, <1>2 DEF IsReading

-----------------------------------------------------------------------------
(* One line.                                                               *)

FactKinds == {"delta", "done", "error", "stage", "start", "end"}

(* The kind of a line says whether it is a fact, a legacy event or broken. *)
LEMMA LineKinds ==
  ASSUME NEW f \in Lines
  PROVE  /\ f \in Facts <=> f.kind \in FactKinds
         /\ f \in Legacy <=> f.kind \in {"token", "failure"}
         /\ f \in Broken <=> f.kind = "broken"
         /\ f.kind \in {"start", "end"} => f.tool \in Tools
BY DEF Lines, Facts, Legacy, Broken, Frame, FactKinds

EndedCalls  == [id : Tools, ended : {TRUE}]
States == [sawDone : BOOLEAN, sawError : BOOLEAN, pending : SUBSET Tools, tools : Seq(EndedCalls),
           text : BOOLEAN, streamErr : BOOLEAN, sawFact : BOOLEAN]

(* TurnAggregator first looks at the line,                                 *)
LEMMA ObserveFields ==
  ASSUME NEW st \in States, NEW f \in Lines
  PROVE  /\ Observe(st, f) \in States
         /\ Observe(st, f).sawDone = (st.sawDone \/ f.kind = "done")
         /\ Observe(st, f).sawError = (st.sawError \/ f.kind = "error")
         /\ Observe(st, f).pending = CASE f.kind = "start" -> st.pending \cup ({f.tool} \ {0})
                                       [] f.kind = "end" -> st.pending \ {f.tool}
                                       [] OTHER -> st.pending
         /\ Observe(st, f).tools = IF f.kind = "end" THEN Append(st.tools, [id |-> f.tool, ended |-> TRUE])
                                   ELSE st.tools
         /\ Observe(st, f).streamErr = st.streamErr
         /\ Observe(st, f).sawFact = st.sawFact
<1>1. CASE f.kind = "done"
  BY <1>1 DEF Observe, observeDone, States
<1>2. CASE f.kind = "error"
  BY <1>2 DEF Observe, observeError, States
<1>3. CASE f.kind = "start"
  <2>1. f.tool \in Tools
    BY <1>3, LineKinds
  <2> QED BY <1>3, <2>1 DEF Observe, observeToolStart, States
<1>4. CASE f.kind = "end"
  <2>1. f.tool \in Tools
    BY <1>4, LineKinds
  <2>2. Append(st.tools, [id |-> f.tool, ended |-> TRUE]) \in Seq(EndedCalls)
    BY <2>1, AppendProperties DEF States, EndedCalls
  <2> QED BY <1>4, <2>1, <2>2 DEF Observe, observeToolEnd, States
<1>5. CASE f.kind \notin {"done", "error", "start", "end"}
  BY <1>5 DEF Observe, States
<1> QED BY <1>1, <1>2, <1>3, <1>4, <1>5

(* then the line is translated, or passed on, or skipped.                  *)
LEMMA PayloadFields ==
  ASSUME NEW st \in States, NEW f \in Lines
  PROVE  LET new == ProcessAgentDataPayload(st, f)
         IN  /\ new \in States
             /\ new.sawDone = st.sawDone /\ new.sawError = st.sawError
             /\ new.pending = st.pending /\ new.tools = st.tools
             /\ new.sawFact = (st.sawFact \/ (Registry /\ f.kind \in FactKinds))
             /\ new.streamErr = \/ st.streamErr \/ f.kind = "broken"
                                \/ Registry /\ f.kind = "error"
                                \/ f.kind = "failure" /\ ~st.sawFact
<1>1. /\ f.kind \in FactKinds \cup {"token", "failure", "broken"}
      /\ f \in Facts <=> f.kind \in FactKinds
      /\ f \in Legacy <=> f.kind \in {"token", "failure"}
      /\ f \in Broken <=> f.kind = "broken"
  BY LineKinds DEF Lines
<1>2. CASE f.kind = "broken"
  BY <1>1, <1>2 DEF ProcessAgentDataPayload, States, FactKinds
<1>3. CASE f.kind \in FactKinds /\ Registry
  BY <1>1, <1>3 DEF ProcessAgentDataPayload, Translate, States, FactKinds
<1>4. CASE f.kind \in {"token", "failure"} /\ ~st.sawFact
  BY <1>1, <1>4 DEF ProcessAgentDataPayload, LegacyEvent, States, FactKinds
<1>5. CASE \/ f.kind \in FactKinds /\ ~Registry
           \/ f.kind \in {"token", "failure"} /\ st.sawFact
  BY <1>1, <1>5 DEF ProcessAgentDataPayload, States, FactKinds
<1> QED BY <1>1, <1>2, <1>3, <1>4, <1>5

(* Together.                                                               *)
LEMMA TakeFields ==
  ASSUME NEW st \in States, NEW f \in Lines
  PROVE  /\ Take(st, f) \in States
         /\ Take(st, f).sawDone = (st.sawDone \/ f.kind = "done")
         /\ Take(st, f).sawError = (st.sawError \/ f.kind = "error")
         /\ Take(st, f).pending = CASE f.kind = "start" -> st.pending \cup ({f.tool} \ {0})
                                    [] f.kind = "end" -> st.pending \ {f.tool}
                                    [] OTHER -> st.pending
         /\ Take(st, f).tools = IF f.kind = "end" THEN Append(st.tools, [id |-> f.tool, ended |-> TRUE])
                                ELSE st.tools
         /\ Take(st, f).sawFact = (st.sawFact \/ (Registry /\ f.kind \in FactKinds))
         /\ Take(st, f).streamErr = \/ st.streamErr \/ f.kind = "broken"
                                    \/ Registry /\ f.kind = "error"
                                    \/ f.kind = "failure" /\ ~st.sawFact
<1> DEFINE seen == Observe(st, f)
<1>1. seen \in States
  BY ObserveFields
<1>2. /\ Take(st, f) = ProcessAgentDataPayload(seen, f)
      /\ LET new == ProcessAgentDataPayload(seen, f)
         IN  /\ new \in States
             /\ new.sawDone = seen.sawDone /\ new.sawError = seen.sawError
             /\ new.pending = seen.pending /\ new.tools = seen.tools
             /\ new.sawFact = (seen.sawFact \/ (Registry /\ f.kind \in FactKinds))
             /\ new.streamErr = \/ seen.streamErr \/ f.kind = "broken"
                                \/ Registry /\ f.kind = "error"
                                \/ f.kind = "failure" /\ ~seen.sawFact
  <2> HIDE DEF seen
  <2>1. Take(st, f) = ProcessAgentDataPayload(seen, f)
    BY DEF Take, seen
  <2> QED BY <1>1, <2>1, PayloadFields
<1> HIDE DEF seen
<1>3. /\ seen.sawDone = (st.sawDone \/ f.kind = "done")
      /\ seen.sawError = (st.sawError \/ f.kind = "error")
      /\ seen.streamErr = st.streamErr /\ seen.sawFact = st.sawFact
  BY ObserveFields DEF seen
<1>4. /\ seen.pending = CASE f.kind = "start" -> st.pending \cup ({f.tool} \ {0})
                          [] f.kind = "end" -> st.pending \ {f.tool}
                          [] OTHER -> st.pending
      /\ seen.tools = IF f.kind = "end" THEN Append(st.tools, [id |-> f.tool, ended |-> TRUE])
                      ELSE st.tools
  BY ObserveFields DEF seen
<1> QED BY <1>2, <1>3, <1>4

-----------------------------------------------------------------------------
(* What the state has to say of the first n lines.                         *)

Entries(tools, id, ended) == {i \in DOMAIN tools : tools[i] = [id |-> id, ended |-> ended]}
EndsOf(fs, n, id)    == {i \in 1..n : fs[i].tool = id /\ fs[i].kind = "end"}
About(fs, i, id)   == fs[i].tool = id /\ fs[i].kind \in {"start", "end"}
LeftOpen(fs, n, id) == \E j \in 1..n : /\ fs[j].tool = id /\ fs[j].kind = "start"
                                      /\ \A k \in (j + 1)..n : ~About(fs, k, id)
Heard(fs, n, kind) == \E j \in 1..n : fs[j].kind = kind
FactHeard(fs, n)   == \E j \in 1..n : fs[j].kind \in FactKinds
FailureShown(fs, n) == \E j \in 1..n : fs[j].kind = "failure" /\ ~(Registry /\ FactHeard(fs, j - 1))

FlagsRight(fs, n, st) ==
  /\ st.sawDone <=> Heard(fs, n, "done")
  /\ st.sawError <=> Heard(fs, n, "error")
  /\ st.sawFact <=> Registry /\ FactHeard(fs, n)
  /\ st.streamErr <=> Heard(fs, n, "broken") \/ (Registry /\ Heard(fs, n, "error")) \/ FailureShown(fs, n)

ToolsRight(fs, n, st) ==
  /\ IsFiniteSet(st.pending)
  /\ \A id \in Tools :
       /\ id \in st.pending <=> id # 0 /\ LeftOpen(fs, n, id)
       /\ IsFiniteSet(Entries(st.tools, id, TRUE)) /\ IsFiniteSet(EndsOf(fs, n, id))
       /\ Cardinality(Entries(st.tools, id, TRUE)) = Cardinality(EndsOf(fs, n, id))

ReadRight(fs, n, st) == st \in States /\ FlagsRight(fs, n, st) /\ ToolsRight(fs, n, st)

(* Among n lines are those before the last, and the last.                  *)
LEMMA OneMore ==
  ASSUME NEW n \in Nat \ {0}
  PROVE  1..n = (1..n - 1) \cup {n} /\ n \notin 1..n - 1
OBVIOUS

(* What each line adds to what was observed: a done or an error in a fact, *)
(* a broken line or a legacy error, a legacy token, a fact at all.         *)
LEMMA FlagsStep ==
  ASSUME NEW fs, NEW n \in Nat \ {0}, fs[n] \in Lines,
         NEW st \in States, FlagsRight(fs, n - 1, st)
  PROVE  FlagsRight(fs, n, Take(st, fs[n]))
<1> DEFINE f == fs[n]
           new == Take(st, f)
<1>1. /\ new.sawDone = (st.sawDone \/ f.kind = "done")
      /\ new.sawError = (st.sawError \/ f.kind = "error")
      /\ new.sawFact = (st.sawFact \/ (Registry /\ f.kind \in FactKinds))
      /\ new.streamErr = \/ st.streamErr \/ f.kind = "broken"
                         \/ Registry /\ f.kind = "error"
                         \/ f.kind = "failure" /\ ~st.sawFact
  <2>1. f \in Lines
    OBVIOUS
  <2> HIDE DEF f
  <2> QED BY <2>1, TakeFields
<1>2. /\ \A kind : Heard(fs, n, kind) <=> Heard(fs, n - 1, kind) \/ f.kind = kind
      /\ FactHeard(fs, n) <=> FactHeard(fs, n - 1) \/ f.kind \in FactKinds
      /\ FailureShown(fs, n) <=>
           FailureShown(fs, n - 1) \/ (f.kind = "failure" /\ ~(Registry /\ FactHeard(fs, n - 1)))
  <2>1. 1..n = (1..n - 1) \cup {n}
    BY OneMore
  <2>2. \A kind : Heard(fs, n, kind) <=> Heard(fs, n - 1, kind) \/ f.kind = kind
    BY <2>1 DEF Heard
  <2>3. FactHeard(fs, n) <=> FactHeard(fs, n - 1) \/ f.kind \in FactKinds
    BY <2>1 DEF FactHeard
  <2>4. FailureShown(fs, n) <=>
          FailureShown(fs, n - 1) \/ (f.kind = "failure" /\ ~(Registry /\ FactHeard(fs, n - 1)))
    BY <2>1 DEF FailureShown
  <2> QED BY <2>2, <2>3, <2>4
<1>3. new.sawDone \in BOOLEAN /\ new.sawError \in BOOLEAN /\ new.sawFact \in BOOLEAN
      /\ new.streamErr \in BOOLEAN /\ st.sawFact \in BOOLEAN
  BY TakeFields DEF States
<1> HIDE DEF f, new
<1>4. FlagsRight(fs, n, new)
  BY <1>1, <1>2, <1>3 DEF FlagsRight
<1> QED BY <1>4 DEF f, new

(* What each line adds to the tools: a start opens its call, an end closes *)
(* it if it is open and lists it.                                          *)
LEMMA ToolsStep ==
  ASSUME NEW fs, NEW n \in Nat \ {0}, fs[n] \in Lines,
         NEW st \in States, ToolsRight(fs, n - 1, st)
  PROVE  ToolsRight(fs, n, Take(st, fs[n]))
<1> DEFINE f == fs[n]
           new == Take(st, f)
<1>0. 1..n = (1..n - 1) \cup {n} /\ n \notin 1..n - 1
  BY OneMore
<1>1. /\ new.pending = CASE f.kind = "start" -> st.pending \cup ({f.tool} \ {0})
                         [] f.kind = "end" -> st.pending \ {f.tool}
                         [] OTHER -> st.pending
      /\ new.tools = IF f.kind = "end" THEN Append(st.tools, [id |-> f.tool, ended |-> TRUE])
                     ELSE st.tools
  BY TakeFields
<1>2. IsFiniteSet(new.pending)
  <2>1. new.pending \in {st.pending, st.pending \cup {f.tool}, st.pending \ {f.tool}}
    BY <1>1
  <2>2. IsFiniteSet(st.pending \cup {f.tool}) /\ IsFiniteSet(st.pending \ {f.tool})
    BY FS_AddElement, FS_RemoveElement DEF ToolsRight
  <2> QED BY <2>1, <2>2 DEF ToolsRight
<1>3. ASSUME NEW id \in Tools
      PROVE  id \in new.pending <=> id # 0 /\ LeftOpen(fs, n, id)
  <2>1. id \in st.pending <=> id # 0 /\ LeftOpen(fs, n - 1, id)
    BY DEF ToolsRight
  <2>2. LeftOpen(fs, n, id) <=>
          (f.tool = id /\ f.kind = "start") \/ (LeftOpen(fs, n - 1, id) /\ ~About(fs, n, id))
    <3>1. \A j \in 1..n - 1 : (j + 1)..n = ((j + 1)..(n - 1)) \cup {n}
      OBVIOUS
    <3>2. (n + 1)..n = {}
      OBVIOUS
    <3>3. ASSUME NEW j \in 1..n, f.tool # id \/ f.kind # "start",
                 fs[j].tool = id, fs[j].kind = "start", \A k \in (j + 1)..n : ~About(fs, k, id)
          PROVE  LeftOpen(fs, n - 1, id) /\ ~About(fs, n, id)
      <4>1. j \in 1..n - 1
        BY <1>0, <3>3
      <4> QED BY <3>1, <3>3, <4>1 DEF LeftOpen
    <3>4. ASSUME LeftOpen(fs, n - 1, id), ~About(fs, n, id)
          PROVE  LeftOpen(fs, n, id)
      <4>1. PICK j \in 1..n - 1 : /\ fs[j].tool = id /\ fs[j].kind = "start"
                                  /\ \A k \in (j + 1)..(n - 1) : ~About(fs, k, id)
        BY <3>4 DEF LeftOpen
      <4>2. \A k \in (j + 1)..n : ~About(fs, k, id)
        BY <3>1, <3>4, <4>1
      <4> QED BY <1>0, <4>1, <4>2 DEF LeftOpen
    <3>5. f.tool = id /\ f.kind = "start" => LeftOpen(fs, n, id)
      BY <1>0, <3>2 DEF LeftOpen
    <3> HIDE DEF f
    <3> QED BY <3>3, <3>4, <3>5 DEF LeftOpen
  <2>3. About(fs, n, id) <=> f.tool = id /\ f.kind \in {"start", "end"}
    BY DEF About
  <2> HIDE DEF f, new
  <2>4. CASE f.kind = "start"
    BY <1>1, <2>1, <2>2, <2>3, <2>4
  <2>5. CASE f.kind = "end"
    BY <1>1, <2>1, <2>2, <2>3, <2>5
  <2>6. CASE f.kind \notin {"start", "end"}
    BY <1>1, <2>1, <2>2, <2>3, <2>6
  <2> QED BY <2>4, <2>5, <2>6
<1>4. ASSUME NEW id \in Tools
      PROVE  /\ IsFiniteSet(Entries(new.tools, id, TRUE)) /\ IsFiniteSet(EndsOf(fs, n, id))
             /\ Cardinality(Entries(new.tools, id, TRUE)) = Cardinality(EndsOf(fs, n, id))
  <2>1. /\ IsFiniteSet(Entries(st.tools, id, TRUE)) /\ IsFiniteSet(EndsOf(fs, n - 1, id))
        /\ Cardinality(Entries(st.tools, id, TRUE)) = Cardinality(EndsOf(fs, n - 1, id))
    BY DEF ToolsRight
  <2>2. CASE f.kind = "end" /\ f.tool = id
    <3> DEFINE e == [id |-> id, ended |-> TRUE]
               k == Len(st.tools) + 1
    <3>1. st.tools \in Seq(EndedCalls) /\ e \in EndedCalls
      BY DEF States, EndedCalls
    <3>2. /\ DOMAIN Append(st.tools, e) = (DOMAIN st.tools) \cup {k} /\ k \notin DOMAIN st.tools
          /\ \A i \in DOMAIN st.tools : Append(st.tools, e)[i] = st.tools[i]
          /\ Append(st.tools, e)[k] = e
      <4> HIDE DEF e
      <4>1. /\ DOMAIN st.tools = 1..Len(st.tools) /\ Len(st.tools) \in Nat
            /\ DOMAIN Append(st.tools, e) = 1..Len(st.tools) + 1
            /\ \A i \in 1..Len(st.tools) : Append(st.tools, e)[i] = st.tools[i]
            /\ Append(st.tools, e)[Len(st.tools) + 1] = e
        BY <3>1, LenProperties, AppendProperties
      <4> QED BY <4>1
    <3>3. Entries(new.tools, id, TRUE) = Entries(st.tools, id, TRUE) \cup {k} /\ k \notin Entries(st.tools, id, TRUE)
      BY <1>1, <2>2, <3>2 DEF Entries
    <3>4. EndsOf(fs, n, id) = EndsOf(fs, n - 1, id) \cup {n} /\ n \notin EndsOf(fs, n - 1, id)
      BY <1>0, <2>2 DEF EndsOf
    <3>5. /\ IsFiniteSet(Entries(new.tools, id, TRUE))
          /\ Cardinality(Entries(new.tools, id, TRUE)) = Cardinality(Entries(st.tools, id, TRUE)) + 1
      <4> HIDE DEF k, new, e
      <4> QED BY <2>1, <3>3, FS_AddElement
    <3>6. /\ IsFiniteSet(EndsOf(fs, n, id))
          /\ Cardinality(EndsOf(fs, n, id)) = Cardinality(EndsOf(fs, n - 1, id)) + 1
      BY <2>1, <3>4, FS_AddElement
    <3> HIDE DEF k, new, e, f
    <3> QED BY <2>1, <3>5, <3>6
  <2>3. CASE ~(f.kind = "end" /\ f.tool = id)
    <3>1. EndsOf(fs, n, id) = EndsOf(fs, n - 1, id)
      BY <1>0, <2>3 DEF EndsOf
    <3>2. Entries(new.tools, id, TRUE) = Entries(st.tools, id, TRUE)
      <4>1. CASE f.kind # "end"
        BY <1>1, <4>1
      <4>2. CASE f.kind = "end" /\ f.tool # id
        <5> DEFINE e == [id |-> f.tool, ended |-> TRUE]
        <5>1. st.tools \in Seq(EndedCalls) /\ e \in EndedCalls
          BY <4>2, LineKinds DEF States, EndedCalls
        <5>2. e # [id |-> id, ended |-> TRUE]
          BY <4>2
        <5>3. /\ DOMAIN Append(st.tools, e) = (DOMAIN st.tools) \cup {Len(st.tools) + 1}
              /\ \A i \in DOMAIN st.tools : Append(st.tools, e)[i] = st.tools[i]
              /\ Append(st.tools, e)[Len(st.tools) + 1] = e
          <6> HIDE DEF e
          <6>1. /\ DOMAIN st.tools = 1..Len(st.tools) /\ Len(st.tools) \in Nat
                /\ DOMAIN Append(st.tools, e) = 1..Len(st.tools) + 1
                /\ \A i \in 1..Len(st.tools) : Append(st.tools, e)[i] = st.tools[i]
                /\ Append(st.tools, e)[Len(st.tools) + 1] = e
            BY <5>1, LenProperties, AppendProperties
          <6> QED BY <6>1
        <5>4. new.tools = Append(st.tools, e)
          BY <1>1, <4>2
        <5> HIDE DEF e, new
        <5> QED BY <5>2, <5>3, <5>4 DEF Entries
      <4> QED BY <2>3, <4>1, <4>2
    <3> QED BY <2>1, <3>1, <3>2
  <2> QED BY <2>2, <2>3
<1> HIDE DEF new, f
<1>5. ToolsRight(fs, n, new)
  BY <1>2, <1>3, <1>4 DEF ToolsRight
<1> QED BY <1>5 DEF new, f

(* A stream is a sequence of lines.                                        *)
LEMMA StreamFacts ==
  ASSUME NEW fs \in Streams
  PROVE  Len(fs) \in Nat /\ DOMAIN fs = 1..Len(fs) /\ \A i \in 1..Len(fs) : fs[i] \in Lines
<1>1. PICK m \in 0..MaxFrames : fs \in [1..m -> Lines]
  BY DEF Streams, SeqOf, Lines
<1>2. m \in Nat
  BY <1>1, StreamAssumption
<1>3. fs \in Seq(Lines)
  BY <1>1, <1>2, IsASeq
<1> QED BY <1>3, LenProperties, ElementOfSeq

(* What Consume returns is right for the whole stream.                     *)
LEMMA ConsumeRight ==
  ASSUME NEW fs \in Streams
  PROVE  ReadRight(fs, Len(fs), Consume(fs))
<1> DEFINE n == Len(fs)
           G == {i \in 0..n : ReadRight(fs, i, Reading(fs)[i])}
<1>1. n \in Nat /\ \A i \in 1..n : fs[i] \in Lines
  BY StreamFacts
<1>2. /\ Consume(fs) = Reading(fs)[n]
      /\ Reading(fs)[0] = NewTurnAggregator
      /\ \A i \in 1..n : Reading(fs)[i] = Take(Reading(fs)[i - 1], fs[i])
  BY <1>1, ConsumeReads
<1>3. ReadRight(fs, 0, NewTurnAggregator)
  <2>1. NewTurnAggregator \in States
    BY EmptySeq DEF NewTurnAggregator, States
  <2>2. 1..0 = {} /\ DOMAIN <<>> = {}
    OBVIOUS
  <2>3. FlagsRight(fs, 0, NewTurnAggregator)
    BY <2>2 DEF FlagsRight, NewTurnAggregator, Heard, FactHeard, FailureShown
  <2>4. ToolsRight(fs, 0, NewTurnAggregator)
    <3>1. \A id : Entries(<<>>, id, TRUE) = {} /\ EndsOf(fs, 0, id) = {} /\ ~LeftOpen(fs, 0, id)
      BY <2>2 DEF Entries, EndsOf, LeftOpen
    <3>2. NewTurnAggregator.pending = {} /\ NewTurnAggregator.tools = <<>>
      BY DEF NewTurnAggregator
    <3> QED BY <3>1, <3>2, FS_EmptySet DEF ToolsRight
  <2> QED BY <2>1, <2>3, <2>4 DEF ReadRight
<1>4. ASSUME NEW i \in 1..n, i - 1 \in G
      PROVE  i \in G
  <2>1. i \in Nat \ {0} /\ fs[i] \in Lines /\ Reading(fs)[i] = Take(Reading(fs)[i - 1], fs[i])
    BY <1>1, <1>2
  <2>2. /\ Reading(fs)[i - 1] \in States
        /\ FlagsRight(fs, i - 1, Reading(fs)[i - 1]) /\ ToolsRight(fs, i - 1, Reading(fs)[i - 1])
    BY <1>4 DEF ReadRight
  <2>3. ReadRight(fs, i, Reading(fs)[i])
    <3> DEFINE st == Reading(fs)[i - 1]
    <3>1. st \in States /\ FlagsRight(fs, i - 1, st) /\ ToolsRight(fs, i - 1, st)
      BY <2>2
    <3> HIDE DEF st
    <3>2. FlagsRight(fs, i, Take(st, fs[i])) /\ ToolsRight(fs, i, Take(st, fs[i]))
      BY <2>1, <3>1, FlagsStep, ToolsStep
    <3>3. Take(st, fs[i]) \in States
      BY <2>1, <3>1, TakeFields
    <3>4. Reading(fs)[i] = Take(st, fs[i])
      BY <2>1 DEF st
    <3> QED BY <3>2, <3>3, <3>4 DEF ReadRight
  <2> QED BY <1>1, <2>3
<1>5. 0..n \subseteq G
  <2>1. 0 \in G
    BY <1>1, <1>2, <1>3
  <2> HIDE DEF G, n
  <2> QED BY <1>1, <1>4, <2>1, LineByLine
<1> QED BY <1>1, <1>2, <1>5

-----------------------------------------------------------------------------
(* The record.                                                             *)

(* SetToSeq lists each element of a finite set once.                       *)
LEMMA ListedOnce ==
  ASSUME NEW S, IsFiniteSet(S)
  PROVE  /\ SetToSeq(S) \in Seq(S)
         /\ \A x \in S : \E i \in DOMAIN SetToSeq(S) : SetToSeq(S)[i] = x
         /\ \A i, j \in DOMAIN SetToSeq(S) : SetToSeq(S)[i] = SetToSeq(S)[j] => i = j
<1> DEFINE n == Cardinality(S)
           q == SetToSeq(S)
<1>1. n \in Nat /\ \E f : f \in Bijection(1..n, S)
  BY FS_CardinalityType DEF ExistsBijection
<1>2. \E f \in [1..n -> S] : IsInjective(f)
  BY <1>1 DEF Bijection, Injection, IsInjective
<1>3. q \in [1..n -> S] /\ IsInjective(q)
  BY <1>2 DEF SetToSeq
<1>4. \A x \in S : \E i \in 1..n : q[i] = x
  <2> HIDE DEF n, q
  <2>2. IsFiniteSet(1..n) /\ Cardinality(1..n) = n
    BY <1>1, FS_Interval
  <2>3. q \in Injection(1..n, S) /\ Cardinality(S) = n
    BY <1>3 DEF Injection, n
  <2>4. q \in Surjection(1..n, S)
    BY <2>2, <2>3, FS_Injection
  <2> QED BY <2>4 DEF Surjection
<1> QED BY <1>1, <1>3, <1>4, IsASeq DEF IsInjective

(* A set of lines has a last one.                                          *)
LEMMA LastOne ==
  ASSUME NEW n \in Nat, NEW A, A \subseteq 1..n, A # {}
  PROVE  Max(A) \in A /\ \A i \in A : i <= Max(A)
<1> DEFINE B == {n - i : i \in A}
<1>1. B \subseteq Nat /\ B # {}
  OBVIOUS
<1>2. PICK m \in B : \A k \in B : m <= k
  <2> HIDE DEF B
  <2> QED BY <1>1, LeastNumber
<1>3. PICK a \in A : m = n - a
  BY <1>2
<1>4. ASSUME NEW i \in A
      PROVE  a >= i
  <2>1. i \in Int /\ a \in Int
    BY <1>3
  <2>2. n - i \in B
    OBVIOUS
  <2>3. n - a <= n - i
    BY <1>2, <1>3, <2>2
  <2> QED BY <2>1, <2>3
<1>5. \E x \in A : \A y \in A : x >= y
  BY <1>3, <1>4
<1>6. Max(A) \in A /\ \A y \in A : Max(A) >= y
  BY <1>5 DEF Max
<1>7. \A y \in A : y \in Int
  OBVIOUS
<1> HIDE DEF B
<1> QED BY <1>6, <1>7

(* The record lists the ended calls, and each call left open once.         *)
LEMMA RecordTools ==
  ASSUME NEW st \in States, IsFiniteSet(st.pending), NEW err, NEW id \in Tools
  PROVE  /\ Entries(Finalize(st, FALSE, err, FALSE).tools, id, TRUE) = Entries(st.tools, id, TRUE)
         /\ Cardinality(Entries(Finalize(st, FALSE, err, FALSE).tools, id, FALSE)) =
              IF id \in st.pending THEN 1 ELSE 0
<1> DEFINE S == [id : st.pending, ended : {FALSE}]
           q == SetToSeq(S)
           all == st.tools \o q
           k == Len(st.tools)
<1>1. IsFiniteSet(S)
  <2> DEFINE f == [x \in st.pending |-> [id |-> x, ended |-> FALSE]]
  <2>1. f \in Surjection(st.pending, S)
    <3>1. \A x \in st.pending : f[x] \in S
      OBVIOUS
    <3>2. ASSUME NEW y \in S
          PROVE  y.id \in st.pending /\ f[y.id] = y
      <4>1. y.id \in st.pending /\ y = [id |-> y.id, ended |-> FALSE]
        OBVIOUS
      <4>2. f[y.id] = [id |-> y.id, ended |-> FALSE]
        BY <4>1
      <4> HIDE DEF f, S
      <4> QED BY <4>1, <4>2
    <3>3. f \in [st.pending -> S]
      BY <3>1
    <3> HIDE DEF f, S
    <3> QED BY <3>2, <3>3 DEF Surjection
  <2> HIDE DEF f, S
  <2> QED BY <2>1, FS_Surjection
<1>2. /\ q \in Seq(S)
      /\ \A x \in S : \E i \in DOMAIN q : q[i] = x
      /\ \A i, j \in DOMAIN q : q[i] = q[j] => i = j
  <2> HIDE DEF S
  <2> QED BY <1>1, ListedOnce
<1>3. Finalize(st, FALSE, err, FALSE).tools = all
  BY DEF Finalize
<1>4. /\ k \in Nat /\ Len(q) \in Nat
      /\ DOMAIN st.tools = 1..k /\ DOMAIN q = 1..Len(q) /\ DOMAIN all = 1..k + Len(q)
      /\ \A i \in 1..k : all[i] = st.tools[i] /\ st.tools[i].ended = TRUE
      /\ \A i \in 1..Len(q) : all[k + i] = q[i] /\ q[i].ended = FALSE /\ q[i].id \in st.pending
  <2> DEFINE T == EndedCalls \cup S
  <2>1. st.tools \in Seq(EndedCalls)
    BY DEF States
  <2>2. \A i \in DOMAIN st.tools : st.tools[i] \in EndedCalls
    BY <2>1, ElementOfSeq, LenProperties
  <2>3. \A i \in DOMAIN q : q[i] \in S
    <3> HIDE DEF q, S
    <3> QED BY <1>2, ElementOfSeq, LenProperties
  <2>4. st.tools \in Seq(T) /\ q \in Seq(T)
    <3> HIDE DEF q, S
    <3> QED BY <1>2, <2>1, SeqMonotonic
  <2>5. /\ Len(all) = k + Len(q) /\ all \in Seq(T)
        /\ \A i \in 1..k + Len(q) : all[i] = IF i <= k THEN st.tools[i] ELSE q[i - k]
    <3> HIDE DEF q, S, T
    <3> QED BY <2>4, ConcatProperties
  <2>6. /\ k \in Nat /\ Len(q) \in Nat
        /\ DOMAIN st.tools = 1..k /\ DOMAIN q = 1..Len(q) /\ DOMAIN all = 1..k + Len(q)
    <3> HIDE DEF q, S, T, all
    <3> QED BY <2>4, <2>5, LenProperties
  <2>7. \A i \in 1..k : all[i] = st.tools[i] /\ st.tools[i].ended = TRUE
    <3>1. \A i \in 1..k : i \in 1..k + Len(q) /\ i <= k /\ st.tools[i] \in EndedCalls
      <4> HIDE DEF q, k
      <4> QED BY <2>2, <2>6
    <3> HIDE DEF q, S, T, all, k
    <3> QED BY <2>5, <3>1 DEF EndedCalls
  <2>8. \A i \in 1..Len(q) : all[k + i] = q[i]
    <3>1. \A i \in 1..Len(q) : k + i \in 1..k + Len(q) /\ ~(k + i <= k) /\ (k + i) - k = i
      <4> HIDE DEF q, k
      <4> QED BY <2>6
    <3> HIDE DEF q, S, T, all, k
    <3> QED BY <2>5, <3>1
  <2>9. \A i \in 1..Len(q) : q[i].ended = FALSE /\ q[i].id \in st.pending
    <3> HIDE DEF q
    <3> QED BY <2>3, <2>6
  <2> HIDE DEF q, S, T, all, k
  <2> QED BY <2>6, <2>7, <2>8, <2>9
<1> HIDE DEF q, all, k
<1>5. \A i \in DOMAIN all : i \in 1..k \/ \E j \in 1..Len(q) : i = k + j
  <2>1. ASSUME NEW i \in 1..k + Len(q), i \notin 1..k
        PROVE  i - k \in 1..Len(q) /\ i = k + (i - k)
    BY <1>4, <2>1
  <2> QED BY <1>4, <2>1
<1>6. \A i \in 1..k : i \in DOMAIN all
  BY <1>4
<1>7. \A j \in 1..Len(q) : k + j \in DOMAIN all
  BY <1>4
<1>8. Entries(all, id, TRUE) = Entries(st.tools, id, TRUE)
  <2>1. ASSUME NEW i \in DOMAIN all
        PROVE  all[i] = [id |-> id, ended |-> TRUE] <=>
                 i \in 1..k /\ st.tools[i] = [id |-> id, ended |-> TRUE]
    <3>1. CASE i \in 1..k
      BY <1>4, <3>1
    <3>2. ASSUME NEW j \in 1..Len(q), i = k + j
          PROVE  all[i] # [id |-> id, ended |-> TRUE] /\ i \notin 1..k
      <4>1. all[i].ended = FALSE
        BY <1>4, <3>2
      <4>2. i \notin 1..k
        BY <1>4, <3>2
      <4>3. [id |-> id, ended |-> TRUE].ended = TRUE
        OBVIOUS
      <4> QED BY <4>1, <4>2, <4>3
    <3> QED BY <1>5, <3>1, <3>2
  <2> QED BY <1>4, <1>6, <2>1 DEF Entries
<1>9. CASE id \in st.pending
  <2>1. PICK j \in 1..Len(q) : q[j] = [id |-> id, ended |-> FALSE]
    BY <1>2, <1>4, <1>9
  <2>2. \A i \in 1..Len(q) : q[i] = [id |-> id, ended |-> FALSE] => i = j
    BY <1>2, <1>4, <2>1
  <2>3. Entries(all, id, FALSE) = {k + j}
    <3>1. k + j \in DOMAIN all /\ all[k + j] = [id |-> id, ended |-> FALSE]
      BY <1>4, <1>7, <2>1
    <3>2. ASSUME NEW i \in DOMAIN all, all[i] = [id |-> id, ended |-> FALSE]
          PROVE  i = k + j
      <4>1. all[i].ended = FALSE
        BY <3>2
      <4>2. i \notin 1..k
        BY <1>4, <4>1
      <4>3. PICK l \in 1..Len(q) : i = k + l
        BY <1>5, <4>2
      <4>4. q[l] = [id |-> id, ended |-> FALSE]
        BY <1>4, <3>2, <4>3
      <4> QED BY <2>2, <4>3, <4>4
    <3> QED BY <3>1, <3>2 DEF Entries
  <2>4. Cardinality(Entries(all, id, FALSE)) = 1
    BY <2>3, FS_Singleton
  <2> QED BY <1>3, <1>8, <1>9, <2>4
<1>10. CASE id \notin st.pending
  <2>1. Entries(all, id, FALSE) = {}
    BY <1>4, <1>5, <1>10 DEF Entries
  <2>2. Cardinality(Entries(all, id, FALSE)) = 0
    BY <2>1, FS_EmptySet
  <2> QED BY <1>3, <1>8, <1>10, <2>2
<1> QED BY <1>9, <1>10

(* A call is left open when the last line about it is a start.             *)
LEMMA LastIsStart ==
  ASSUME NEW fs, NEW n \in Nat, NEW id
  PROVE  LET lines == {i \in 1..n : fs[i].tool = id /\ fs[i].kind \in {"start", "end"}}
         IN  LeftOpen(fs, n, id) <=> lines # {} /\ fs[Max(lines)].kind = "start"
<1> DEFINE lines == {i \in 1..n : fs[i].tool = id /\ fs[i].kind \in {"start", "end"}}
<1>1. lines \subseteq 1..n /\ \A i \in 1..n : i \in lines <=> About(fs, i, id)
  BY DEF About
<1>2. ASSUME LeftOpen(fs, n, id)
      PROVE  lines # {} /\ fs[Max(lines)].kind = "start"
  <2>1. PICK j \in 1..n : /\ fs[j].tool = id /\ fs[j].kind = "start"
                          /\ \A i \in (j + 1)..n : ~About(fs, i, id)
    BY <1>2 DEF LeftOpen
  <2>2. j \in lines
    BY <2>1
  <2> HIDE DEF lines
  <2>3. Max(lines) \in lines /\ j <= Max(lines)
    BY <1>1, <2>2, LastOne
  <2>4. Max(lines) = j
    <3>1. Max(lines) \in 1..n /\ About(fs, Max(lines), id)
      BY <1>1, <2>3
    <3>2. Max(lines) \notin (j + 1)..n
      BY <2>1, <3>1
    <3> QED BY <2>3, <3>1, <3>2
  <2> QED BY <2>1, <2>2, <2>4
<1>3. ASSUME lines # {}, fs[Max(lines)].kind = "start"
      PROVE  LeftOpen(fs, n, id)
  <2> DEFINE j == Max(lines)
  <2>1. j \in lines /\ \A i \in lines : i <= j
    <3> HIDE DEF lines
    <3> QED BY <1>1, <1>3, LastOne
  <2>2. j \in 1..n /\ fs[j].tool = id
    BY <2>1
  <2>3. \A i \in (j + 1)..n : i \in 1..n /\ ~(i <= j)
    <3> HIDE DEF j
    <3> QED BY <2>2
  <2> HIDE DEF lines, j
  <2>4. \A i \in (j + 1)..n : ~About(fs, i, id)
    BY <1>1, <2>1, <2>3
  <2> QED BY <1>3, <2>2, <2>4 DEF LeftOpen, j
<1> QED BY <1>2, <1>3

(* The record made of a stream that nothing cut short is faithful to it:   *)
(* a call is listed once for every end and once more when its last line is *)
(* a start, and "ok" is said of the streams that were done and in which    *)
(* nothing the gateway reads said error.  This is what Finalize promises   *)
(* of the frames TurnAggregator has observed.                              *)
LEMMA FrameFaithful ==
  ASSUME NEW fs \in Streams
  PROVE  Faithful(fs, Finalize(Consume(fs), FALSE, Consume(fs).streamErr, FALSE))
<1> DEFINE n == Len(fs)
           st == Consume(fs)
           r == Finalize(st, FALSE, st.streamErr, FALSE)
           Lasting(id) == {i \in DOMAIN fs : fs[i].tool = id /\ fs[i].kind \in {"start", "end"}}
           Has(kind) == {i \in DOMAIN fs : fs[i].kind = kind}
           Hidden(i) == Registry /\ \E j \in 1..(i - 1) : fs[j] \in Facts
<1>1. n \in Nat /\ DOMAIN fs = 1..n /\ \A i \in 1..n : fs[i] \in Lines
  BY StreamFacts
<1>2. st \in States /\ FlagsRight(fs, n, st) /\ ToolsRight(fs, n, st)
  BY ConsumeRight DEF ReadRight
<1> HIDE DEF st, n
<1>3. ASSUME NEW id \in Tools
      PROVE  /\ Cardinality(Entries(r.tools, id, TRUE)) = Cardinality(Lasting(id) \cap Has("end"))
             /\ Cardinality(Entries(r.tools, id, FALSE)) =
                  IF id # 0 /\ Lasting(id) # {} /\ fs[Max(Lasting(id))].kind = "start" THEN 1 ELSE 0
  <2>1. /\ Entries(r.tools, id, TRUE) = Entries(st.tools, id, TRUE)
        /\ Cardinality(Entries(r.tools, id, FALSE)) = IF id \in st.pending THEN 1 ELSE 0
    BY <1>2, RecordTools DEF ToolsRight
  <2>2. /\ id \in st.pending <=> id # 0 /\ LeftOpen(fs, n, id)
        /\ Cardinality(Entries(st.tools, id, TRUE)) = Cardinality(EndsOf(fs, n, id))
    BY <1>2 DEF ToolsRight
  <2>3. LeftOpen(fs, n, id) <=> Lasting(id) # {} /\ fs[Max(Lasting(id))].kind = "start"
    BY <1>1, LastIsStart
  <2>4. EndsOf(fs, n, id) = Lasting(id) \cap Has("end")
    BY <1>1 DEF EndsOf
  <2> HIDE DEF r, Lasting, Has
  <2> QED BY <2>1, <2>2, <2>3, <2>4
<1>4. r.status = "ok" <=> ~st.streamErr /\ ~st.sawError /\ st.sawDone
  BY <1>2 DEF Finalize, States
<1>5. r.status = "ok" <=> /\ Has("done") # {} /\ Has("error") = {} /\ Has("broken") = {}
                         /\ \A i \in Has("failure") : Hidden(i)
  <2>1. \A kind : Heard(fs, n, kind) <=> Has(kind) # {}
    BY <1>1 DEF Heard
  <2>2. ASSUME NEW i \in 1..n
        PROVE  Hidden(i) <=> Registry /\ FactHeard(fs, i - 1)
    <3>1. \A j \in 1..(i - 1) : j \in 1..n
      BY <1>1
    <3>2. \A j \in 1..(i - 1) : fs[j] \in Facts <=> fs[j].kind \in FactKinds
      BY <1>1, <3>1, LineKinds
    <3> QED BY <3>2 DEF FactHeard
  <2>3. FailureShown(fs, n) <=> \E i \in Has("failure") : ~Hidden(i)
    <3> HIDE DEF Hidden
    <3> QED BY <1>1, <2>2 DEF FailureShown
  <2>4. /\ st.sawDone <=> Heard(fs, n, "done")
        /\ st.sawError <=> Heard(fs, n, "error")
        /\ st.streamErr <=> Heard(fs, n, "broken") \/ (Registry /\ Heard(fs, n, "error")) \/ FailureShown(fs, n)
    BY <1>2 DEF FlagsRight
  <2> HIDE DEF Has, Hidden, r
  <2> QED BY <1>4, <2>1, <2>3, <2>4
<1>6. Faithful(fs, r)
  BY <1>3, <1>5 DEF Faithful, Entries
<1> QED BY <1>6 DEF r, st

(* Of every stream and whatever the length of its text: either there is a  *)
(* record and it is faithful, or there is none; and there is none exactly  *)
(* when the stream brought a text on which the slice of the preview        *)
(* panics.                                                                 *)
THEOREM RecordFaithful ==
  ASSUME NEW fs \in Streams, NEW clipped \in BOOLEAN
  PROVE  LET r == Finalize(Consume(fs), clipped, Consume(fs).streamErr, FALSE)
         IN  /\ Faithful(fs, r) \/ r = NoRecord
             /\ r = NoRecord <=> Consume(fs).text /\ clipped
<1> DEFINE st == Consume(fs)
           r == Finalize(st, clipped, st.streamErr, FALSE)
<1>1. Faithful(fs, Finalize(st, FALSE, st.streamErr, FALSE))
  BY FrameFaithful
<1> HIDE DEF st
<1>2. /\ Faithful(fs, r) \/ r = NoRecord
      /\ r = NoRecord <=> st.text /\ clipped
  <2>1. CASE st.text /\ clipped
    BY <2>1 DEF Finalize
  <2>2. CASE ~(st.text /\ clipped)
    <3>1. r = Finalize(st, FALSE, st.streamErr, FALSE)
      BY <2>2 DEF Finalize
    <3>2. r.status # "panic"
      BY <2>2 DEF Finalize
    <3>3. NoRecord.status = "panic"
      BY DEF NoRecord
    <3>4. r # NoRecord
      BY <3>2, <3>3
    <3>5. Faithful(fs, r)
      BY <1>1, <3>1
    <3> HIDE DEF r
    <3> QED BY <2>2, <3>4, <3>5
  <2> QED BY <2>1, <2>2
<1> HIDE DEF r
<1> QED BY <1>2 DEF st, r

(* With the registry loaded, an error frame also marks the stream as bad:  *)
(* what TurnAggregator knows of errors, RunAgentChat knows.                *)
THEOREM ErrorsAgree ==
  ASSUME Registry, NEW fs \in Streams
  PROVE  Consume(fs).sawError => Consume(fs).streamErr
BY ConsumeRight DEF ReadRight, FlagsRight

(* Both of every outcome of a stream: the record is faithful where there   *)
(* is one.                                                                 *)
THEOREM OutcomesFaithful ==
  ASSUME NEW o \in Outcomes
  PROVE  /\ o.faithful
         /\ o.st.sawError \in BOOLEAN /\ o.st.streamErr \in BOOLEAN
         /\ Registry => (o.st.sawError => o.st.streamErr)
<1>1. PICK fs \in Streams : o = Outcome(fs)
  BY DEF Outcomes
<1>2. /\ o.faithful = \A clipped \in BOOLEAN :
                        LET r == Finalize(Consume(fs), clipped, Consume(fs).streamErr, FALSE)
                        IN  Faithful(fs, r) \/ (r = NoRecord /\ clipped)
      /\ Consume(fs) \in States => /\ o.st.sawError = Consume(fs).sawError
                                   /\ o.st.streamErr = Consume(fs).streamErr
  BY <1>1 DEF Outcome, States
<1>3. Consume(fs) \in States
  BY ConsumeRight DEF ReadRight
<1>4. \A clipped \in BOOLEAN :
        LET r == Finalize(Consume(fs), clipped, Consume(fs).streamErr, FALSE)
        IN  Faithful(fs, r) \/ (r = NoRecord /\ clipped)
  BY RecordFaithful
<1>5. o.faithful
  BY <1>2, <1>4
<1> QED BY <1>2, <1>3, <1>5, ErrorsAgree DEF States
=============================================================================
