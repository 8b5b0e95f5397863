--------------------------- MODULE GuidedRunProofs ---------------------------
(***************************************************************************)
(* Proofs for GuidedRun: the parser hands on what the analyzer printed,    *)
(* whatever was counted; the curriculum and the panels agree with it; no   *)
(* link is dead.                                                           *)
(***************************************************************************)
EXTENDS GuidedRun, SumLemmas, SequenceTheorems, TLAPS

(* The parser's pass, line by line.  Its states after the first n lines    *)
(* are a function of n, and what they are at the end is what the fold      *)
(* computes.                                                               *)

IsPass(p, lines, state) ==
  /\ state[0] = p
  /\ \A n \in 1 .. Len(lines) : state[n] = ParseLine(state[n - 1], lines[n])

LEMMA PassExists ==
  ASSUME NEW p, NEW lines, Len(lines) \in Nat
  PROVE  \E state : IsPass(p, lines, state)
<1> DEFINE Upto(n) == \E state : /\ state[0] = p
                                 /\ \A k \in 1 .. n : state[k] = ParseLine(state[k - 1], lines[k])
           T == {n \in 0 .. Len(lines) : Upto(n)}
<1>1. 0 \in T
  <2> DEFINE state == [k \in {0} |-> p]
  <2>1. state[0] = p /\ \A k \in 1 .. 0 : state[k] = ParseLine(state[k - 1], lines[k])
    OBVIOUS
  <2> HIDE DEF state
  <2>2. Upto(0)
    BY <2>1
  <2>3. QED
    BY <2>2
<1>2. ASSUME NEW n \in 0 .. (Len(lines) - 1), n \in T PROVE n + 1 \in T
  <2>1. PICK state : /\ state[0] = p
                     /\ \A k \in 1 .. n : state[k] = ParseLine(state[k - 1], lines[k])
    BY <1>2
  <2> DEFINE next == ParseLine(state[n], lines[n + 1])
             more == [k \in 0 .. (n + 1) |-> IF k = n + 1 THEN next ELSE state[k]]
  <2>2. more[0] = p /\ more[n + 1] = next /\ \A k \in 0 .. n : more[k] = state[k]
    <3> HIDE DEF next
    <3> QED
      BY <2>1
  <2>3. ASSUME NEW k \in 1 .. (n + 1) PROVE more[k] = ParseLine(more[k - 1], lines[k])
    <3> HIDE DEF more
    <3>1. CASE k = n + 1
      <4>1. more[k - 1] = state[n]
        BY <2>2, <3>1
      <4>2. QED
        BY <2>2, <3>1, <4>1
    <3>2. CASE k # n + 1
      <4>1. k \in 1 .. n /\ k - 1 \in 0 .. n /\ k \in 0 .. n
        BY <3>2
      <4>2. QED
        BY <2>1, <2>2, <4>1
    <3>3. QED
      BY <3>1, <3>2
  <2> HIDE DEF more
  <2>4. Upto(n + 1)
    BY <2>2, <2>3
  <2>5. QED
    BY <2>4
<1>3. 0 .. Len(lines) \subseteq T
  <2> HIDE DEF T
  <2> QED
    BY <1>1, <1>2, UpToInduction
<1>4. QED
  BY <1>3 DEF IsPass

(* The fold of SequencesExt goes on over the sets of positions, the last   *)
(* position of a set first taken away.                                     *)
IsFold(p, lines, f) ==
  f = [s \in SUBSET (DOMAIN lines) |->
         IF s = {} THEN p ELSE ParseLine(f[s \ {Max(s)}], lines[Max(s)])]

LEMMA FoldIsChosen ==
  ASSUME NEW p, NEW lines
  PROVE  FoldLeft(ParseLine, p, lines) = (CHOOSE f : IsFold(p, lines, f))[DOMAIN lines]
  BY DEF FoldLeft, MapThenFoldSet, IsFold

LEMMA MaxOfPart ==
  ASSUME NEW N \in Nat, NEW s \in SUBSET (1 .. N), s # {}
  PROVE  Max(s) \in s /\ \A y \in s : Max(s) >= y
<1> DEFINE HasMax(n) == \A r \in SUBSET (1 .. n) : r # {} => \E x \in r : \A y \in r : x >= y
           T == {n \in 0 .. N : HasMax(n)}
<1>1. 0 \in T
  <2>1. 1 .. 0 = {}
    OBVIOUS
  <2>2. HasMax(0)
    BY <2>1
  <2> HIDE DEF HasMax
  <2>3. QED
    BY <2>2
<1>2. ASSUME NEW n \in 0 .. (N - 1), n \in T PROVE n + 1 \in T
  <2>1. ASSUME NEW r \in SUBSET (1 .. (n + 1)), r # {} PROVE \E x \in r : \A y \in r : x >= y
    <3>1. CASE n + 1 \in r
      BY <3>1
    <3>2. CASE n + 1 \notin r
      <4>1. r \in SUBSET (1 .. n)
        BY <3>2
      <4>2. QED
        BY <1>2, <2>1, <4>1
    <3>3. QED
      BY <3>1, <3>2
  <2>2. QED
    BY <2>1
<1>3. N \in T
  <2> HIDE DEF T
  <2>1. 0 .. N \subseteq T
    BY <1>1, <1>2, UpToInduction
  <2>2. QED
    BY <2>1
<1>4. QED
  BY <1>3 DEF Max

LEMMA FoldExists ==
  ASSUME NEW p, NEW lines, NEW N \in Nat, DOMAIN lines = 1 .. N
  PROVE  \E f : IsFold(p, lines, f)
<1> DEFINE S == 1 .. N
           FoldStep(f, s) == IF s = {} THEN p ELSE ParseLine(f[s \ {Max(s)}], lines[Max(s)])
           Holds(n) == \E f : \A s \in SUBSET (1 .. n) : f[s] = FoldStep(f, s)
           T == {n \in 0 .. N : Holds(n)}
<1>1. 0 \in T
  <2> DEFINE f == [s \in {{}} |-> p]
  <2>1. 1 .. 0 = {}
    OBVIOUS
  <2>2. \A s \in SUBSET (1 .. 0) : f[s] = FoldStep(f, s)
    BY <2>1
  <2>3. Holds(0)
    <3> HIDE DEF f
    <3> QED
      BY <2>2
  <2> HIDE DEF Holds
  <2>4. QED
    BY <2>3
<1>2. ASSUME NEW n \in 0 .. (N - 1), n \in T PROVE n + 1 \in T
  <2>1. PICK f : \A s \in SUBSET (1 .. n) : f[s] = FoldStep(f, s)
    BY <1>2
  <2> DEFINE more == [s \in SUBSET (1 .. (n + 1)) |->
                        IF s \in SUBSET (1 .. n) THEN f[s] ELSE FoldStep(f, s)]
  <2>2. ASSUME NEW s \in SUBSET (1 .. (n + 1)) PROVE more[s] = FoldStep(more, s)
    <3>1. CASE s = {}
      BY <2>1, <3>1
    <3>2. CASE s # {}
      <4>1. Max(s) \in s /\ \A y \in s : Max(s) >= y
        <5>1. n + 1 \in Nat
          OBVIOUS
        <5>2. QED
          BY <3>2, <5>1, MaxOfPart
      <4> DEFINE m == Max(s)
                 r == s \ {m}
      <4>2. r \in SUBSET (1 .. n)
        <5> HIDE DEF m
        <5>1. m \in s /\ \A y \in s : m >= y
          BY <4>1 DEF m
        <5>2. \A y \in s : y # m => y \in 1 .. n
          BY <5>1
        <5>3. QED
          BY <5>2
      <4>3. more[r] = f[r]
        BY <4>2
      <4>4. more[s] = FoldStep(f, s)
        BY <2>1
      <4> HIDE DEF more
      <4>5. QED
        BY <3>2, <4>3, <4>4
    <3>3. QED
      BY <3>1, <3>2
  <2>3. Holds(n + 1)
    <3> HIDE DEF more
    <3> QED
      BY <2>2
  <2> HIDE DEF Holds
  <2>4. QED
    BY <2>3
<1>3. N \in T
  <2> HIDE DEF T
  <2>1. 0 .. N \subseteq T
    BY <1>1, <1>2, UpToInduction
  <2>2. QED
    BY <2>1
<1>4. PICK f : \A s \in SUBSET (1 .. N) : f[s] = FoldStep(f, s)
  BY <1>3
<1> DEFINE g == [s \in SUBSET (1 .. N) |-> f[s]]
<1>5. \A s \in SUBSET (1 .. N) : FoldStep(g, s) = FoldStep(f, s)
  OBVIOUS
<1>6. IsFold(p, lines, g)
  BY <1>4, <1>5 DEF IsFold
<1>7. QED
  BY <1>6

LEMMA FoldIsPass ==
  ASSUME NEW p, NEW lines, Len(lines) \in Nat, DOMAIN lines = 1 .. Len(lines),
         NEW state, IsPass(p, lines, state)
  PROVE  FoldLeft(ParseLine, p, lines) = state[Len(lines)]
<1> DEFINE N == Len(lines)
           f == CHOOSE f : IsFold(p, lines, f)
           T == {n \in 0 .. N : f[1 .. n] = state[n]}
<1>1. IsFold(p, lines, f)
  BY FoldExists
<1>2. \A s \in SUBSET (1 .. N) :
        f[s] = IF s = {} THEN p ELSE ParseLine(f[s \ {Max(s)}], lines[Max(s)])
  <2> HIDE DEF f
  <2> QED
    BY <1>1 DEF IsFold
<1> HIDE DEF f
<1>3. 0 \in T
  <2>1. 1 .. 0 = {}
    OBVIOUS
  <2>2. f[{}] = p
    BY <1>2
  <2>3. QED
    BY <2>1, <2>2 DEF IsPass
<1>4. ASSUME NEW n \in 0 .. (N - 1), n \in T PROVE n + 1 \in T
  <2>1. Max(1 .. (n + 1)) = n + 1
    <3>1. /\ Max(1 .. (n + 1)) \in 1 .. (n + 1)
          /\ \A y \in 1 .. (n + 1) : Max(1 .. (n + 1)) >= y
      <4>1. n + 1 \in Nat /\ 1 .. (n + 1) # {} /\ 1 .. (n + 1) \in SUBSET (1 .. (n + 1))
        OBVIOUS
      <4>2. QED
        BY <4>1, MaxOfPart
    <3>2. QED
      BY <3>1
  <2>2. (1 .. (n + 1)) \ {n + 1} = 1 .. n
    OBVIOUS
  <2>3. 1 .. (n + 1) \in SUBSET (1 .. N) /\ n + 1 \in 1 .. (n + 1)
    OBVIOUS
  <2>4. f[1 .. (n + 1)] = ParseLine(f[1 .. n], lines[n + 1])
    BY <1>2, <2>1, <2>2, <2>3
  <2>5. state[n + 1] = ParseLine(state[n], lines[n + 1])
    <3>1. n + 1 \in 1 .. N /\ (n + 1) - 1 = n
      OBVIOUS
    <3>2. QED
      BY <3>1 DEF IsPass
  <2>6. QED
    BY <1>4, <2>4, <2>5
<1>5. N \in T
  <2> HIDE DEF T
  <2>1. 0 .. N \subseteq T
    BY <1>3, <1>4, UpToInduction
  <2>2. QED
    BY <2>1
<1>6. QED
  BY <1>1, <1>5, FoldIsChosen DEF f

\* What the parser knows after some lines, from what it knew before them.
Parsing(p, lines) == FoldLeft(ParseLine, p, lines)

LEMMA ParseNothing == ASSUME NEW p PROVE Parsing(p, <<>>) = p
<1> DEFINE state == [n \in 0 .. 0 |-> p]
<1>1. Len(<<>>) = 0 /\ DOMAIN <<>> = 1 .. 0
  OBVIOUS
<1>2. IsPass(p, <<>>, state) /\ state[0] = p
  BY <1>1 DEF IsPass
<1> HIDE DEF state
<1>3. QED
  BY <1>1, <1>2, FoldIsPass DEF Parsing

LEMMA ParseOne == ASSUME NEW p, NEW line PROVE Parsing(p, <<line>>) = ParseLine(p, line)
<1> DEFINE next == ParseLine(p, line)
           state == [n \in 0 .. 1 |-> IF n = 0 THEN p ELSE next]
<1>1. Len(<<line>>) = 1 /\ DOMAIN <<line>> = 1 .. 1 /\ <<line>>[1] = line
  OBVIOUS
<1>2. state[0] = p /\ state[1] = next
  <2> HIDE DEF next
  <2> QED
    OBVIOUS
<1> HIDE DEF state
<1>3. IsPass(p, <<line>>, state)
  <2>1. \A n \in 1 .. 1 : n = 1 /\ n - 1 = 0
    OBVIOUS
  <2>2. QED
    BY <1>1, <1>2, <2>1 DEF IsPass
<1>4. QED
  BY <1>1, <1>2, <1>3, FoldIsPass DEF Parsing

\* What lines are made of does not matter to their order.
IsSeq(lines) == \E S : lines \in Seq(S)

LEMMA JoinedIsSeq == ASSUME NEW a, IsSeq(a), NEW b, IsSeq(b) PROVE IsSeq(a \o b)
<1>1. PICK A : a \in Seq(A)
  BY DEF IsSeq
<1>2. PICK B : b \in Seq(B)
  BY DEF IsSeq
<1>3. a \in Seq(A \cup B) /\ b \in Seq(A \cup B)
  BY <1>1, <1>2
<1>4. a \o b \in Seq(A \cup B)
  BY <1>3
<1>5. QED
  BY <1>4 DEF IsSeq

LEMMA ParseInTurn ==
  ASSUME NEW p, NEW a, IsSeq(a), NEW b, IsSeq(b)
  PROVE  Parsing(p, a \o b) = Parsing(Parsing(p, a), b)
<1>0. PICK A, B : a \in Seq(A) /\ b \in Seq(B)
  BY DEF IsSeq
<1>1. /\ Len(a) \in Nat /\ Len(b) \in Nat /\ Len(a \o b) = Len(a) + Len(b)
      /\ DOMAIN a = 1 .. Len(a) /\ DOMAIN b = 1 .. Len(b)
      /\ DOMAIN (a \o b) = 1 .. Len(a \o b) /\ Len(a \o b) \in Nat
  BY <1>0
<1>2. PICK state : IsPass(p, a \o b, state)
  BY <1>1, PassExists
<1>3. IsPass(p, a, state)
  <2>1. \A n \in 1 .. Len(a) : n \in 1 .. Len(a \o b) /\ (a \o b)[n] = a[n]
    BY <1>1
  <2>2. QED
    BY <1>2, <2>1 DEF IsPass
<1> DEFINE rest == [n \in 0 .. Len(b) |-> state[Len(a) + n]]
<1>4. IsPass(state[Len(a)], b, rest) /\ rest[Len(b)] = state[Len(a \o b)]
  <2>1. ASSUME NEW n \in 1 .. Len(b) PROVE rest[n] = ParseLine(rest[n - 1], b[n])
    <3>1. /\ Len(a) + n \in 1 .. Len(a \o b) /\ (Len(a) + n) - 1 = Len(a) + (n - 1)
          /\ (a \o b)[Len(a) + n] = b[n]
      BY <1>1
    <3>2. rest[n] = state[Len(a) + n] /\ rest[n - 1] = state[Len(a) + (n - 1)]
      BY <1>1
    <3> HIDE DEF rest
    <3>3. QED
      BY <1>2, <3>1, <3>2 DEF IsPass
  <2>2. rest[0] = state[Len(a)] /\ rest[Len(b)] = state[Len(a \o b)]
    BY <1>1
  <2> HIDE DEF rest
  <2>3. QED
    BY <2>1, <2>2 DEF IsPass
<1>5. Parsing(p, a \o b) = state[Len(a \o b)] /\ Parsing(p, a) = state[Len(a)]
  BY <1>1, <1>2, <1>3, FoldIsPass DEF Parsing
<1>6. Parsing(state[Len(a)], b) = rest[Len(b)]
  <2> HIDE DEF rest
  <2> QED
    BY <1>1, <1>4, FoldIsPass DEF Parsing
<1>7. QED
  BY <1>4, <1>5, <1>6

-------------------------------------------------------------------------------
(* What each kind of line does to what the parser knows. *)

Fields == {"section", "runtimeHealth", "schedulerMode", "eventCounts", "severityCounts",
           "taskMetrics", "messageSummary", "rootCauses", "currentTask", "currentTaskMetric"}

IsParser(p) == p = [field \in Fields |-> p[field]]

\* The words before a colon that are explained wherever they are.
Openings == {"Runtime_status", "Scheduler_mode"}

LEMMA StartsAsParser == IsParser(Parser)
  BY DEF IsParser, Fields, Parser

LEMMA HeadingRead ==
  ASSUME NEW p, NEW key \in Headings
  PROVE  ParseLine(p, Heading(0, key)) = [p EXCEPT !.section = key]
  BY DEF ParseLine, Heading, Line, Headings

LEMMA TextPassedOver ==
  ASSUME NEW p, NEW key, key \notin Openings
  PROVE  ParseLine(p, Text(key)) = p
  BY DEF ParseLine, InSection, Text, Line, Openings, HasColon, StartsWithDash

\* The sections that count, and where.
Counts(section, field) ==
  <<section, field>> \in
    {<<"Event_counts", "eventCounts">>, <<"Severity_counts", "severityCounts">>}

Counted(p, field, key, n) == [p EXCEPT ![field] = Put(p[field], key, n)]

LEMMA LineCounted ==
  ASSUME NEW p, IsParser(p), NEW field, Counts(p.section, field),
         NEW key, key \notin Openings, NEW n
  PROVE  ParseLine(p, Value(2, key, n)) = Counted(p, field, key, n)
<1>1. CASE p.section = "Event_counts" /\ field = "eventCounts"
  BY <1>1 DEF ParseLine, InSection, Value, Line, Openings, HasColon, IsParser, Fields, Counted
<1>2. CASE p.section = "Severity_counts" /\ field = "severityCounts"
  BY <1>2 DEF ParseLine, InSection, Value, Line, Openings, HasColon, IsParser, Fields, Counted
<1>3. QED
  BY <1>1, <1>2 DEF Counts

LEMMA TaskOpened ==
  ASSUME NEW p, IsParser(p), p.section = "Task_summary", NEW t \in Tasks
  PROVE  ParseLine(p, Heading(2, t)) =
           [p EXCEPT !.taskMetrics = Flushed(p), !.currentTask = t, !.currentTaskMetric = NoMetric]
  BY DEF ParseLine, InSection, Heading, Line, HasColon, Headings, Tasks, StartsWithDash

LEMMA MetricRead ==
  ASSUME NEW p, IsParser(p), p.section = "Task_summary", p.currentTask \in Tasks,
         NEW key \in DOMAIN NoMetric, DOMAIN p.currentTaskMetric = DOMAIN NoMetric, NEW n
  PROVE  ParseLine(p, Value(4, key, n)) =
           [p EXCEPT !.currentTaskMetric = [p.currentTaskMetric EXCEPT ![key] = n]]
  BY DEF ParseLine, InSection, Value, Line, HasColon, Headings, Tasks, StartsWithDash,
         NoMetric, NoTask, Update, IsParser, Fields

LEMMA MessagesRead ==
  ASSUME NEW p, IsParser(p), p.section = "Message_summary",
         NEW key \in DOMAIN NoMessages, DOMAIN p.messageSummary = DOMAIN NoMessages, NEW n
  PROVE  ParseLine(p, Value(2, key, n)) =
           [p EXCEPT !.messageSummary = [p.messageSummary EXCEPT ![key] = n]]
  BY DEF ParseLine, InSection, Value, Line, HasColon, Headings, StartsWithDash, NoMessages,
         Update, IsParser, Fields

LEMMA CauseRead ==
  ASSUME NEW p, IsParser(p), p.section = "Likely_root_causes",
         NEW cause, cause = Cause(cause.says, cause.task), cause.says \notin Openings
  PROVE  ParseLine(p, Item(cause)) = [p EXCEPT !.rootCauses = Append(p.rootCauses, cause)]
  BY DEF ParseLine, InSection, Item, Line, HasColon, Headings, StartsWithDash, Openings,
         IsParser, Fields

\* Sections the parser enters by their headings and takes nothing from.
Skimmed == {"Fault_summary", "Watchdog_summary", "Task_failure_summary"}

LEMMA SkimmedLine ==
  ASSUME NEW p, p.section \in Skimmed, NEW line, line.key \notin Openings,
         ~(line.mark = "heading" /\ line.key \in Headings)
  PROVE  ParseLine(p, line) = p
  BY DEF ParseLine, InSection, Skimmed, Openings

LEMMA RootCauseLine ==
  ASSUME NEW p, p.section = "Likely_root_causes", NEW line, line.key \notin Openings,
         ~(line.mark = "heading" /\ line.key \in Headings), ~StartsWithDash(line)
  PROVE  ParseLine(p, line) = p
  BY DEF ParseLine, InSection, Openings
-------------------------------------------------------------------------------
(* What each section does. *)

LEMMA TupleIsSeq ==
  /\ IsSeq(<<>>)
  /\ \A a : IsSeq(<<a>>)
  /\ \A a, b : IsSeq(<<a, b>>)
  /\ \A a, b, c : IsSeq(<<a, b, c>>)
  /\ \A a, b, c, d : IsSeq(<<a, b, c, d>>)
<1>1. IsSeq(<<>>)
  <2>1. <<>> \in Seq({})
    OBVIOUS
  <2>2. QED
    BY <2>1 DEF IsSeq
<1>2. ASSUME NEW a, NEW b, NEW c, NEW d
      PROVE  IsSeq(<<a>>) /\ IsSeq(<<a, b>>) /\ IsSeq(<<a, b, c>>) /\ IsSeq(<<a, b, c, d>>)
  <2> DEFINE S == {a, b, c, d}
  <2>1. a \in S /\ b \in S /\ c \in S /\ d \in S
    OBVIOUS
  <2> HIDE DEF S
  <2>2. /\ <<a>> \in Seq(S) /\ <<a, b>> \in Seq(S) /\ <<a, b, c>> \in Seq(S)
        /\ <<a, b, c, d>> \in Seq(S)
    BY <2>1
  <2>3. QED
    BY <2>2 DEF IsSeq
<1>3. QED
  BY <1>1, <1>2

LEMMA ParseTwo ==
  ASSUME NEW p, NEW a, NEW b
  PROVE  Parsing(p, <<a, b>>) = ParseLine(ParseLine(p, a), b)
<1> DEFINE first == <<a>>
           rest == <<b>>
           both == <<a, b>>
           joined == first \o rest
           S == {a, b}
<1>1. both = joined
  <2>1. a \in S /\ b \in S
    OBVIOUS
  <2> HIDE DEF S
  <2>2. \A n \in 1 .. Len(both) : both[n] = joined[n]
    OBVIOUS
  <2>3. both \in Seq(S) /\ joined \in Seq(S) /\ Len(both) = Len(joined)
    BY <2>1
  <2> HIDE DEF both, joined
  <2>4. QED
    BY <2>2, <2>3, SeqEqual
<1>2. IsSeq(first) /\ IsSeq(rest)
  BY TupleIsSeq
<1>3. /\ Parsing(p, first) = ParseLine(p, a)
      /\ Parsing(ParseLine(p, a), rest) = ParseLine(ParseLine(p, a), b)
  BY ParseOne
<1> HIDE DEF first, rest
<1>4. Parsing(p, first \o rest) = Parsing(Parsing(p, first), rest)
  BY <1>2, ParseInTurn
<1>5. QED
  BY <1>1, <1>3, <1>4 DEF both, joined

LEMMA ParseThree ==
  ASSUME NEW p, NEW a, NEW b, NEW c
  PROVE  Parsing(p, <<a, b, c>>) =
           ParseLine(ParseLine(ParseLine(p, a), b), c)
<1> DEFINE first == <<a>>
           rest == <<b, c>>
           S == {a, b, c}
<1>1. <<a, b, c>> = first \o rest
  <2>1. a \in S /\ b \in S /\ c \in S
    OBVIOUS
  <2> HIDE DEF S
  <2>2. QED
    BY <2>1
<1>2. IsSeq(first) /\ IsSeq(rest)
  BY TupleIsSeq
<1>3. /\ Parsing(p, first) = ParseLine(p, a)
      /\ Parsing(ParseLine(p, a), rest) =
           ParseLine(ParseLine(ParseLine(p, a), b), c)
  BY ParseOne, ParseTwo
<1> HIDE DEF first, rest
<1>4. Parsing(p, first \o rest) = Parsing(Parsing(p, first), rest)
  BY <1>2, ParseInTurn
<1>5. QED
  BY <1>1, <1>3, <1>4 DEF first, rest

LEMMA ParseFour ==
  ASSUME NEW p, NEW a, NEW b, NEW c, NEW d
  PROVE  Parsing(p, <<a, b, c, d>>) =
           ParseLine(ParseLine(ParseLine(ParseLine(p, a), b), c), d)
<1> DEFINE first == <<a, b>>
           rest == <<c, d>>
           S == {a, b, c, d}
<1>1. <<a, b, c, d>> = first \o rest
  <2>1. a \in S /\ b \in S /\ c \in S /\ d \in S
    OBVIOUS
  <2> HIDE DEF S
  <2>2. QED
    BY <2>1
<1>2. IsSeq(first) /\ IsSeq(rest)
  BY TupleIsSeq
<1>3. /\ Parsing(p, first) = ParseLine(ParseLine(p, a), b)
      /\ Parsing(ParseLine(ParseLine(p, a), b), rest) =
           ParseLine(ParseLine(ParseLine(ParseLine(p, a), b), c), d)
  BY ParseTwo
<1> HIDE DEF first, rest
<1>4. Parsing(p, first \o rest) = Parsing(Parsing(p, first), rest)
  BY <1>2, ParseInTurn
<1>5. QED
  BY <1>1, <1>3, <1>4 DEF first, rest

LEMMA ParseSeven ==
  ASSUME NEW p, NEW a, NEW b, NEW c, NEW d, NEW e, NEW f, NEW g
  PROVE  Parsing(p, <<a, b, c, d, e, f, g>>) =
           Parsing(Parsing(p, <<a, b, c, d>>), <<e, f, g>>)
<1> DEFINE first == <<a, b, c, d>>
           rest == <<e, f, g>>
           S == {a, b, c, d, e, f, g}
<1>1. <<a, b, c, d, e, f, g>> = first \o rest
  <2>1. a \in S /\ b \in S /\ c \in S /\ d \in S /\ e \in S /\ f \in S /\ g \in S
    OBVIOUS
  <2> HIDE DEF S
  <2>2. QED
    BY <2>1
<1>2. IsSeq(first) /\ IsSeq(rest)
  BY TupleIsSeq
<1> HIDE DEF first, rest
<1>3. Parsing(p, first \o rest) = Parsing(Parsing(p, first), rest)
  BY <1>2, ParseInTurn
<1>4. QED
  BY <1>1, <1>3 DEF first, rest

\* The report's metrics of a task.
Metric(l, t) ==
  [runs |-> Many, deadline_misses |-> l.misses[t], deadline_missed_events |-> l.marked[t]]

AfterTask(p, l, t) ==
  [p EXCEPT !.taskMetrics = Flushed(p), !.currentTask = t, !.currentTaskMetric = Metric(l, t)]

LEMMA TaskSummaryRead ==
  ASSUME NEW p, IsParser(p), p.section = "Task_summary", NEW l, NEW t \in Tasks
  PROVE  Parsing(p, TaskSummary(l, t)) = AfterTask(p, l, t)
<1> DEFINE p1 == [p EXCEPT !.taskMetrics = Flushed(p), !.currentTask = t,
                           !.currentTaskMetric = NoMetric]
           m2 == [NoMetric EXCEPT !["runs"] = Many]
           p2 == [p1 EXCEPT !.currentTaskMetric = m2]
           m3 == [m2 EXCEPT !["deadline_misses"] = l.misses[t]]
           p3 == [p2 EXCEPT !.currentTaskMetric = m3]
           m4 == [m3 EXCEPT !["deadline_missed_events"] = l.marked[t]]
           p4 == [p3 EXCEPT !.currentTaskMetric = m4]
<1>1. ParseLine(p, Heading(2, t)) = p1
  BY TaskOpened
<1>2. /\ IsParser(p1)
      /\ p1.section = "Task_summary"
      /\ p1.currentTask = t
      /\ p1.currentTaskMetric = NoMetric
  BY DEF IsParser, Fields
<1>3. ParseLine(p1, Value(4, "runs", Many)) = p2
  <2> HIDE DEF p1
  <2>1. "runs" \in DOMAIN NoMetric
    BY DEF NoMetric
  <2>2. ParseLine(p1, Value(4, "runs", Many)) =
          [p1 EXCEPT !.currentTaskMetric = [p1.currentTaskMetric EXCEPT !["runs"] = Many]]
    BY <1>2, <2>1, MetricRead
  <2>3. QED
    BY <1>2, <2>2
<1>4. IsParser(p2) /\ p2.section = "Task_summary" /\ p2.currentTask = t /\ p2.currentTaskMetric = m2
      /\ DOMAIN m2 = DOMAIN NoMetric
  <2> HIDE DEF p1
  <2> QED
    BY <1>2 DEF IsParser, Fields
<1>5. ParseLine(p2, Value(4, "deadline_misses", l.misses[t])) = p3
  <2> HIDE DEF p2, m2
  <2>1. "deadline_misses" \in DOMAIN NoMetric
    BY DEF NoMetric
  <2>2. ParseLine(p2, Value(4, "deadline_misses", l.misses[t])) =
          [p2 EXCEPT !.currentTaskMetric =
             [p2.currentTaskMetric EXCEPT !["deadline_misses"] = l.misses[t]]]
    BY <1>4, <2>1, MetricRead
  <2>3. QED
    BY <1>4, <2>2
<1>6. IsParser(p3) /\ p3.section = "Task_summary" /\ p3.currentTask = t /\ p3.currentTaskMetric = m3
      /\ DOMAIN m3 = DOMAIN NoMetric
  <2> HIDE DEF p2, m2
  <2> QED
    BY <1>4 DEF IsParser, Fields
<1>7. ParseLine(p3, Value(4, "deadline_missed_events", l.marked[t])) = p4
  <2> HIDE DEF p3, m3
  <2>1. "deadline_missed_events" \in DOMAIN NoMetric
    BY DEF NoMetric
  <2>2. ParseLine(p3, Value(4, "deadline_missed_events", l.marked[t])) =
          [p3 EXCEPT !.currentTaskMetric =
             [p3.currentTaskMetric EXCEPT !["deadline_missed_events"] = l.marked[t]]]
    BY <1>6, <2>1, MetricRead
  <2>3. QED
    BY <1>6, <2>2
<1>8. Parsing(p, TaskSummary(l, t)) = p4
  <2> HIDE DEF p1, p2, p3, p4
  <2> QED
    BY <1>1, <1>3, <1>5, <1>7, ParseFour DEF TaskSummary
<1>9. m4 = Metric(l, t)
  BY DEF NoMetric, Metric
<1>10. p4 = [p EXCEPT !.taskMetrics = Flushed(p), !.currentTask = t, !.currentTaskMetric = m4]
  <2> HIDE DEF m4, m3, m2
  <2> QED
    BY DEF IsParser, Fields
<1>11. QED
  BY <1>8, <1>9, <1>10 DEF AfterTask
-------------------------------------------------------------------------------
(* The sections of counts. *)

CountLine(keys, count, n) == When(count[n] > 0, Value(2, keys[n], count[n]))
Longer(lines, keys, count, n) == lines \o CountLine(keys, count, n)

LEMMA CounterLines ==
  ASSUME NEW keys, Len(keys) \in Nat, NEW count
  PROVE  \E first : /\ first[0] = <<>>
                    /\ \A n \in 1 .. Len(keys) : first[n] = Longer(first[n - 1], keys, count, n)
                    /\ Counter(keys, count) = first[Len(keys)]
<1> DEFINE N == Len(keys)
           IsFirst(f) == f = [i \in 0 .. N |->
                                IF i = 0 THEN <<>> ELSE Longer(f[i - 1], keys, count, i)]
           Upto(n) == \E f : /\ f[0] = <<>>
                             /\ \A k \in 1 .. n : f[k] = Longer(f[k - 1], keys, count, k)
           T == {n \in 0 .. N : Upto(n)}
<1>1. 0 \in T
  <2> DEFINE f == [k \in {0} |-> <<>>]
  <2>1. f[0] = <<>> /\ \A k \in 1 .. 0 : f[k] = Longer(f[k - 1], keys, count, k)
    OBVIOUS
  <2> HIDE DEF f
  <2>2. Upto(0)
    BY <2>1
  <2>3. QED
    BY <2>2
<1>2. ASSUME NEW n \in 0 .. (N - 1), n \in T PROVE n + 1 \in T
  <2>1. PICK f : /\ f[0] = <<>>
                 /\ \A k \in 1 .. n : f[k] = Longer(f[k - 1], keys, count, k)
    BY <1>2
  <2> DEFINE next == Longer(f[n], keys, count, n + 1)
             more == [k \in 0 .. (n + 1) |-> IF k = n + 1 THEN next ELSE f[k]]
  <2>2. more[0] = <<>> /\ more[n + 1] = next /\ \A k \in 0 .. n : more[k] = f[k]
    <3> HIDE DEF next
    <3> QED
      BY <2>1
  <2>3. ASSUME NEW k \in 1 .. (n + 1) PROVE more[k] = Longer(more[k - 1], keys, count, k)
    <3> HIDE DEF more
    <3>1. CASE k = n + 1
      <4>1. more[k - 1] = f[n]
        BY <2>2, <3>1
      <4>2. QED
        BY <2>2, <3>1, <4>1
    <3>2. CASE k # n + 1
      <4>1. k \in 1 .. n /\ k - 1 \in 0 .. n /\ k \in 0 .. n
        BY <3>2
      <4>2. QED
        BY <2>1, <2>2, <4>1
    <3>3. QED
      BY <3>1, <3>2
  <2> HIDE DEF more
  <2>4. Upto(n + 1)
    BY <2>2, <2>3
  <2>5. QED
    BY <2>4
<1>3. Upto(N)
  <2>1. 0 .. N \subseteq T
    <3> HIDE DEF T
    <3> QED
      BY <1>1, <1>2, UpToInduction
  <2> HIDE DEF Upto
  <2>2. QED
    BY <2>1
<1>4. PICK f : f[0] = <<>> /\ \A k \in 1 .. N : f[k] = Longer(f[k - 1], keys, count, k)
  BY <1>3
<1> DEFINE g == [i \in 0 .. N |-> f[i]]
<1>5. IsFirst(g)
  <2>1. \A i \in 0 .. N : f[i] = IF i = 0 THEN <<>> ELSE Longer(f[i - 1], keys, count, i)
    BY <1>4
  <2>2. \A i \in 0 .. N : i # 0 => g[i - 1] = f[i - 1]
    OBVIOUS
  <2>3. \A i \in 0 .. N : f[i] = IF i = 0 THEN <<>> ELSE Longer(g[i - 1], keys, count, i)
    BY <2>1, <2>2
  <2>4. QED
    BY <2>3
<1> DEFINE first == CHOOSE h : IsFirst(h)
<1>6. IsFirst(first)
  <2> HIDE DEF g, IsFirst
  <2> QED
    BY <1>5
<1>7. Counter(keys, count) = first[N]
  BY DEF Counter, Longer, CountLine
<1> HIDE DEF first
<1>8. /\ first[0] = <<>>
      /\ \A n \in 1 .. N : first[n] = Longer(first[n - 1], keys, count, n)
  BY <1>6
<1>9. QED
  BY <1>7, <1>8

\* What a counter keeps of numbers that are known by their keys.
Kept(keys, count, of, n) == [key \in {keys[k] : k \in {k \in 1 .. n : count[k] > 0}} |-> of[key]]

Numbers(keys, count, of) ==
  \A n \in 1 .. Len(keys) :
    keys[n] \notin Openings /\ count[n] \in Nat /\ count[n] = of[keys[n]]

CounterIsRead(p, field, keys, count, of) ==
  /\ IsSeq(Counter(keys, count))
  /\ Parsing(p, Counter(keys, count)) = [p EXCEPT ![field] = Kept(keys, count, of, Len(keys))]

LEMMA CounterRead ==
  ASSUME NEW p, IsParser(p), NEW field, Counts(p.section, field), p[field] = Empty,
         NEW keys, Len(keys) \in Nat, NEW of, NEW count, Numbers(keys, count, of)
  PROVE  CounterIsRead(p, field, keys, count, of)
<1> DEFINE N == Len(keys)
           q(n) == [p EXCEPT ![field] = Kept(keys, count, of, n)]
<1>1. field \in Fields /\ field # "section"
  BY DEF Counts, Fields
<1>2. PICK first : /\ first[0] = <<>>
                   /\ \A n \in 1 .. N : first[n] = Longer(first[n - 1], keys, count, n)
                   /\ Counter(keys, count) = first[N]
  BY CounterLines
<1> DEFINE Done(n) == IsSeq(first[n]) /\ Parsing(p, first[n]) = q(n)
           T == {n \in 0 .. N : Done(n)}
<1>3. 0 \in T
  <2>1. Kept(keys, count, of, 0) = Empty
    BY DEF Kept, Empty
  <2>2. q(0) = p
    BY <1>1, <2>1 DEF IsParser
  <2>3. Done(0)
    BY <1>2, <2>2, ParseNothing, TupleIsSeq
  <2> HIDE DEF Done
  <2>4. QED
    BY <2>3
<1>4. ASSUME NEW n \in 0 .. (N - 1), n \in T PROVE n + 1 \in T
  <2> DEFINE key == keys[n + 1]
             number == count[n + 1]
             line == Value(2, key, number)
             last == <<line>>
  <2>1. IsSeq(first[n]) /\ Parsing(p, first[n]) = q(n)
    BY <1>4
  <2>2. n + 1 \in 1 .. N /\ (n + 1) - 1 = n
    OBVIOUS
  <2>3. key \notin Openings /\ number \in Nat /\ number = of[key]
    BY <2>2 DEF Numbers
  <2>4. first[n + 1] = first[n] \o CountLine(keys, count, n + 1)
    BY <1>2, <2>2 DEF Longer
  <2>5. CASE number > 0
    <3>1. IsParser(q(n)) /\ Counts(q(n).section, field) /\ q(n)[field] = Kept(keys, count, of, n)
      BY <1>1 DEF IsParser, Fields
    <3>2. ParseLine(q(n), line) = Counted(q(n), field, key, number)
      <4> HIDE DEF q, key, number
      <4> QED
        BY <2>3, <3>1, LineCounted
    <3>3. Put(Kept(keys, count, of, n), key, number) = Kept(keys, count, of, n + 1)
      <4> DEFINE old == {keys[k] : k \in {k \in 1 .. n : count[k] > 0}}
                 new == {keys[k] : k \in {k \in 1 .. (n + 1) : count[k] > 0}}
      <4>1. new = old \cup {key}
        BY <2>2, <2>5
      <4> HIDE DEF old, new, key, number
      <4>2. Put([k \in old |-> of[k]], key, number) = [k \in new |-> of[k]]
        BY <2>3, <4>1 DEF Put
      <4>3. QED
        BY <4>2 DEF Kept, old, new
    <3>4. Counted(q(n), field, key, number) = q(n + 1)
      <4> HIDE DEF key, number
      <4> QED
        BY <1>1, <3>1, <3>3 DEF Counted
    <3>5. CountLine(keys, count, n + 1) = last
      BY <2>5 DEF CountLine, When
    <3>6. IsSeq(last) /\ Parsing(q(n), last) = ParseLine(q(n), line)
      BY ParseOne, TupleIsSeq
    <3> HIDE DEF last, q, line, key, number
    <3>7. /\ IsSeq(first[n] \o last)
          /\ Parsing(p, first[n] \o last) = Parsing(Parsing(p, first[n]), last)
      BY <2>1, <3>6, ParseInTurn, JoinedIsSeq
    <3>8. Done(n + 1)
      BY <2>1, <2>4, <3>2, <3>4, <3>5, <3>6, <3>7
    <3> HIDE DEF Done
    <3>9. QED
      BY <2>2, <3>8
  <2>6. CASE ~(number > 0)
    <3>1. first[n + 1] = first[n]
      <4>1. first[n + 1] = first[n] \o <<>>
        BY <2>4, <2>6 DEF CountLine, When
      <4>2. PICK S : first[n] \in Seq(S)
        BY <2>1 DEF IsSeq
      <4>3. QED
        BY <4>1, <4>2
    <3>2. Kept(keys, count, of, n + 1) = Kept(keys, count, of, n)
      <4>1. {k \in 1 .. (n + 1) : count[k] > 0} = {k \in 1 .. n : count[k] > 0}
        BY <2>2, <2>6
      <4>2. QED
        BY <4>1 DEF Kept
    <3>3. Done(n + 1)
      BY <2>1, <3>1, <3>2
    <3> HIDE DEF Done
    <3>4. QED
      BY <2>2, <3>3
  <2>7. QED
    BY <2>5, <2>6
<1>5. N \in T
  <2> HIDE DEF T
  <2>1. 0 .. N \subseteq T
    BY <1>3, <1>4, UpToInduction
  <2>2. QED
    BY <2>1
<1>6. QED
  BY <1>2, <1>5 DEF CounterIsRead
-------------------------------------------------------------------------------
(* The other sections. *)

LEMMA WordRead ==
  ASSUME NEW p, NEW word
  PROVE  /\ ParseLine(p, Word("Runtime_status", word)) = [p EXCEPT !.runtimeHealth = word]
         /\ ParseLine(p, Word("Scheduler_mode", word)) = [p EXCEPT !.schedulerMode = word]
  BY DEF ParseLine, Word, Line, Headings

\* The five numbers of the messages, and the heading after them.
MessageLines(sent, received, dropped, full, injected) ==
  <<Heading(0, "Message_summary"), Value(2, "sent", sent), Value(2, "received", received),
    Value(2, "dropped", dropped), Value(2, "queue_full_drops", full),
    Value(2, "fault_injected_drops", injected), Heading(0, "Fault_summary")>>

AfterMessages(p, sent, received, dropped, full, injected) ==
  [p EXCEPT !.section = "Fault_summary",
            !.messageSummary = [sent |-> sent, received |-> received, dropped |-> dropped,
                                queue_full_drops |-> full, fault_injected_drops |-> injected]]

LEMMA MessageSummaryRead ==
  ASSUME NEW p, IsParser(p), p.messageSummary = NoMessages,
         NEW sent, NEW received, NEW dropped, NEW full, NEW injected
  PROVE  Parsing(p, MessageLines(sent, received, dropped, full, injected)) =
           AfterMessages(p, sent, received, dropped, full, injected)
<1> DEFINE Reading(q, m) == IsParser(q) /\ q.section = "Message_summary" /\ q.messageSummary = m
                              /\ DOMAIN m = DOMAIN NoMessages
           p1 == [p EXCEPT !.section = "Message_summary"]
           m2 == [NoMessages EXCEPT !["sent"] = sent]
           p2 == [p1 EXCEPT !.messageSummary = m2]
           m3 == [m2 EXCEPT !["received"] = received]
           p3 == [p2 EXCEPT !.messageSummary = m3]
           m4 == [m3 EXCEPT !["dropped"] = dropped]
           p4 == [p3 EXCEPT !.messageSummary = m4]
           m5 == [m4 EXCEPT !["queue_full_drops"] = full]
           p5 == [p4 EXCEPT !.messageSummary = m5]
           m6 == [m5 EXCEPT !["fault_injected_drops"] = injected]
           p6 == [p5 EXCEPT !.messageSummary = m6]
           p7 == [p6 EXCEPT !.section = "Fault_summary"]
<1>0. {"sent", "received", "dropped", "queue_full_drops", "fault_injected_drops"} =
        DOMAIN NoMessages
  BY DEF NoMessages
<1>1. ParseLine(p, Heading(0, "Message_summary")) = p1
  BY HeadingRead DEF Headings
<1>2. Reading(p1, NoMessages)
  BY DEF IsParser, Fields
<1>3. ASSUME NEW q, NEW m, Reading(q, m), NEW key \in DOMAIN NoMessages, NEW n
      PROVE  /\ ParseLine(q, Value(2, key, n)) = [q EXCEPT !.messageSummary = [m EXCEPT ![key] = n]]
             /\ Reading([q EXCEPT !.messageSummary = [m EXCEPT ![key] = n]], [m EXCEPT ![key] = n])
  <2>1. ParseLine(q, Value(2, key, n)) =
          [q EXCEPT !.messageSummary = [q.messageSummary EXCEPT ![key] = n]]
    BY <1>3, MessagesRead
  <2>2. QED
    BY <1>3, <2>1 DEF IsParser, Fields
<1> HIDE DEF Reading
<1>4. ParseLine(p1, Value(2, "sent", sent)) = p2 /\ Reading(p2, m2)
  <2> HIDE DEF p1
  <2> QED
    BY <1>0, <1>2, <1>3
<1>5. ParseLine(p2, Value(2, "received", received)) = p3 /\ Reading(p3, m3)
  <2> HIDE DEF p2, m2
  <2> QED
    BY <1>0, <1>4, <1>3
<1>6. ParseLine(p3, Value(2, "dropped", dropped)) = p4 /\ Reading(p4, m4)
  <2> HIDE DEF p3, m3
  <2> QED
    BY <1>0, <1>5, <1>3
<1>7. ParseLine(p4, Value(2, "queue_full_drops", full)) = p5 /\ Reading(p5, m5)
  <2> HIDE DEF p4, m4
  <2> QED
    BY <1>0, <1>6, <1>3
<1>8. ParseLine(p5, Value(2, "fault_injected_drops", injected)) = p6 /\ Reading(p6, m6)
  <2> HIDE DEF p5, m5
  <2> QED
    BY <1>0, <1>7, <1>3
<1>9. ParseLine(p6, Heading(0, "Fault_summary")) = p7
  <2> HIDE DEF p6
  <2> QED
    BY HeadingRead DEF Headings
<1>10. Parsing(p, MessageLines(sent, received, dropped, full, injected)) = p7
  <2> HIDE DEF p1, p2, p3, p4, p5, p6, p7
  <2>1. Parsing(p, <<Heading(0, "Message_summary"), Value(2, "sent", sent),
                     Value(2, "received", received), Value(2, "dropped", dropped)>>) = p4
    BY <1>1, <1>4, <1>5, <1>6, ParseFour
  <2>2. Parsing(p4, <<Value(2, "queue_full_drops", full),
                      Value(2, "fault_injected_drops", injected),
                      Heading(0, "Fault_summary")>>) = p7
    BY <1>7, <1>8, <1>9, ParseThree
  <2>3. QED
    BY <2>1, <2>2, ParseSeven DEF MessageLines
<1>11. m6 = [sent |-> sent, received |-> received, dropped |-> dropped,
             queue_full_drops |-> full, fault_injected_drops |-> injected]
  BY DEF NoMessages
<1>12. p7 = [p EXCEPT !.section = "Fault_summary", !.messageSummary = m6]
  <2> HIDE DEF m6, m5, m4, m3, m2
  <2> QED
    BY DEF IsParser, Fields
<1>13. QED
  BY <1>10, <1>11, <1>12 DEF AfterMessages

\* Lines that change nothing one by one change nothing together.
LEMMA NothingRead ==
  ASSUME NEW p, NEW lines, IsSeq(lines), \A n \in DOMAIN lines : ParseLine(p, lines[n]) = p
  PROVE  Parsing(p, lines) = p
<1>1. PICK S : lines \in Seq(S)
  BY DEF IsSeq
<1>2. Len(lines) \in Nat /\ DOMAIN lines = 1 .. Len(lines)
  BY <1>1
<1> DEFINE state == [n \in 0 .. Len(lines) |-> p]
<1>3. /\ state[0] = p /\ state[Len(lines)] = p
      /\ \A n \in 1 .. Len(lines) : state[n] = p /\ state[n - 1] = p
  BY <1>2
<1> HIDE DEF state
<1>4. IsPass(p, lines, state)
  BY <1>2, <1>3 DEF IsPass
<1>5. QED
  BY <1>2, <1>3, <1>4, FoldIsPass DEF Parsing

\* A root cause as the analyzer builds it.
IsCause(cause) == cause = Cause(cause.says, cause.task) /\ cause.says \notin Openings

LEMMA CausesRead ==
  ASSUME NEW p, IsParser(p), p.section = "Likely_root_causes", p.rootCauses = <<>>,
         NEW S, NEW causes \in Seq(S), \A n \in 1 .. Len(causes) : IsCause(causes[n])
  PROVE  /\ IsSeq(Each(causes, Item))
         /\ Parsing(p, Each(causes, Item)) = [p EXCEPT !.rootCauses = causes]
<1> DEFINE lines == Each(causes, Item)
           N == Len(causes)
           state == [n \in 0 .. N |-> [p EXCEPT !.rootCauses = SubSeq(causes, 1, n)]]
<1>1. N \in Nat /\ DOMAIN causes = 1 .. N
  OBVIOUS
<1>2. Len(lines) = N /\ DOMAIN lines = 1 .. N /\ \A n \in 1 .. N : lines[n] = Item(causes[n])
  BY <1>1 DEF Each
<1>3. IsSeq(lines)
  <2> DEFINE T == {Item(causes[n]) : n \in 1 .. N}
  <2>1. lines \in Seq(T)
    BY <1>1 DEF Each
  <2>2. QED
    BY <2>1 DEF IsSeq
<1>4. state[0] = p
  <2>1. SubSeq(causes, 1, 0) = <<>>
    BY <1>1
  <2>2. state[0] = [p EXCEPT !.rootCauses = SubSeq(causes, 1, 0)]
    BY <1>1
  <2>3. QED
    BY <2>1, <2>2 DEF IsParser, Fields
<1>5. ASSUME NEW n \in 1 .. N PROVE state[n] = ParseLine(state[n - 1], lines[n])
  <2> DEFINE q == [p EXCEPT !.rootCauses = SubSeq(causes, 1, n - 1)]
             cause == causes[n]
  <2>1. IsParser(q) /\ q.section = "Likely_root_causes" /\ q.rootCauses = SubSeq(causes, 1, n - 1)
    BY DEF IsParser, Fields
  <2>2. IsCause(cause)
    OBVIOUS
  <2>3. ParseLine(q, Item(cause)) = [q EXCEPT !.rootCauses = Append(q.rootCauses, cause)]
    <3> HIDE DEF q, cause
    <3> QED
      BY <2>1, <2>2, CauseRead DEF IsCause
  <2>4. Append(SubSeq(causes, 1, n - 1), cause) = SubSeq(causes, 1, n)
    BY <1>1
  <2>5. [q EXCEPT !.rootCauses = SubSeq(causes, 1, n)] =
          [p EXCEPT !.rootCauses = SubSeq(causes, 1, n)]
    BY DEF IsParser, Fields
  <2>6. state[n - 1] = q /\ state[n] = [p EXCEPT !.rootCauses = SubSeq(causes, 1, n)]
    BY <1>1
  <2>7. lines[n] = Item(cause)
    BY <1>2
  <2> HIDE DEF q, state, lines, cause
  <2>8. QED
    BY <2>1, <2>3, <2>4, <2>5, <2>6, <2>7
<1>6. IsPass(p, lines, state)
  <2> HIDE DEF state, lines
  <2> QED
    BY <1>2, <1>4, <1>5 DEF IsPass
<1>7. SubSeq(causes, 1, N) = causes
  BY <1>1
<1>8. state[N] = [p EXCEPT !.rootCauses = causes]
  BY <1>1, <1>7
<1>9. QED
  <2> HIDE DEF state, lines
  <2> QED
    BY <1>1, <1>2, <1>3, <1>6, <1>8, FoldIsPass DEF Parsing, lines
-------------------------------------------------------------------------------
(* The configurations, and what a log of a run may hold. *)

LEMMA ConfigurationsAre ==
  /\ configs["normal"] = Config("round_robin", normalTasks, NoFault, FALSE)
  /\ configs["priority_scheduler"] = Config("priority", normalTasks, NoFault, FALSE)
  /\ configs["deadline_scheduler"] =
       Config("earliest_deadline_first", deadlineTasks, NoFault, FALSE)
  /\ configs["queue_overflow"] = Config("round_robin", overflowTasks, NoFault, FALSE)
  /\ configs["dropped_messages"] =
       Config("round_robin", normalTasks, Fault("dropped_messages", "LoggerTask", 0), FALSE)
  /\ configs["slow_task"] = Config("round_robin", normalTasks, SlowControlTask, FALSE)
  /\ configs["cpu_spike"] =
       Config("round_robin", normalTasks, Fault("cpu_spike", "NetworkTask", 220), FALSE)
  /\ configs["task_crash"] =
       Config("round_robin", normalTasks, Fault("task_crash", "NetworkTask", 0), FALSE)
  /\ configs["watchdog_slow_task"] = Config("round_robin", normalTasks, SlowControlTask, TRUE)
  BY DEF configs

Has(s, tasks, faults, watchdog) ==
  configs[s].tasks = tasks /\ configs[s].faults = faults /\ configs[s].watchdog = watchdog

LEMMA ConfigurationsHave ==
  /\ Has("normal", normalTasks, NoFault, FALSE)
  /\ Has("priority_scheduler", normalTasks, NoFault, FALSE)
  /\ Has("deadline_scheduler", deadlineTasks, NoFault, FALSE)
  /\ Has("queue_overflow", overflowTasks, NoFault, FALSE)
  /\ Has("dropped_messages", normalTasks, Fault("dropped_messages", "LoggerTask", 0), FALSE)
  /\ Has("slow_task", normalTasks, SlowControlTask, FALSE)
  /\ Has("cpu_spike", normalTasks, Fault("cpu_spike", "NetworkTask", 220), FALSE)
  /\ Has("task_crash", normalTasks, Fault("task_crash", "NetworkTask", 0), FALSE)
  /\ Has("watchdog_slow_task", normalTasks, SlowControlTask, TRUE)
<1>1. Has("normal", normalTasks, NoFault, FALSE)
  BY ConfigurationsAre DEF Has, Config
<1>2. Has("priority_scheduler", normalTasks, NoFault, FALSE)
  BY ConfigurationsAre DEF Has, Config
<1>3. Has("deadline_scheduler", deadlineTasks, NoFault, FALSE)
  BY ConfigurationsAre DEF Has, Config
<1>4. Has("queue_overflow", overflowTasks, NoFault, FALSE)
  BY ConfigurationsAre DEF Has, Config
<1>5. Has("dropped_messages", normalTasks, Fault("dropped_messages", "LoggerTask", 0), FALSE)
  BY ConfigurationsAre DEF Has, Config
<1>6. Has("slow_task", normalTasks, SlowControlTask, FALSE)
  BY ConfigurationsAre DEF Has, Config
<1>7. Has("cpu_spike", normalTasks, Fault("cpu_spike", "NetworkTask", 220), FALSE)
  BY ConfigurationsAre DEF Has, Config
<1>8. Has("task_crash", normalTasks, Fault("task_crash", "NetworkTask", 0), FALSE)
  BY ConfigurationsAre DEF Has, Config
<1>9. Has("watchdog_slow_task", normalTasks, SlowControlTask, TRUE)
  BY ConfigurationsAre DEF Has, Config
<1>10. QED
  BY <1>1, <1>2, <1>3, <1>4, <1>5, <1>6, <1>7, <1>8, <1>9

\* Which fault a scenario has, and that it overruns or crashes its target.
FaultKind(s) ==
  CASE s \in {"slow_task", "cpu_spike", "watchdog_slow_task"} -> "late"
    [] s = "task_crash" -> "crash"
    [] s = "dropped_messages" -> "lossy"
    [] OTHER -> "none"

LEMMA FaultsAre ==
  ASSUME NEW s \in ScenarioIds
  PROVE  /\ OverBudget(configs[s]) <=> FaultKind(s) = "late"
         /\ Crashes(configs[s]) <=> FaultKind(s) = "crash"
         /\ configs[s].faults.type = "dropped_messages" <=> FaultKind(s) = "lossy"
         /\ configs[s].faults.type = "slow_task" => FaultKind(s) = "late"
         /\ FaultKind(s) \in {"late", "crash"} => configs[s].faults.target_task \in Tasks
         /\ configs[s].watchdog => FaultKind(s) = "late"
         /\ FaultKind(s) \in {"late", "crash", "lossy", "none"}
<1> USE DEF OverBudget, Crashes, FaultKind, NoFault, Fault, SlowControlTask, Tasks, normalTasks,
            TaskConfig
<1>1. CASE s \in {"normal", "priority_scheduler", "deadline_scheduler", "queue_overflow"}
  BY <1>1, ConfigurationsHave DEF Has
<1>2. CASE s = "dropped_messages"
  BY <1>2, ConfigurationsHave DEF Has
<1>3. CASE s = "slow_task"
  BY <1>3, ConfigurationsHave DEF Has
<1>4. CASE s = "cpu_spike"
  BY <1>4, ConfigurationsHave DEF Has
<1>5. CASE s = "task_crash"
  BY <1>5, ConfigurationsHave DEF Has
<1>6. CASE s = "watchdog_slow_task"
  BY <1>6, ConfigurationsHave DEF Has
<1>7. QED
  BY <1>1, <1>2, <1>3, <1>4, <1>5, <1>6 DEF ScenarioIds

\* LoggerTask's queue fills whatever the scenario.
LEMMA QueuesFill == ASSUME NEW s \in ScenarioIds PROVE QueueFills(configs[s])
<1> USE DEF QueueFills, NoFault, Fault, SlowControlTask, normalTasks, overflowTasks, deadlineTasks,
            TaskConfig, DurationMs
<1>1. CASE s \in {"normal", "priority_scheduler"}
  BY <1>1, ConfigurationsHave DEF Has
<1>2. CASE s = "deadline_scheduler"
  BY <1>2, ConfigurationsHave DEF Has
<1>3. CASE s = "queue_overflow"
  BY <1>3, ConfigurationsHave DEF Has
<1>4. CASE s \in {"dropped_messages", "slow_task", "cpu_spike", "task_crash", "watchdog_slow_task"}
  BY <1>4, ConfigurationsHave DEF Has
<1>5. QED
  BY <1>1, <1>2, <1>3, <1>4 DEF ScenarioIds
\* A log of scenario s.
Shape(l, s) ==
  /\ l.scenario = s
  /\ \A t \in Tasks : l.misses[t] \in Nat /\ l.marked[t] \in Nat
  /\ l.queue_full \in Nat /\ l.injected \in Nat /\ l.timeouts \in Nat
  /\ l.queue_full >= Many
  /\ FaultKind(s) = "late" => l.misses[configs[s].faults.target_task] >= Many
  /\ FaultKind(s) = "lossy" <=> l.injected > 0
  /\ s = "watchdog_slow_task" <=> l.timeouts > 0

LEMMA CountsAre ==
  /\ Frequent \subseteq Count /\ \A n \in Frequent : n \in Nat /\ n >= Many
  /\ Positive \subseteq Count /\ \A n \in Positive : n \in Nat /\ n > 0
  /\ Count \subseteq Nat
  BY CountAssumption DEF Frequent, Positive

LEMMA Watched ==
  ASSUME NEW s \in ScenarioIds
  PROVE  configs[s].watchdog <=> s = "watchdog_slow_task"
  BY ConfigurationsHave DEF Has, ScenarioIds

LEMMA LogsHaveShape ==
  ASSUME NEW s \in ScenarioIds, NEW l \in LogsOf(s)
  PROVE  Shape(l, s)
<1> DEFINE c == configs[s]
           M == {m \in [Tasks -> Count] : OverBudget(c) => m[c.faults.target_task] \in Frequent}
           K == {m \in [Tasks -> {0} \cup Frequent] :
                   OverBudget(c) => m[c.faults.target_task] \in Frequent}
           Q == IF QueueFills(c) THEN Frequent ELSE {0}
           J == IF c.faults.type = "dropped_messages" THEN Positive ELSE {0}
           W == IF c.watchdog THEN Positive ELSE {0}
<1>1. PICK misses \in M, marked \in K, queue_full \in Q, injected \in J, timeouts \in W :
        l = [scenario |-> s, misses |-> misses, marked |-> marked, injected |-> injected,
             timeouts |-> timeouts, queue_full |-> queue_full]
  <2> HIDE DEF M, K, Q, J, W
  <2>1. LogsOf(s) =
          { [scenario |-> s, misses |-> misses, marked |-> marked, injected |-> injected,
             timeouts |-> timeouts, queue_full |-> queue_full] :
               misses \in M, marked \in K, queue_full \in Q, injected \in J, timeouts \in W }
    BY DEF LogsOf, M, K, Q, J, W
  <2>2. QED
    BY <2>1
<1> HIDE DEF M, K, Q, J, W
<1>2. /\ l.scenario = s /\ l.misses = misses /\ l.marked = marked
      /\ l.queue_full = queue_full /\ l.injected = injected /\ l.timeouts = timeouts
  BY <1>1
<1>3. /\ misses \in [Tasks -> Count] /\ marked \in [Tasks -> {0} \cup Frequent]
      /\ OverBudget(c) => misses[c.faults.target_task] \in Frequent
  BY DEF M, K
<1>4. ASSUME NEW t \in Tasks PROVE misses[t] \in Nat /\ marked[t] \in Nat
  <2>1. misses[t] \in Count /\ marked[t] \in {0} \cup Frequent
    BY <1>3
  <2>2. misses[t] \in Nat
    BY <2>1, CountsAre
  <2>3. marked[t] = 0 \/ marked[t] \in Frequent
    BY <2>1
  <2>4. \A n \in Frequent : n \in Nat
    BY CountsAre
  <2>5. marked[t] \in Nat
    BY <2>3, <2>4
  <2>6. QED
    BY <2>2, <2>5
<1>5. queue_full \in Frequent
  BY QueuesFill DEF Q
<1>6. injected \in Nat /\ (FaultKind(s) = "lossy" <=> injected > 0)
  BY FaultsAre, CountsAre DEF J
<1>7. timeouts \in Nat /\ (s = "watchdog_slow_task" <=> timeouts > 0)
  BY Watched, CountsAre DEF W
<1>8. FaultKind(s) = "late" => misses[c.faults.target_task] >= Many
  BY <1>3, FaultsAre, CountsAre
<1>9. QED
  BY <1>2, <1>4, <1>5, <1>6, <1>7, <1>8, CountsAre DEF Shape

\* How often an event is logged, and that the counter's numbers are numbers.
LEMMA EventCountsAre ==
  ASSUME NEW s \in ScenarioIds, NEW l, Shape(l, s)
  PROVE  /\ EventCount(l, "message_sent") = Many /\ EventCount(l, "message_received") = Many
         /\ EventCount(l, "task_started") = Many /\ EventCount(l, "task_completed") = Many
         /\ EventCount(l, "runtime_summary") = Many
         /\ EventCount(l, "runtime_started") = 1 /\ EventCount(l, "runtime_finished") = 1
         /\ EventCount(l, "scheduler_started") = 1 /\ EventCount(l, "scheduler_finished") = 1
         /\ EventCount(l, "message_dropped") = l.queue_full + l.injected
         /\ EventCount(l, "fault_injected") =
              IF FaultKind(s) = "crash" THEN 1
              ELSE IF FaultKind(s) = "late" THEN Many ELSE l.injected
         /\ EventCount(l, "task_failed") = IF FaultKind(s) = "crash" THEN 1 ELSE 0
         /\ EventCount(l, "task_skipped") = IF FaultKind(s) = "crash" THEN Many ELSE 0
         /\ EventCount(l, "watchdog_timeout") = l.timeouts
         /\ EventCount(l, "task_recovered") = l.timeouts
<1>1. l.scenario = s
  BY DEF Shape
<1>2. /\ OverBudget(configs[s]) <=> FaultKind(s) = "late"
      /\ Crashes(configs[s]) <=> FaultKind(s) = "crash"
  BY FaultsAre
<1> HIDE DEF OverBudget, Crashes
<1>3. QED
  BY <1>1, <1>2 DEF EventCount

EventNames ==
  {"fault_injected", "message_dropped", "message_received", "message_sent",
   "runtime_finished", "runtime_started", "runtime_summary", "scheduler_finished",
   "scheduler_started", "task_completed", "task_failed", "task_recovered",
   "task_skipped", "task_started", "watchdog_timeout"}

LEMMA EventTypesAre ==
  /\ Len(EventTypes) = 15 /\ DOMAIN EventTypes = 1 .. 15
  /\ {EventTypes[n] : n \in 1 .. 15} = EventNames
  /\ ToSet(EventTypes) = EventNames
<1>1. Len(EventTypes) = 15 /\ DOMAIN EventTypes = 1 .. 15
  BY DEF EventTypes
<1>2. {EventTypes[n] : n \in 1 .. 15} \subseteq EventNames
  <2>1. ASSUME NEW n \in 1 .. 15 PROVE EventTypes[n] \in EventNames
    <3>1. n \in {1, 2, 3, 4, 5, 6, 7, 8, 9, 10, 11, 12, 13, 14, 15}
      OBVIOUS
    <3>2. QED
      BY <3>1 DEF EventTypes, EventNames
  <2>2. QED
    BY <2>1
<1>3. EventNames \subseteq {EventTypes[n] : n \in 1 .. 15}
  <2>1. \A event \in EventNames : \E n \in 1 .. 15 : event = EventTypes[n]
    BY DEF EventTypes, EventNames
  <2>2. QED
    BY <2>1
<1>4. QED
  BY <1>1, <1>2, <1>3 DEF ToSet

LEMMA EventCountIsNat ==
  ASSUME NEW s \in ScenarioIds, NEW l, Shape(l, s), NEW event \in EventNames
  PROVE  EventCount(l, event) \in Nat
<1>1. l.injected \in Nat /\ l.queue_full \in Nat /\ l.timeouts \in Nat /\ Many \in Nat
  BY DEF Shape, Many
<1>2. QED
  BY <1>1, EventCountsAre DEF EventNames

LEMMA SeverityCountIsNat ==
  ASSUME NEW s \in ScenarioIds, NEW l, Shape(l, s)
  PROVE  \A severity \in {"error", "info", "warning"} : SeverityCount(l, severity) \in Nat
<1>1. \A event \in EventNames : EventCount(l, event) \in Nat
  BY EventCountIsNat
<1>2. MarkedTotal(l) \in Nat
  BY DEF MarkedTotal, Shape, Tasks
<1> DEFINE crash == IF Crashes(configs[l.scenario]) THEN EventCount(l, "fault_injected") ELSE 0
<1>3. crash \in Nat /\ EventCount(l, "fault_injected") - crash \in Nat
  BY <1>1 DEF EventNames
<1>4. SeverityCount(l, "error") =
        crash + EventCount(l, "task_failed") + EventCount(l, "watchdog_timeout")
  BY DEF SeverityCount
<1>5. SeverityCount(l, "warning") =
        MarkedTotal(l) + EventCount(l, "message_dropped") + EventCount(l, "task_skipped")
          + EventCount(l, "task_recovered") + EventCount(l, "fault_injected") - crash
  BY DEF SeverityCount
<1>6. SeverityCount(l, "info") \in Nat
  BY DEF SeverityCount, Many
<1> HIDE DEF crash
<1>7. QED
  BY <1>1, <1>2, <1>3, <1>4, <1>5, <1>6 DEF EventNames
-------------------------------------------------------------------------------
(* The causes the analyzer names, each of which the parser reads. *)

TaskSays == {"missed_its_deadline", "watchdog_timeout", "simulated_recovery",
             "failed_due_to_task_crash", "skipped_in_failed_state"}
RunSays == {"queue_full_drops", "dropped_before_enqueue", "nothing_detected",
            "max_task_duration_ms"}
FaultTypes == {"none", "slow_task", "cpu_spike", "task_crash", "dropped_messages"}

Causes == {Cause(says, t) : says \in TaskSays, t \in Tasks}
            \cup {Cause("fault_injection_was_active", type) : type \in FaultTypes}
            \cup {Cause(says, "none") : says \in RunSays}

LEMMA CausesAreCauses == \A cause \in Causes : IsCause(cause)
<1>1. ASSUME NEW says, says \notin Openings, NEW t PROVE IsCause(Cause(says, t))
  BY <1>1 DEF IsCause, Cause
<1>2. \A says \in TaskSays \cup RunSays \cup {"fault_injection_was_active"} : says \notin Openings
  BY DEF TaskSays, RunSays, Openings
<1>3. QED
  BY <1>1, <1>2 DEF Causes

LEMMA FaultNames ==
  ASSUME NEW s \in ScenarioIds
  PROVE  /\ configs[s].faults.type \in FaultTypes
         /\ configs[s].faults.target_task \in Tasks \cup {"none"}
<1> USE DEF FaultTypes, Tasks, NoFault, Fault, SlowControlTask
<1>1. CASE s \in {"normal", "priority_scheduler", "deadline_scheduler", "queue_overflow"}
  BY <1>1, ConfigurationsHave DEF Has
<1>2. CASE s \in {"dropped_messages", "slow_task", "cpu_spike", "task_crash", "watchdog_slow_task"}
  BY <1>2, ConfigurationsHave DEF Has
<1>3. QED
  BY <1>1, <1>2 DEF ScenarioIds

LEMMA CausesAreKnown ==
  ASSUME NEW s \in ScenarioIds, NEW l, Shape(l, s)
  PROVE  collect_root_causes(l) \in Seq(Causes)
<1> DEFINE f == configs[l.scenario].faults
           Missed(t) == l.misses[t] > 0
           OfTarget(event, says) == When(EventCount(l, event) > 0, Cause(says, f.target_task))
           missed == PerTask("missed_its_deadline", Missed)
           active == When(EventCount(l, "fault_injected") > 0,
                          Cause("fault_injection_was_active", f.type))
           full == When(l.queue_full > 0, Cause("queue_full_drops", "none"))
           lost == When(l.injected > 0, Cause("dropped_before_enqueue", "none"))
           late == OfTarget("watchdog_timeout", "watchdog_timeout")
           again == OfTarget("task_recovered", "simulated_recovery")
           failed == OfTarget("task_failed", "failed_due_to_task_crash")
           skipped == OfTarget("task_skipped", "skipped_in_failed_state")
           all == missed \o active \o full \o lost \o late \o again \o failed \o skipped
           nothing == Cause("nothing_detected", "none")
<1>1. l.scenario = s
  BY DEF Shape
<1>2. ASSUME NEW condition, NEW cause, condition => cause \in Causes
      PROVE  When(condition, cause) \in Seq(Causes)
  BY <1>2 DEF When
<1>3. missed \in Seq(Causes)
  <2>1. \A t \in Tasks : Cause("missed_its_deadline", t) \in Causes
    BY DEF Causes, TaskSays
  <2>2. ASSUME NEW t \in Tasks
        PROVE  When(Missed(t), Cause("missed_its_deadline", t)) \in Seq(Causes)
    BY <1>2, <2>1
  <2> HIDE DEF Missed
  <2>3. /\ When(Missed("ControlTask"), Cause("missed_its_deadline", "ControlTask")) \in Seq(Causes)
        /\ When(Missed("LoggerTask"), Cause("missed_its_deadline", "LoggerTask")) \in Seq(Causes)
        /\ When(Missed("NetworkTask"), Cause("missed_its_deadline", "NetworkTask")) \in Seq(Causes)
    BY <2>2 DEF Tasks
  <2>4. QED
    BY <2>3 DEF PerTask
<1>4. active \in Seq(Causes)
  <2>1. f.type \in FaultTypes
    BY <1>1, FaultNames
  <2>2. Cause("fault_injection_was_active", f.type) \in Causes
    BY <2>1 DEF Causes
  <2>3. QED
    BY <1>2, <2>2
<1>5. full \in Seq(Causes) /\ lost \in Seq(Causes) /\ nothing \in Causes
  <2>1. \A says \in RunSays : Cause(says, "none") \in Causes
    BY DEF Causes
  <2>2. /\ Cause("queue_full_drops", "none") \in Causes
        /\ Cause("dropped_before_enqueue", "none") \in Causes
        /\ nothing \in Causes
    BY <2>1 DEF RunSays
  <2>3. QED
    BY <1>2, <2>2
<1>6. ASSUME NEW event \in {"watchdog_timeout", "task_recovered", "task_failed", "task_skipped"},
             NEW says \in TaskSays
      PROVE  OfTarget(event, says) \in Seq(Causes)
  <2>1. EventCount(l, event) > 0 => FaultKind(s) \in {"late", "crash"}
    BY EventCountsAre DEF Shape, FaultKind
  <2>2. EventCount(l, event) > 0 => f.target_task \in Tasks
    BY <1>1, <2>1, FaultsAre
  <2>3. EventCount(l, event) > 0 => Cause(says, f.target_task) \in Causes
    BY <2>2 DEF Causes
  <2>4. QED
    BY <1>2, <2>3
<1>7. /\ late \in Seq(Causes) /\ again \in Seq(Causes)
      /\ failed \in Seq(Causes) /\ skipped \in Seq(Causes)
  <2> HIDE DEF OfTarget
  <2>1. \A says \in {"watchdog_timeout", "simulated_recovery", "failed_due_to_task_crash",
                     "skipped_in_failed_state"} : says \in TaskSays
    BY DEF TaskSays
  <2>2. QED
    BY <1>6, <2>1
<1>8. collect_root_causes(l) = IF all # <<>> THEN all ELSE <<nothing>>
  BY DEF collect_root_causes
<1> HIDE DEF missed, active, full, lost, late, again, failed, skipped, nothing
<1>9. all \in Seq(Causes)
  BY <1>3, <1>4, <1>5, <1>7
<1>10. <<nothing>> \in Seq(Causes)
  BY <1>5
<1> HIDE DEF all
<1>11. QED
  BY <1>8, <1>9, <1>10
-------------------------------------------------------------------------------
(* The report, one part after another.  A part follows the lines before    *)
(* it, after which the parser knew p.                                      *)

Reads(lines, p) == IsSeq(lines) /\ Parsing(Parser, lines) = p

LEMMA NextLines ==
  ASSUME NEW before, NEW p, Reads(before, p), NEW lines, IsSeq(lines),
         NEW q, Parsing(p, lines) = q
  PROVE  Reads(before \o lines, q)
  BY ParseInTurn, JoinedIsSeq DEF Reads

LEMMA NextLine ==
  ASSUME NEW before, NEW p, Reads(before, p), NEW line, NEW q, ParseLine(p, line) = q
  PROVE  Reads(before \o <<line>>, q)
<1> DEFINE lines == <<line>>
<1>1. IsSeq(lines) /\ Parsing(p, lines) = q
  BY TupleIsSeq, ParseOne
<1> HIDE DEF lines
<1>2. Reads(before \o lines, q)
  BY <1>1, NextLines
<1>3. QED
  BY <1>2 DEF lines

\* The verdict, the scheduler's mode and the two counters.
EventLines(l) == LET N(event) == EventCount(l, event) IN Counter(EventTypes, Each(EventTypes, N))
SeverityLines(l) ==
  LET Severity(severity) == SeverityCount(l, severity)
      severities == <<"error", "info", "warning">>
  IN  Counter(severities, Each(severities, Severity))

HeadLines(l) ==
  <<Text("MiniRTOS-Linux_Runtime_Health_Analyzer"),
    Word("Runtime_status", classify_health(l)),
    Word("Scheduler_mode", configs[l.scenario].scheduler_mode)>>
  \o <<Heading(0, "Event_counts")>> \o EventLines(l)
  \o <<Heading(0, "Severity_counts")>> \o SeverityLines(l)

CountedEvents(l) ==
  [event \in {event \in EventNames : EventCount(l, event) > 0} |-> EventCount(l, event)]
CountedSeverities(l) ==
  [severity \in {severity \in {"error", "info", "warning"} : SeverityCount(l, severity) > 0} |->
     SeverityCount(l, severity)]

LEMMA EventLinesRead ==
  ASSUME NEW s \in ScenarioIds, NEW l, Shape(l, s), NEW p, IsParser(p),
         p.section = "Event_counts", p.eventCounts = Empty
  PROVE  /\ IsSeq(EventLines(l))
         /\ Parsing(p, EventLines(l)) = [p EXCEPT !.eventCounts = CountedEvents(l)]
<1> DEFINE keys == EventTypes
           N(event) == EventCount(l, event)
           of == [event \in EventNames |-> EventCount(l, event)]
           count == Each(keys, N)
<1>1. /\ Len(keys) = 15 /\ DOMAIN keys = 1 .. 15
      /\ \A n \in 1 .. 15 : keys[n] \in EventNames
      /\ EventNames = {keys[n] : n \in 1 .. 15}
  BY EventTypesAre
<1>2. \A event \in EventNames : EventCount(l, event) \in Nat
  BY EventCountIsNat
<1>3. \A n \in 1 .. 15 : count[n] = EventCount(l, keys[n])
  <2> HIDE DEF keys
  <2> QED
    BY <1>1 DEF Each
<1>4. \A event \in EventNames : event \notin Openings
  BY DEF EventNames, Openings
<1> DEFINE field == "eventCounts"
<1>5. Counts(p.section, field) /\ p[field] = Empty /\ Len(keys) \in Nat
  BY <1>1 DEF Counts
<1> HIDE DEF field, keys, count
<1>6. Numbers(keys, count, of)
  BY <1>1, <1>2, <1>3, <1>4 DEF Numbers
<1>7. Kept(keys, count, of, 15) = CountedEvents(l)
  <2>1. {keys[k] : k \in {k \in 1 .. 15 : count[k] > 0}} =
          {event \in EventNames : EventCount(l, event) > 0}
    BY <1>1, <1>3
  <2>2. QED
    BY <2>1 DEF Kept, CountedEvents
<1> HIDE DEF of
<1>8. CounterIsRead(p, field, keys, count, of)
  BY <1>5, <1>6, CounterRead
<1>9. EventLines(l) = Counter(keys, count)
  BY DEF EventLines, keys, count
<1>10. QED
  BY <1>1, <1>7, <1>8, <1>9 DEF CounterIsRead, field

LEMMA SeverityLinesRead ==
  ASSUME NEW s \in ScenarioIds, NEW l, Shape(l, s), NEW p, IsParser(p),
         p.section = "Severity_counts", p.severityCounts = Empty
  PROVE  /\ IsSeq(SeverityLines(l))
         /\ Parsing(p, SeverityLines(l)) = [p EXCEPT !.severityCounts = CountedSeverities(l)]
<1> DEFINE keys == <<"error", "info", "warning">>
           names == {"error", "info", "warning"}
           Severity(severity) == SeverityCount(l, severity)
           of == [severity \in names |-> SeverityCount(l, severity)]
           count == Each(keys, Severity)
<1>1. Len(keys) = 3 /\ DOMAIN keys = 1 .. 3 /\ \A n \in 1 .. 3 : keys[n] \in names
  OBVIOUS
<1>2. names = {keys[n] : n \in 1 .. 3}
  <2>1. keys[1] = "error" /\ keys[2] = "info" /\ keys[3] = "warning"
    OBVIOUS
  <2> HIDE DEF keys
  <2>2. QED
    BY <1>1, <2>1
<1>3. \A severity \in names : SeverityCount(l, severity) \in Nat /\ severity \notin Openings
  BY SeverityCountIsNat DEF Openings
<1>4. \A n \in 1 .. 3 : count[n] = SeverityCount(l, keys[n])
  <2> HIDE DEF keys
  <2> QED
    BY <1>1 DEF Each
<1> DEFINE field == "severityCounts"
<1>5. Counts(p.section, field) /\ p[field] = Empty /\ Len(keys) \in Nat
  BY <1>1 DEF Counts
<1> HIDE DEF field, keys, count, names
<1>6. Numbers(keys, count, of)
  BY <1>1, <1>3, <1>4 DEF Numbers
<1>7. Kept(keys, count, of, 3) = CountedSeverities(l)
  <2>1. {keys[k] : k \in {k \in 1 .. 3 : count[k] > 0}} =
          {severity \in names : SeverityCount(l, severity) > 0}
    BY <1>1, <1>2, <1>4
  <2>2. QED
    BY <2>1 DEF Kept, CountedSeverities, names
<1> HIDE DEF of
<1>8. CounterIsRead(p, field, keys, count, of)
  BY <1>5, <1>6, CounterRead
<1>9. SeverityLines(l) = Counter(keys, count)
  BY DEF SeverityLines, keys, count
<1>10. QED
  BY <1>1, <1>7, <1>8, <1>9 DEF CounterIsRead, field
\* What the parser knows when the counters are read.
CountersKnown(l) ==
  [Parser EXCEPT !.runtimeHealth = classify_health(l),
                 !.schedulerMode = configs[l.scenario].scheduler_mode,
                 !.section = "Severity_counts", !.eventCounts = CountedEvents(l),
                 !.severityCounts = CountedSeverities(l)]

LEMMA HeadLinesRead ==
  ASSUME NEW s \in ScenarioIds, NEW l, Shape(l, s)
  PROVE  Reads(HeadLines(l), CountersKnown(l))
<1> DEFINE health == classify_health(l)
           mode == configs[l.scenario].scheduler_mode
           title == Text("MiniRTOS-Linux_Runtime_Health_Analyzer")
           status == Word("Runtime_status", health)
           scheduler == Word("Scheduler_mode", mode)
           top == <<title, status, scheduler>>
           p1 == [Parser EXCEPT !.runtimeHealth = health]
           p2 == [p1 EXCEPT !.schedulerMode = mode]
           p3 == [p2 EXCEPT !.section = "Event_counts"]
           p4 == [p3 EXCEPT !.eventCounts = CountedEvents(l)]
           p5 == [p4 EXCEPT !.section = "Severity_counts"]
           p6 == [p5 EXCEPT !.severityCounts = CountedSeverities(l)]
<1>1. ParseLine(Parser, title) = Parser
  <2>1. "MiniRTOS-Linux_Runtime_Health_Analyzer" \notin Openings
    BY DEF Openings
  <2>2. QED
    BY <2>1, TextPassedOver
<1>2. ParseLine(Parser, status) = p1 /\ ParseLine(p1, scheduler) = p2
  <2> HIDE DEF health, mode
  <2>1. ParseLine(Parser, status) = p1
    BY WordRead
  <2> HIDE DEF p1
  <2>2. ParseLine(p1, scheduler) = p2
    BY WordRead
  <2>3. QED
    BY <2>1, <2>2
<1>3. Reads(top, p2)
  <2> HIDE DEF title, status, scheduler, p1, p2
  <2>1. Parsing(Parser, top) = p2
    BY <1>1, <1>2, ParseThree
  <2>2. QED
    BY <2>1, TupleIsSeq DEF Reads
<1> HIDE DEF top
<1>4. ParseLine(p2, Heading(0, "Event_counts")) = p3
  <2> HIDE DEF p2
  <2> QED
    BY HeadingRead DEF Headings
<1>5. IsParser(p3) /\ p3.section = "Event_counts" /\ p3.eventCounts = Empty
  <2> HIDE DEF health, mode
  <2> QED
    BY DEF Parser, IsParser, Fields
<1>6. /\ IsSeq(EventLines(l))
      /\ Parsing(p3, EventLines(l)) = p4
  <2> HIDE DEF p3
  <2> QED
    BY <1>5, EventLinesRead
<1>7. ParseLine(p4, Heading(0, "Severity_counts")) = p5
  <2> HIDE DEF p4
  <2> QED
    BY HeadingRead DEF Headings
<1>8. IsParser(p5) /\ p5.section = "Severity_counts" /\ p5.severityCounts = Empty
  <2> HIDE DEF health, mode
  <2> QED
    BY DEF Parser, IsParser, Fields
<1>9. /\ IsSeq(SeverityLines(l))
      /\ Parsing(p5, SeverityLines(l)) = p6
  <2> HIDE DEF p5
  <2> QED
    BY <1>8, SeverityLinesRead
<1>10. p6 = CountersKnown(l)
  <2> HIDE DEF health, mode
  <2> QED
    BY DEF CountersKnown, Parser, health, mode
<1> DEFINE lines3 == top \o <<Heading(0, "Event_counts")>>
           lines4 == lines3 \o EventLines(l)
           lines5 == lines4 \o <<Heading(0, "Severity_counts")>>
<1> HIDE DEF p2, p3, p4, p5, p6
<1>11. Reads(lines3, p3)
  BY <1>3, <1>4, NextLine
<1> HIDE DEF lines3
<1>12. Reads(lines4, p4)
  BY <1>6, <1>11, NextLines
<1> HIDE DEF lines4
<1>13. Reads(lines5, p5)
  BY <1>7, <1>12, NextLine
<1> HIDE DEF lines5
<1>14. Reads(lines5 \o SeverityLines(l), p6)
  BY <1>9, <1>13, NextLines
<1>15. HeadLines(l) = lines5 \o SeverityLines(l)
  BY DEF HeadLines, top, lines3, lines4, lines5
<1>16. QED
  BY <1>10, <1>14, <1>15
\* What the parser knows when the tasks are read: the last one is under way.
TwoTasks(l) ==
  Put(Put(Empty, "ControlTask", Metric(l, "ControlTask")), "LoggerTask", Metric(l, "LoggerTask"))
TasksKnown(p, l) ==
  [p EXCEPT !.section = "Task_summary", !.taskMetrics = TwoTasks(l),
            !.currentTask = "NetworkTask", !.currentTaskMetric = Metric(l, "NetworkTask")]

LEMMA TaskLinesRead ==
  ASSUME NEW before, NEW p, Reads(before, p), IsParser(p), p.currentTask = NoTask,
         p.taskMetrics = Empty, NEW l
  PROVE  Reads(before \o <<Heading(0, "Task_summary")>> \o TaskSummary(l, "ControlTask")
                 \o TaskSummary(l, "LoggerTask") \o TaskSummary(l, "NetworkTask"),
               TasksKnown(p, l))
<1> DEFINE control == Metric(l, "ControlTask")
           logger == Metric(l, "LoggerTask")
           network == Metric(l, "NetworkTask")
           one == Put(Empty, "ControlTask", control)
           p1 == [p EXCEPT !.section = "Task_summary"]
           p2 == [p1 EXCEPT !.taskMetrics = Empty, !.currentTask = "ControlTask",
                            !.currentTaskMetric = control]
           p3 == [p2 EXCEPT !.taskMetrics = one, !.currentTask = "LoggerTask",
                            !.currentTaskMetric = logger]
           p4 == [p3 EXCEPT !.taskMetrics = TwoTasks(l), !.currentTask = "NetworkTask",
                            !.currentTaskMetric = network]
<1>1. \A t : IsSeq(TaskSummary(l, t))
  BY TupleIsSeq DEF TaskSummary
<1>2. ParseLine(p, Heading(0, "Task_summary")) = p1
  BY HeadingRead DEF Headings
<1>3. IsParser(p1) /\ p1.section = "Task_summary" /\ Flushed(p1) = Empty
  BY DEF IsParser, Fields, Flushed
<1> HIDE DEF control, logger, network
<1>4. Parsing(p1, TaskSummary(l, "ControlTask")) = p2
  <2> HIDE DEF p1
  <2>1. "ControlTask" \in Tasks
    BY DEF Tasks
  <2>2. Parsing(p1, TaskSummary(l, "ControlTask")) = AfterTask(p1, l, "ControlTask")
    BY <1>3, <2>1, TaskSummaryRead
  <2>3. QED
    BY <1>3, <2>2 DEF AfterTask, control
<1>5. IsParser(p2) /\ p2.section = "Task_summary" /\ Flushed(p2) = one
  <2>1. /\ IsParser(p2) /\ p2.section = "Task_summary" /\ p2.taskMetrics = Empty
        /\ p2.currentTask = "ControlTask" /\ p2.currentTaskMetric = control
    BY <1>3 DEF IsParser, Fields
  <2> HIDE DEF p2
  <2>2. QED
    BY <2>1 DEF Flushed, NoTask
<1>6. Parsing(p2, TaskSummary(l, "LoggerTask")) = p3
  <2> HIDE DEF p2, one
  <2>1. "LoggerTask" \in Tasks
    BY DEF Tasks
  <2>2. Parsing(p2, TaskSummary(l, "LoggerTask")) = AfterTask(p2, l, "LoggerTask")
    BY <1>5, <2>1, TaskSummaryRead
  <2>3. QED
    BY <1>5, <2>2 DEF AfterTask, logger
<1>7. IsParser(p3) /\ p3.section = "Task_summary" /\ Flushed(p3) = TwoTasks(l)
  <2> HIDE DEF one
  <2>1. /\ IsParser(p3) /\ p3.section = "Task_summary" /\ p3.taskMetrics = one
        /\ p3.currentTask = "LoggerTask" /\ p3.currentTaskMetric = logger
    <3> HIDE DEF p2
    <3> QED
      BY <1>5 DEF IsParser, Fields
  <2>2. Flushed(p3) = Put(one, "LoggerTask", logger)
    <3> HIDE DEF p3
    <3> QED
      BY <2>1 DEF Flushed, NoTask
  <2>3. QED
    BY <2>1, <2>2 DEF TwoTasks, one, control, logger
<1>8. Parsing(p3, TaskSummary(l, "NetworkTask")) = p4
  <2> HIDE DEF p3
  <2>1. "NetworkTask" \in Tasks
    BY DEF Tasks
  <2>2. Parsing(p3, TaskSummary(l, "NetworkTask")) = AfterTask(p3, l, "NetworkTask")
    BY <1>7, <2>1, TaskSummaryRead
  <2>3. QED
    BY <1>7, <2>2 DEF AfterTask, network
<1>9. p4 = TasksKnown(p, l)
  <2> HIDE DEF one
  <2> QED
    BY DEF IsParser, Fields, TasksKnown, network
<1> DEFINE lines1 == before \o <<Heading(0, "Task_summary")>>
           lines2 == lines1 \o TaskSummary(l, "ControlTask")
           lines3 == lines2 \o TaskSummary(l, "LoggerTask")
<1> HIDE DEF p1, p2, p3, p4
<1>10. Reads(lines1, p1)
  BY <1>2, NextLine
<1> HIDE DEF lines1
<1>11. Reads(lines2, p2)
  BY <1>1, <1>4, <1>10, NextLines
<1> HIDE DEF lines2
<1>12. Reads(lines3, p3)
  BY <1>1, <1>6, <1>11, NextLines
<1> HIDE DEF lines3
<1>13. Reads(lines3 \o TaskSummary(l, "NetworkTask"), p4)
  BY <1>1, <1>8, <1>12, NextLines
<1>14. QED
  BY <1>9, <1>13 DEF lines1, lines2, lines3

\* When it puts the last one away it knows them all.
LEMMA AllTasksKnown ==
  ASSUME NEW p, NEW l, p.taskMetrics = TwoTasks(l), p.currentTask = "NetworkTask",
         p.currentTaskMetric = Metric(l, "NetworkTask")
  PROVE  Flushed(p) = [t \in Tasks |-> Metric(l, t)]
<1>1. Flushed(p) = Put(TwoTasks(l), "NetworkTask", Metric(l, "NetworkTask"))
  BY DEF Flushed, NoTask
<1> DEFINE M(t) == Metric(l, t)
           one == Put(Empty, "ControlTask", M("ControlTask"))
           two == Put(one, "LoggerTask", M("LoggerTask"))
           three == Put(two, "NetworkTask", M("NetworkTask"))
<1> HIDE DEF M
<1>2. one = [t \in {"ControlTask"} |-> M(t)]
  BY DEF Put, Empty
<1> HIDE DEF one
<1>3. two = [t \in {"ControlTask", "LoggerTask"} |-> M(t)]
  BY <1>2 DEF Put
<1> HIDE DEF two
<1>4. three = [t \in Tasks |-> M(t)]
  BY <1>3 DEF Put, Tasks
<1>5. QED
  BY <1>1, <1>4 DEF two, one, M, TwoTasks

\* The messages' numbers, and the sections the parser takes nothing from.
DropsOf(l) ==
  [sent |-> Many, received |-> Many, dropped |-> l.queue_full + l.injected,
   queue_full_drops |-> l.queue_full, fault_injected_drops |-> l.injected]

LEMMA MessageLinesRead ==
  ASSUME NEW before, NEW p, Reads(before, p), IsParser(p), p.messageSummary = NoMessages,
         NEW s \in ScenarioIds, NEW l, Shape(l, s)
  PROVE  Reads(before \o MessageLines(EventCount(l, "message_sent"),
                                      EventCount(l, "message_received"),
                                      EventCount(l, "message_dropped"), l.queue_full, l.injected),
               [p EXCEPT !.section = "Fault_summary", !.messageSummary = DropsOf(l)])
<1> DEFINE lines == MessageLines(EventCount(l, "message_sent"), EventCount(l, "message_received"),
                                 EventCount(l, "message_dropped"), l.queue_full, l.injected)
           dropped == l.queue_full + l.injected
           q == [p EXCEPT !.section = "Fault_summary", !.messageSummary = DropsOf(l)]
<1>1. /\ EventCount(l, "message_sent") = Many /\ EventCount(l, "message_received") = Many
      /\ EventCount(l, "message_dropped") = dropped
  BY EventCountsAre
<1>2. Parsing(p, lines) = q
  <2> HIDE DEF dropped
  <2>1. lines = MessageLines(Many, Many, dropped, l.queue_full, l.injected)
    BY <1>1
  <2>2. Parsing(p, MessageLines(Many, Many, dropped, l.queue_full, l.injected)) =
          AfterMessages(p, Many, Many, dropped, l.queue_full, l.injected)
    BY MessageSummaryRead
  <2>3. QED
    BY <2>1, <2>2 DEF DropsOf, dropped, AfterMessages
<1>3. IsSeq(lines)
  <2>1. ASSUME NEW a, NEW b, NEW c, NEW d, NEW e, NEW f, NEW g
        PROVE  IsSeq(<<a, b, c, d, e, f, g>>)
    <3> DEFINE S == {a, b, c, d, e, f, g}
    <3>1. a \in S /\ b \in S /\ c \in S /\ d \in S /\ e \in S /\ f \in S /\ g \in S
      OBVIOUS
    <3> HIDE DEF S
    <3>2. <<a, b, c, d, e, f, g>> \in Seq(S)
      BY <3>1
    <3>3. QED
      BY <3>2 DEF IsSeq
  <2>2. QED
    BY <2>1 DEF MessageLines
<1> HIDE DEF lines, q
<1>4. Reads(before \o lines, q)
  BY <1>2, <1>3, NextLines
<1>5. QED
  BY <1>4 DEF lines, q
\* A line that means nothing to the parser in a section it skims.
Passed(line) == line.key \notin Openings /\ ~(line.mark = "heading" /\ line.key \in Headings)

LEMMA PassedOver ==
  ASSUME NEW before, NEW p, Reads(before, p), p.section \in Skimmed,
         NEW lines, IsSeq(lines), \A n \in DOMAIN lines : Passed(lines[n])
  PROVE  Reads(before \o lines, p)
<1>1. \A n \in DOMAIN lines : ParseLine(p, lines[n]) = p
  BY SkimmedLine DEF Passed
<1>2. Parsing(p, lines) = p
  BY <1>1, NothingRead
<1>3. QED
  BY <1>2, NextLines

AtSection(p, key) == [p EXCEPT !.section = key]

LEMMA SectionEntered ==
  ASSUME NEW p, IsParser(p), NEW key \in Skimmed, NEW a, Passed(a), NEW b, Passed(b)
  PROVE  Parsing(p, <<Heading(0, key), a, b>>) = AtSection(p, key)
<1> DEFINE q == AtSection(p, key)
<1>1. ParseLine(p, Heading(0, key)) = q
  <2>1. key \in Headings
    BY DEF Skimmed, Headings
  <2>2. QED
    BY <2>1, HeadingRead DEF AtSection
<1>2. q.section = key
  BY DEF IsParser, Fields, AtSection
<1> HIDE DEF q
<1>3. ParseLine(q, a) = q /\ ParseLine(q, b) = q
  BY <1>2, SkimmedLine DEF Passed
<1>4. Parsing(p, <<Heading(0, key), a, b>>) = q
  BY <1>1, <1>3, ParseThree
<1>5. QED
  BY <1>4 DEF q

FaultLines(l) ==
  IF EventCount(l, "fault_injected") = 0 THEN <<Text("none")>>
  ELSE <<Value(2, configs[l.scenario].faults.type, EventCount(l, "fault_injected"))>>
WatchdogLines(l) ==
  <<Heading(0, "Watchdog_summary"),
    Value(2, "watchdog_timeouts", EventCount(l, "watchdog_timeout")),
    Value(2, "task_recoveries", EventCount(l, "task_recovered"))>>
FailureLines(l) ==
  <<Heading(0, "Task_failure_summary"),
    Value(2, "task_failures", EventCount(l, "task_failed")),
    Value(2, "task_skips", EventCount(l, "task_skipped"))>>

LEMMA PassedLines ==
  ASSUME NEW s \in ScenarioIds, NEW l, Shape(l, s)
  PROVE  /\ IsSeq(FaultLines(l)) /\ \A n \in DOMAIN FaultLines(l) : Passed(FaultLines(l)[n])
         /\ \A title \in {"timeout_tasks", "recovered_tasks", "failed_tasks", "skipped_tasks"} :
              \A event :
                /\ IsSeq(ListedTask(title, l, event))
                /\ \A n \in DOMAIN ListedTask(title, l, event) :
                         Passed(ListedTask(title, l, event)[n])
<1>1. l.scenario = s
  BY DEF Shape
<1>2. ASSUME NEW line, Passed(line)
      PROVE  IsSeq(<<line>>) /\ \A n \in DOMAIN <<line>> : Passed(<<line>>[n])
  <2>1. IsSeq(<<line>>)
    BY TupleIsSeq
  <2>2. DOMAIN <<line>> = {1} /\ <<line>>[1] = line
    OBVIOUS
  <2>3. QED
    BY <1>2, <2>1, <2>2
<1>3. IsSeq(FaultLines(l)) /\ \A n \in DOMAIN FaultLines(l) : Passed(FaultLines(l)[n])
  <2> DEFINE none == Text("none")
             some == Value(2, configs[l.scenario].faults.type, EventCount(l, "fault_injected"))
  <2>1. Passed(none)
    BY DEF Passed, Text, Line, Openings
  <2>2. Passed(some)
    <3>1. configs[s].faults.type \in FaultTypes
      BY FaultNames
    <3>2. configs[s].faults.type \notin Openings
      BY <3>1 DEF FaultTypes, Openings
    <3>3. QED
      BY <1>1, <3>2 DEF Passed, Value, Line
  <2> HIDE DEF none, some
  <2>3. FaultLines(l) = IF EventCount(l, "fault_injected") = 0 THEN <<none>> ELSE <<some>>
    BY DEF FaultLines, none, some
  <2>4. QED
    BY <1>2, <2>1, <2>2, <2>3
<1>4. ASSUME NEW title \in {"timeout_tasks", "recovered_tasks", "failed_tasks", "skipped_tasks"},
             NEW event
      PROVE  /\ IsSeq(ListedTask(title, l, event))
             /\ \A n \in DOMAIN ListedTask(title, l, event) : Passed(ListedTask(title, l, event)[n])
  <2> DEFINE head == Heading(2, title)
             target == Line(4, "listed", configs[l.scenario].faults.target_task, NoWord,
                            EventCount(l, event))
             both == <<head, target>>
  <2>1. Passed(head)
    BY DEF Passed, Heading, Line, Openings, Headings
  <2>2. Passed(target)
    <3>1. configs[s].faults.target_task \notin Openings
      BY FaultNames DEF Tasks, Openings
    <3>2. QED
      BY <1>1, <3>1 DEF Passed, Line
  <2> HIDE DEF head, target
  <2>3. ListedTask(title, l, event) = IF EventCount(l, event) = 0 THEN <<>> ELSE both
    BY DEF ListedTask, head, target
  <2>4. IsSeq(both) /\ DOMAIN both = {1, 2} /\ both[1] = head /\ both[2] = target
    BY TupleIsSeq
  <2>5. IsSeq(<<>>) /\ DOMAIN <<>> = {}
    BY TupleIsSeq
  <2> HIDE DEF both
  <2>6. CASE EventCount(l, event) = 0
    BY <2>3, <2>5, <2>6
  <2>7. CASE EventCount(l, event) # 0
    BY <2>1, <2>2, <2>3, <2>4, <2>7
  <2>8. QED
    BY <2>6, <2>7
<1>5. QED
  BY <1>3, <1>4

LEMMA SkimmedLinesRead ==
  ASSUME NEW before, NEW p, Reads(before, p), IsParser(p), p.section = "Fault_summary",
         NEW s \in ScenarioIds, NEW l, Shape(l, s)
  PROVE  Reads(before \o FaultLines(l) \o WatchdogLines(l)
                 \o ListedTask("timeout_tasks", l, "watchdog_timeout")
                 \o ListedTask("recovered_tasks", l, "task_recovered") \o FailureLines(l)
                 \o ListedTask("failed_tasks", l, "task_failed")
                 \o ListedTask("skipped_tasks", l, "task_skipped"),
               [p EXCEPT !.section = "Task_failure_summary"])
<1> DEFINE timeouts == ListedTask("timeout_tasks", l, "watchdog_timeout")
           recovered == ListedTask("recovered_tasks", l, "task_recovered")
           failed == ListedTask("failed_tasks", l, "task_failed")
           skipped == ListedTask("skipped_tasks", l, "task_skipped")
           faults == FaultLines(l)
           watched == WatchdogLines(l)
           failures == FailureLines(l)
           p1 == [p EXCEPT !.section = "Watchdog_summary"]
           p2 == [p EXCEPT !.section = "Task_failure_summary"]
           AllPassed(lines) == IsSeq(lines) /\ \A n \in DOMAIN lines : Passed(lines[n])
<1>1. /\ AllPassed(faults) /\ AllPassed(timeouts) /\ AllPassed(recovered)
      /\ AllPassed(failed) /\ AllPassed(skipped)
  BY PassedLines
<1>2. /\ "Fault_summary" \in Skimmed
      /\ "Watchdog_summary" \in Skimmed
      /\ "Task_failure_summary" \in Skimmed
  BY DEF Skimmed
<1>3. /\ IsParser(p1) /\ p1.section = "Watchdog_summary"
      /\ IsParser(p2) /\ p2.section = "Task_failure_summary"
      /\ [p1 EXCEPT !.section = "Task_failure_summary"] = p2
  BY DEF IsParser, Fields
<1>4. \A key, n : key \notin Openings => Passed(Value(2, key, n))
  BY DEF Passed, Value, Line
<1>5. IsSeq(watched) /\ Parsing(p, watched) = p1
  <2> DEFINE a == Value(2, "watchdog_timeouts", EventCount(l, "watchdog_timeout"))
             b == Value(2, "task_recoveries", EventCount(l, "task_recovered"))
  <2>1. Passed(a) /\ Passed(b)
    BY <1>4 DEF Openings
  <2>2. watched = <<Heading(0, "Watchdog_summary"), a, b>>
    BY DEF WatchdogLines
  <2> HIDE DEF a, b, watched, p1
  <2>3. Parsing(p, watched) = AtSection(p, "Watchdog_summary")
    BY <1>2, <2>1, <2>2, SectionEntered
  <2>4. QED
    BY <2>2, <2>3, TupleIsSeq DEF p1, AtSection
<1>6. IsSeq(failures) /\ Parsing(p1, failures) = p2
  <2> DEFINE a == Value(2, "task_failures", EventCount(l, "task_failed"))
             b == Value(2, "task_skips", EventCount(l, "task_skipped"))
  <2>1. Passed(a) /\ Passed(b)
    BY <1>4 DEF Openings
  <2>2. failures = <<Heading(0, "Task_failure_summary"), a, b>>
    BY DEF FailureLines
  <2> HIDE DEF a, b, failures, p1, p2
  <2>3. Parsing(p1, failures) = AtSection(p1, "Task_failure_summary")
    BY <1>2, <1>3, <2>1, <2>2, SectionEntered
  <2>4. QED
    BY <1>3, <2>2, <2>3, TupleIsSeq DEF AtSection
<1>7. ASSUME NEW P, NEW q, Reads(P, q), q.section \in Skimmed, NEW lines, AllPassed(lines)
      PROVE  Reads(P \o lines, q)
  BY <1>7, PassedOver
<1> DEFINE lines1 == before \o faults
           lines2 == lines1 \o watched
           lines3 == lines2 \o timeouts
           lines4 == lines3 \o recovered
           lines5 == lines4 \o failures
           lines6 == lines5 \o failed
<1> HIDE DEF timeouts, recovered, failed, skipped, faults, watched, failures, p1, p2, AllPassed
<1>8. Reads(lines1, p)
  BY <1>1, <1>2, <1>7
<1> HIDE DEF lines1
<1>9. Reads(lines2, p1)
  BY <1>5, <1>8, NextLines
<1> HIDE DEF lines2
<1>10. Reads(lines3, p1)
  BY <1>1, <1>2, <1>3, <1>7, <1>9
<1> HIDE DEF lines3
<1>11. Reads(lines4, p1)
  BY <1>1, <1>2, <1>3, <1>7, <1>10
<1> HIDE DEF lines4
<1>12. Reads(lines5, p2)
  BY <1>6, <1>11, NextLines
<1> HIDE DEF lines5
<1>13. Reads(lines6, p2)
  BY <1>1, <1>2, <1>3, <1>7, <1>12
<1> HIDE DEF lines6
<1>14. Reads(lines6 \o skipped, p2)
  BY <1>1, <1>2, <1>3, <1>7, <1>13
<1>15. QED
  BY <1>14 DEF timeouts, recovered, failed, skipped, faults, watched, failures, p2,
               lines1, lines2, lines3, lines4, lines5, lines6
\* The causes, and the second part of the report, which no section names.
LEMMA CauseLinesRead ==
  ASSUME NEW before, NEW p, Reads(before, p), IsParser(p), p.rootCauses = <<>>,
         NEW causes \in Seq(Causes)
  PROVE  Reads(before \o <<Heading(0, "Likely_root_causes")>> \o Each(causes, Item),
               [p EXCEPT !.section = "Likely_root_causes", !.rootCauses = causes])
<1> DEFINE p1 == [p EXCEPT !.section = "Likely_root_causes"]
           p2 == [p EXCEPT !.section = "Likely_root_causes", !.rootCauses = causes]
           lines == Each(causes, Item)
           start == before \o <<Heading(0, "Likely_root_causes")>>
<1>1. ParseLine(p, Heading(0, "Likely_root_causes")) = p1
  BY HeadingRead DEF Headings
<1>2. IsParser(p1) /\ p1.section = "Likely_root_causes" /\ p1.rootCauses = <<>>
  BY DEF IsParser, Fields
<1>3. [p1 EXCEPT !.rootCauses = causes] = p2
  BY DEF IsParser, Fields
<1>4. \A n \in 1 .. Len(causes) : IsCause(causes[n])
  BY CausesAreCauses
<1> HIDE DEF p1, p2
<1>5. IsSeq(lines) /\ Parsing(p1, lines) = [p1 EXCEPT !.rootCauses = causes]
  BY <1>2, <1>4, CausesRead
<1> HIDE DEF lines
<1>6. Reads(start, p1)
  BY <1>1, NextLine
<1> HIDE DEF start
<1>7. Reads(start \o lines, p2)
  BY <1>3, <1>5, <1>6, NextLines
<1>8. QED
  BY <1>7 DEF start, lines, p2

LEMMA ParseSix ==
  ASSUME NEW p, NEW a, NEW b, NEW c, NEW d, NEW e, NEW f
  PROVE  /\ IsSeq(<<a, b, c, d, e, f>>)
         /\ Parsing(p, <<a, b, c, d, e, f>>) = Parsing(Parsing(p, <<a, b, c>>), <<d, e, f>>)
<1> DEFINE first == <<a, b, c>>
           rest == <<d, e, f>>
           S == {a, b, c, d, e, f}
<1>1. <<a, b, c, d, e, f>> = first \o rest /\ <<a, b, c, d, e, f>> \in Seq(S)
  <2>1. a \in S /\ b \in S /\ c \in S /\ d \in S /\ e \in S /\ f \in S
    OBVIOUS
  <2> HIDE DEF S
  <2>2. QED
    BY <2>1
<1>2. IsSeq(first) /\ IsSeq(rest)
  BY TupleIsSeq
<1> HIDE DEF first, rest, S
<1>3. Parsing(p, first \o rest) = Parsing(Parsing(p, first), rest)
  BY <1>2, ParseInTurn
<1>4. QED
  BY <1>1, <1>3 DEF first, rest, IsSeq

LEMMA SecondPartRead ==
  ASSUME NEW before, NEW p, Reads(before, p), IsParser(p), p.section = "Likely_root_causes"
  PROVE  Reads(before \o print_anomaly_report,
               [p EXCEPT !.rootCauses = Append(p.rootCauses, Driver)])
<1> DEFINE a == Text("AI_Anomaly_Detection_Summary")
           b == Value(0, "Anomaly_windows", 1)
           c == Heading(0, "Top_anomaly_drivers")
           d == Item(Driver)
           e == Heading(0, "Window_summary")
           f == Line(2, "word", "0-1000_ms", "window", 0)
           q == [p EXCEPT !.rootCauses = Append(p.rootCauses, Driver)]
           Ignored(line) == /\ line.key \notin Openings /\ ~StartsWithDash(line)
                            /\ ~(line.mark = "heading" /\ line.key \in Headings)
<1>1. /\ Ignored(a) /\ Ignored(b) /\ Ignored(c) /\ Ignored(e) /\ Ignored(f)
  BY DEF Openings, StartsWithDash, Headings, Text, Value, Heading, Line
<1>2. q.section = "Likely_root_causes"
  BY DEF IsParser, Fields
<1>3. ParseLine(p, d) = q
  <2>1. IsCause(Driver)
    BY DEF IsCause, Driver, Cause, Openings
  <2> HIDE DEF q
  <2>2. ParseLine(p, d) = [p EXCEPT !.rootCauses = Append(p.rootCauses, Driver)]
    BY <2>1, CauseRead DEF IsCause
  <2>3. QED
    BY <2>2 DEF q
<1> HIDE DEF a, b, c, d, e, f, q
<1>4. /\ ParseLine(p, a) = p /\ ParseLine(p, b) = p /\ ParseLine(p, c) = p
      /\ ParseLine(q, e) = q /\ ParseLine(q, f) = q
  BY <1>1, <1>2, RootCauseLine
<1>5. print_anomaly_report = <<a, b, c, d, e, f>>
  BY DEF print_anomaly_report, a, b, c, d, e, f
<1>6. Parsing(p, <<a, b, c>>) = p /\ Parsing(p, <<d, e, f>>) = q
  BY <1>3, <1>4, ParseThree
<1>7. IsSeq(print_anomaly_report) /\ Parsing(p, print_anomaly_report) = q
  BY <1>5, <1>6, ParseSix
<1>8. Reads(before \o print_anomaly_report, q)
  BY <1>7, NextLines
<1>9. QED
  BY <1>8 DEF q

\* The whole report.
CausesFound(l) == Append(collect_root_causes(l), Driver)

LEMMA ReportInParts ==
  ASSUME NEW l
  PROVE  Report(l) =
    HeadLines(l)
    \o <<Heading(0, "Task_summary")>> \o TaskSummary(l, "ControlTask")
    \o TaskSummary(l, "LoggerTask") \o TaskSummary(l, "NetworkTask")
    \o MessageLines(EventCount(l, "message_sent"), EventCount(l, "message_received"),
                    EventCount(l, "message_dropped"), l.queue_full, l.injected)
    \o FaultLines(l) \o WatchdogLines(l)
    \o ListedTask("timeout_tasks", l, "watchdog_timeout")
    \o ListedTask("recovered_tasks", l, "task_recovered") \o FailureLines(l)
    \o ListedTask("failed_tasks", l, "task_failed")
    \o ListedTask("skipped_tasks", l, "task_skipped")
    \o <<Heading(0, "Likely_root_causes")>> \o Each(collect_root_causes(l), Item)
    \o print_anomaly_report
  BY DEF Report, print_report, HeadLines, EventLines, SeverityLines, MessageLines, FaultLines,
         WatchdogLines, FailureLines

LEMMA ReportRead ==
  ASSUME NEW s \in ScenarioIds, NEW l, Shape(l, s)
  PROVE  LET p == Parsing(Parser, Report(l))
         IN  /\ p.runtimeHealth = classify_health(l)
             /\ p.schedulerMode = configs[s].scheduler_mode
             /\ p.eventCounts = CountedEvents(l)
             /\ p.severityCounts = CountedSeverities(l)
             /\ Flushed(p) = [t \in Tasks |-> Metric(l, t)]
             /\ p.messageSummary = DropsOf(l)
             /\ p.rootCauses = CausesFound(l)
<1> DEFINE p1 == CountersKnown(l)
           p2 == TasksKnown(p1, l)
           p3 == [p2 EXCEPT !.section = "Fault_summary", !.messageSummary = DropsOf(l)]
           p4 == [p3 EXCEPT !.section = "Task_failure_summary"]
           p5 == [p4 EXCEPT !.section = "Likely_root_causes", !.rootCauses = collect_root_causes(l)]
           p6 == [p5 EXCEPT !.rootCauses = Append(p5.rootCauses, Driver)]
           Heads(p) ==
             /\ IsParser(p) /\ p.runtimeHealth = classify_health(l)
             /\ p.schedulerMode = configs[l.scenario].scheduler_mode
             /\ p.eventCounts = CountedEvents(l) /\ p.severityCounts = CountedSeverities(l)
           Body(p) ==
             /\ p.taskMetrics = TwoTasks(l) /\ p.currentTask = "NetworkTask"
             /\ p.currentTaskMetric = Metric(l, "NetworkTask")
<1>1. /\ Heads(p1) /\ p1.taskMetrics = Empty /\ p1.currentTask = NoTask
      /\ p1.messageSummary = NoMessages /\ p1.rootCauses = <<>>
  BY DEF CountersKnown, Parser, IsParser, Fields
<1> HIDE DEF p1
<1>2. Heads(p2) /\ Body(p2) /\ p2.messageSummary = NoMessages /\ p2.rootCauses = <<>>
  BY <1>1 DEF TasksKnown, IsParser, Fields
<1> HIDE DEF p2
<1>3. /\ Heads(p3) /\ Body(p3) /\ p3.section = "Fault_summary" /\ p3.messageSummary = DropsOf(l)
      /\ p3.rootCauses = <<>>
  BY <1>2 DEF IsParser, Fields
<1> HIDE DEF p3
<1>4. Heads(p4) /\ Body(p4) /\ p4.messageSummary = DropsOf(l) /\ p4.rootCauses = <<>>
  BY <1>3 DEF IsParser, Fields
<1> HIDE DEF p4
<1>5. /\ Heads(p5) /\ Body(p5) /\ p5.section = "Likely_root_causes"
      /\ p5.messageSummary = DropsOf(l) /\ p5.rootCauses = collect_root_causes(l)
  BY <1>4 DEF IsParser, Fields
<1> HIDE DEF p5
<1>6. Heads(p6) /\ Body(p6) /\ p6.messageSummary = DropsOf(l) /\ p6.rootCauses = CausesFound(l)
  BY <1>5 DEF IsParser, Fields, CausesFound
<1> DEFINE part1 == HeadLines(l)
           part2 == part1 \o <<Heading(0, "Task_summary")>> \o TaskSummary(l, "ControlTask")
                      \o TaskSummary(l, "LoggerTask") \o TaskSummary(l, "NetworkTask")
           part3 == part2 \o MessageLines(EventCount(l, "message_sent"),
                                          EventCount(l, "message_received"),
                                          EventCount(l, "message_dropped"), l.queue_full,
                                          l.injected)
           part4 == part3 \o FaultLines(l) \o WatchdogLines(l)
                      \o ListedTask("timeout_tasks", l, "watchdog_timeout")
                      \o ListedTask("recovered_tasks", l, "task_recovered") \o FailureLines(l)
                      \o ListedTask("failed_tasks", l, "task_failed")
                      \o ListedTask("skipped_tasks", l, "task_skipped")
           part5 ==
             part4 \o <<Heading(0, "Likely_root_causes")>> \o Each(collect_root_causes(l), Item)
           part6 == part5 \o print_anomaly_report
<1>7. Report(l) = part6
  BY ReportInParts
<1>8. Reads(part1, p1)
  BY HeadLinesRead DEF p1
<1> HIDE DEF part1
<1>9. Reads(part2, p2)
  BY <1>1, <1>8, TaskLinesRead DEF p2
<1> HIDE DEF part2
<1>10. Reads(part3, p3)
  BY <1>2, <1>9, MessageLinesRead DEF p3
<1> HIDE DEF part3
<1>11. Reads(part4, p4)
  BY <1>3, <1>10, SkimmedLinesRead DEF p4
<1> HIDE DEF part4
<1>12. Reads(part5, p5)
  BY <1>4, <1>11, CauseLinesRead, CausesAreKnown DEF p5
<1> HIDE DEF part5
<1>13. Reads(part6, p6)
  BY <1>5, <1>12, SecondPartRead DEF p6
<1> HIDE DEF part6, p6
<1>14. Parsing(Parser, Report(l)) = p6
  BY <1>7, <1>13 DEF Reads
<1>15. Flushed(p6) = [t \in Tasks |-> Metric(l, t)]
  BY <1>6, AllTasksKnown
<1>16. l.scenario = s
  BY DEF Shape
<1>17. QED
  BY <1>6, <1>14, <1>15, <1>16
-------------------------------------------------------------------------------
(* The lessons: where each stands, and that it is found. *)

Terms == {"embedded_system", "task", "real-time_system", "rtos", "scheduler", "priority",
          "preemption", "deadline", "health_status", "queue", "dropped_message", "watchdog",
          "crash", "linux_scheduler", "runtime_log", "analysis", "warning"}

Stands(n, id, next) ==
  /\ lessonCatalog[n].id = id /\ lessonCatalog[n].moduleNumber = n - 1
  /\ lessonCatalog[n].nextLessonId = next /\ lessonCatalog[n].keyTerms \subseteq Terms

LEMMA LessonsStand ==
  /\ Len(lessonCatalog) = 8 /\ DOMAIN lessonCatalog = 1 .. 8
  /\ Stands(1, "what-is-an-embedded-system", "what-is-an-rtos")
  /\ Stands(2, "what-is-an-rtos", "tasks-priorities-and-preemption")
  /\ Stands(3, "tasks-priorities-and-preemption", "deadlines-and-missed-deadlines")
  /\ Stands(4, "deadlines-and-missed-deadlines", "queues-and-message-passing")
  /\ Stands(5, "queues-and-message-passing", "watchdogs-and-recovery")
  /\ Stands(6, "watchdogs-and-recovery", "linux-vs-rtos-scheduling")
  /\ Stands(7, "linux-vs-rtos-scheduling", "reading-logs-and-analysis")
  /\ Stands(8, "reading-logs-and-analysis", NoLesson)
<1> USE DEF Stands, Lesson
<1>0. Len(lessonCatalog) = 8 /\ DOMAIN lessonCatalog = 1 .. 8
  BY DEF lessonCatalog
<1>1. Stands(1, "what-is-an-embedded-system", "what-is-an-rtos")
  <2>1. lessonCatalog[1] = EmbeddedSystem
    BY DEF lessonCatalog
  <2>2. QED
    BY <2>1 DEF EmbeddedSystem, Terms
<1>2. Stands(2, "what-is-an-rtos", "tasks-priorities-and-preemption")
  <2>1. lessonCatalog[2] = Rtos
    BY DEF lessonCatalog
  <2>2. QED
    BY <2>1 DEF Rtos, Terms
<1>3. Stands(3, "tasks-priorities-and-preemption", "deadlines-and-missed-deadlines")
  <2>1. lessonCatalog[3] = Priorities
    BY DEF lessonCatalog
  <2>2. QED
    BY <2>1 DEF Priorities, Terms
<1>4. Stands(4, "deadlines-and-missed-deadlines", "queues-and-message-passing")
  <2>1. lessonCatalog[4] = Deadlines
    BY DEF lessonCatalog
  <2>2. QED
    BY <2>1 DEF Deadlines, Terms
<1>5. Stands(5, "queues-and-message-passing", "watchdogs-and-recovery")
  <2>1. lessonCatalog[5] = Queues
    BY DEF lessonCatalog
  <2>2. QED
    BY <2>1 DEF Queues, Terms
<1>6. Stands(6, "watchdogs-and-recovery", "linux-vs-rtos-scheduling")
  <2>1. lessonCatalog[6] = Watchdogs
    BY DEF lessonCatalog
  <2>2. QED
    BY <2>1 DEF Watchdogs, Terms
<1>7. Stands(7, "linux-vs-rtos-scheduling", "reading-logs-and-analysis")
  <2>1. lessonCatalog[7] = LinuxScheduling
    BY DEF lessonCatalog
  <2>2. QED
    BY <2>1 DEF LinuxScheduling, Terms
<1>8. Stands(8, "reading-logs-and-analysis", NoLesson)
  <2>1. lessonCatalog[8] = ReadingLogs
    BY DEF lessonCatalog
  <2>2. QED
    BY <2>1 DEF ReadingLogs, Terms
<1>9. QED
  BY <1>0, <1>1, <1>2, <1>3, <1>4, <1>5, <1>6, <1>7, <1>8

\* What the lessons' places say together.
LEMMA LessonsAre ==
  /\ LessonIds = {lessonCatalog[n].id : n \in 1 .. 8}
  /\ \A n \in 1 .. 8 :
       /\ lessonCatalog[n].id # NoLesson /\ lessonCatalog[n].moduleNumber = n - 1
       /\ lessonCatalog[n].keyTerms \subseteq Terms
       /\ n < 8 => lessonCatalog[n].nextLessonId = lessonCatalog[n + 1].id
       /\ n = 8 => lessonCatalog[n].nextLessonId = NoLesson
  /\ \A m, n \in 1 .. 8 : lessonCatalog[m].id = lessonCatalog[n].id => m = n
<1>1. LessonIds = {lessonCatalog[n].id : n \in 1 .. 8}
  BY LessonsStand DEF LessonIds
<1>2. ASSUME NEW n \in 1 .. 8 PROVE n \in {1, 2, 3, 4, 5, 6, 7, 8}
  OBVIOUS
<1>3. ASSUME NEW n \in 1 .. 8
      PROVE  /\ lessonCatalog[n].id # NoLesson /\ lessonCatalog[n].moduleNumber = n - 1
             /\ lessonCatalog[n].keyTerms \subseteq Terms
             /\ n < 8 => lessonCatalog[n].nextLessonId = lessonCatalog[n + 1].id
             /\ n = 8 => lessonCatalog[n].nextLessonId = NoLesson
  BY <1>2, LessonsStand DEF Stands, NoLesson
<1>4. ASSUME NEW m \in 1 .. 8, NEW n \in 1 .. 8, lessonCatalog[m].id = lessonCatalog[n].id
      PROVE  m = n
  BY <1>2, <1>4, LessonsStand DEF Stands
<1>5. QED
  BY <1>1, <1>3, <1>4

\* The lesson at the first of some places.
FirstAt(I) == IF I = {} THEN NoLesson ELSE lessonCatalog[Min(I)].id

LEMMA FirstIsLesson ==
  ASSUME NEW I \in SUBSET (1 .. 8)
  PROVE  IF I = {} THEN FirstAt(I) = NoLesson
         ELSE \E n \in I : FirstAt(I) = lessonCatalog[n].id /\ \A m \in I : n <= m
<1>1. CASE I = {}
  BY <1>1 DEF FirstAt
<1>2. CASE I # {}
  <2>1. \E x \in I : \A y \in I : x <= y
    <3>1. ASSUME NEW y \in I PROVE y \in {1, 2, 3, 4, 5, 6, 7, 8}
      OBVIOUS
    <3>2. CASE 1 \in I
      BY <3>2
    <3>3. CASE 1 \notin I /\ 2 \in I
      BY <3>1, <3>3
    <3>4. CASE 1 \notin I /\ 2 \notin I /\ 3 \in I
      BY <3>1, <3>4
    <3>5. CASE 1 \notin I /\ 2 \notin I /\ 3 \notin I /\ 4 \in I
      BY <3>1, <3>5
    <3>6. CASE \A y \in I : y \in {5, 6, 7, 8}
      <4>1. CASE 5 \in I
        BY <3>6, <4>1
      <4>2. CASE 5 \notin I /\ 6 \in I
        BY <3>6, <4>2
      <4>3. CASE 5 \notin I /\ 6 \notin I /\ 7 \in I
        BY <3>6, <4>3
      <4>4. CASE \A y \in I : y = 8
        <5>1. PICK x \in I : TRUE
          BY <1>2
        <5>2. x <= x /\ \A y \in I : y = x
          BY <4>4
        <5>3. QED
          BY <5>2
      <4>5. QED
        BY <3>6, <4>1, <4>2, <4>3, <4>4
    <3>7. QED
      BY <3>1, <3>2, <3>3, <3>4, <3>5, <3>6
  <2>2. Min(I) \in I /\ \A y \in I : Min(I) <= y
    BY <2>1 DEF Min
  <2>3. QED
    BY <1>2, <2>2 DEF FirstAt
<1>3. QED
  BY <1>1, <1>2

Primary(s) == {n \in 1 .. 8 : lessonCatalog[n].scenarioId = s}
Related(s) == {n \in 1 .. 8 : s \in lessonCatalog[n].relatedScenarioIds}

LEMMA Found ==
  /\ \A id : getLessonById(id) = FirstAt({n \in 1 .. 8 : lessonCatalog[n].id = id})
  /\ \A s : getLessonForScenario(s) =
              IF FirstAt(Primary(s)) # NoLesson THEN FirstAt(Primary(s)) ELSE FirstAt(Related(s))
<1>1. Len(lessonCatalog) = 8
  BY LessonsStand
<1>2. ASSUME NEW I \in SUBSET (1 .. 8)
      PROVE  LET i == IF I # {} THEN Min(I) ELSE 0
             IN  (IF i = 0 THEN NoLesson ELSE lessonCatalog[i].id) = FirstAt(I)
  <2>1. I # {} => \E n \in 1 .. 8 : \A m \in I : n <= m
    BY FirstIsLesson
  <2>2. I # {} => Min(I) # 0
    <3>1. ASSUME I # {} PROVE \E x \in I : \A y \in I : x <= y
      BY <3>1, FirstIsLesson
    <3>2. I # {} => Min(I) \in I
      BY <3>1 DEF Min
    <3>3. QED
      BY <3>2
  <2>3. QED
    BY <2>2 DEF FirstAt
<1>3. ASSUME NEW id
      PROVE  getLessonById(id) = FirstAt({n \in 1 .. 8 : lessonCatalog[n].id = id})
  <2> DEFINE I == {n \in 1 .. Len(lessonCatalog) : lessonCatalog[n].id = id}
             i == IF I # {} THEN Min(I) ELSE 0
  <2>1. getLessonById(id) = IF i = 0 THEN NoLesson ELSE lessonCatalog[i].id
    BY DEF getLessonById, find, SelectInSeq
  <2>2. I = {n \in 1 .. 8 : lessonCatalog[n].id = id}
    BY <1>1
  <2>3. QED
    BY <1>2, <2>1, <2>2
<1>4. ASSUME NEW s
      PROVE  getLessonForScenario(s) =
               IF FirstAt(Primary(s)) # NoLesson THEN FirstAt(Primary(s)) ELSE FirstAt(Related(s))
  <2> DEFINE I == {n \in 1 .. Len(lessonCatalog) : lessonCatalog[n].scenarioId = s}
             i == IF I # {} THEN Min(I) ELSE 0
             J == {n \in 1 .. Len(lessonCatalog) : s \in lessonCatalog[n].relatedScenarioIds}
             j == IF J # {} THEN Min(J) ELSE 0
             primary == IF i = 0 THEN NoLesson ELSE lessonCatalog[i].id
             related == IF j = 0 THEN NoLesson ELSE lessonCatalog[j].id
  <2>1. getLessonForScenario(s) = IF primary # NoLesson THEN primary ELSE related
    BY DEF getLessonForScenario, find, SelectInSeq
  <2>2. I = Primary(s) /\ J = Related(s) /\ I \in SUBSET (1 .. 8) /\ J \in SUBSET (1 .. 8)
    BY <1>1 DEF Primary, Related
  <2> HIDE DEF I, J
  <2>3. primary = FirstAt(I) /\ related = FirstAt(J)
    BY <1>2, <2>2
  <2>4. QED
    BY <2>1, <2>2, <2>3
<1>5. QED
  BY <1>3, <1>4

LEMMA LessonsFound ==
  /\ \A id : getLessonById(id) = IF id \in LessonIds THEN id ELSE NoLesson
  /\ \A s : getLessonForScenario(s) \in LessonIds \cup {NoLesson}
  /\ NoLesson \notin LessonIds
  /\ \A n \in 1 .. 8 : LessonOf(lessonCatalog[n].id) = lessonCatalog[n]
<1>1. NoLesson \notin LessonIds
  BY LessonsAre
<1>2. ASSUME NEW I \in SUBSET (1 .. 8) PROVE FirstAt(I) \in LessonIds \cup {NoLesson}
  BY FirstIsLesson, LessonsAre
<1>3. ASSUME NEW id PROVE getLessonById(id) = IF id \in LessonIds THEN id ELSE NoLesson
  <2> DEFINE I == {n \in 1 .. 8 : lessonCatalog[n].id = id}
  <2>1. getLessonById(id) = FirstAt(I)
    BY Found
  <2>2. I = {} <=> id \notin LessonIds
    BY LessonsAre
  <2>3. \A n \in I : lessonCatalog[n].id = id
    OBVIOUS
  <2>4. I \in SUBSET (1 .. 8)
    OBVIOUS
  <2> HIDE DEF I
  <2>5. QED
    BY <2>1, <2>2, <2>3, <2>4, FirstIsLesson
<1>4. ASSUME NEW s PROVE getLessonForScenario(s) \in LessonIds \cup {NoLesson}
  <2>1. Primary(s) \in SUBSET (1 .. 8) /\ Related(s) \in SUBSET (1 .. 8)
    BY DEF Primary, Related
  <2>2. QED
    BY <1>2, <2>1, Found
<1>5. ASSUME NEW n \in 1 .. 8 PROVE LessonOf(lessonCatalog[n].id) = lessonCatalog[n]
  <2>1. ToSet(lessonCatalog) = {lessonCatalog[m] : m \in 1 .. 8}
    BY LessonsStand DEF ToSet
  <2>2. \A lesson \in ToSet(lessonCatalog) :
          lesson.id = lessonCatalog[n].id <=> lesson = lessonCatalog[n]
    BY <2>1, LessonsAre
  <2>3. lessonCatalog[n] \in ToSet(lessonCatalog)
    BY <2>1
  <2>4. QED
    BY <2>2, <2>3 DEF LessonOf
<1>6. QED
  BY <1>1, <1>3, <1>4, <1>5

\* Every term has an entry.
LEMMA TermsExplained ==
  /\ \A term \in Terms : HasEntry(term)
  /\ SummaryTerms \subseteq Terms
<1>1. /\ {"embedded_system", "embedded_systems", "embedded"} \in glossary
      /\ {"rtos", "real-time_operating_system"} \in glossary
      /\ {"task", "tasks"} \in glossary
  BY DEF glossary, fundamentals
<1>2. /\ {"scheduler", "scheduling"} \in glossary
      /\ {"priority", "priorities"} \in glossary
      /\ {"preemption", "preempt", "preempted"} \in glossary
      /\ {"queue", "queues"} \in glossary
  BY DEF glossary, scheduling, synchronisation
<1>3. /\ {"deadline", "deadlines"} \in glossary
      /\ {"watchdog"} \in glossary
      /\ {"linux_scheduler"} \in glossary
      /\ {"real-time_system", "real-time_systems", "real_time"} \in glossary
  BY DEF glossary, timing
<1>4. /\ {"dropped_message", "dropped_messages", "message_dropped", "drop", "drops"} \in glossary
      /\ {"crash", "crashed", "task_crash", "crashes"} \in glossary
  BY DEF glossary, reliability
<1>5. /\ {"health_check", "health_status", "health", "runtime_health"} \in glossary
      /\ {"warning", "warnings"} \in glossary
      /\ {"runtime_log", "runtime_logs", "logs", "log"} \in glossary
      /\ {"analysis", "analyzer", "analysis_report"} \in glossary
  BY DEF glossary, observability
<1>6. ASSUME NEW term, \E entry : entry \in glossary /\ term \in entry PROVE HasEntry(term)
  BY <1>6 DEF HasEntry
<1>7. /\ HasEntry("embedded_system") /\ HasEntry("rtos") /\ HasEntry("task")
  BY <1>1, <1>6
<1>8. /\ HasEntry("scheduler") /\ HasEntry("priority") /\ HasEntry("preemption")
      /\ HasEntry("queue")
  BY <1>2, <1>6
<1>9. /\ HasEntry("deadline") /\ HasEntry("watchdog") /\ HasEntry("linux_scheduler")
      /\ HasEntry("real-time_system")
  BY <1>3, <1>6
<1>10. HasEntry("dropped_message") /\ HasEntry("crash")
  BY <1>4, <1>6
<1>11. /\ HasEntry("health_status") /\ HasEntry("warning") /\ HasEntry("runtime_log")
       /\ HasEntry("analysis")
  BY <1>5, <1>6
<1>12. QED
  BY <1>7, <1>8, <1>9, <1>10, <1>11 DEF Terms, SummaryTerms
-------------------------------------------------------------------------------
(* Where the links lead. *)

Pages == NAV_ITEMS \cup {"home", "lesson"}
IsPlace(p) ==
  /\ p \in [page : Pages, lesson : LessonIds \cup {NoLesson}]
  /\ p.page = "lesson" => p.lesson \in LessonIds

LEMMA PagesArePlaces ==
  /\ \A page \in NAV_ITEMS \cup {"home"} : IsPlace(Page(page))
  /\ \A lesson \in LessonIds : IsPlace(LessonPage(lesson))
<1>1. ASSUME NEW page \in NAV_ITEMS \cup {"home"} PROVE IsPlace(Page(page))
  <2>1. page # "lesson" /\ page \in Pages
    BY DEF NAV_ITEMS, Pages
  <2>2. QED
    BY <2>1 DEF IsPlace, Page
<1>2. ASSUME NEW lesson \in LessonIds PROVE IsPlace(LessonPage(lesson))
  BY DEF IsPlace, LessonPage, Pages
<1>3. QED
  BY <1>1, <1>2

LEMMA NextLessons ==
  \A lesson \in LessonIds : LessonOf(lesson).nextLessonId \in LessonIds \cup {NoLesson}
<1>1. ASSUME NEW n \in 1 .. 8 PROVE lessonCatalog[n].nextLessonId \in LessonIds \cup {NoLesson}
  <2>1. n < 8 => n + 1 \in 1 .. 8
    OBVIOUS
  <2>2. QED
    BY <2>1, LessonsAre
<1>2. QED
  BY <1>1, LessonsAre, LessonsFound

\* What any page links to is there.
LEMMA LinksArePlaces ==
  ASSUME IsPlace(place), NEW link \in Links
  PROVE  IsPlace(link)
<1>1. /\ \A page \in {"learn", "glossary", "simulator", "analysis"} : page \in NAV_ITEMS
      /\ \A page \in NAV_ITEMS \cup {"home"} : IsPlace(Page(page))
      /\ \A lesson \in LessonIds : IsPlace(LessonPage(lesson))
  BY PagesArePlaces DEF NAV_ITEMS
<1>2. ASSUME link \in HomeLinks PROVE IsPlace(link)
  <2>1. lessonCatalog[1].id \in LessonIds
    BY LessonsAre
  <2>2. QED
    BY <1>1, <1>2, <2>1 DEF HomeLinks
<1>3. ASSUME link \in LearnLinks PROVE IsPlace(link)
  BY <1>1, <1>3 DEF LearnLinks
<1>4. ASSUME link \in LessonLinks, place.page = "lesson" PROVE IsPlace(link)
  <2>1. place.lesson \in LessonIds
    BY <1>4 DEF IsPlace
  <2>2. LessonOf(place.lesson).nextLessonId \in LessonIds \cup {NoLesson}
    BY <2>1, NextLessons
  <2>3. QED
    BY <1>1, <1>4, <2>2 DEF LessonLinks
<1>5. ASSUME link \in SimulatorLinks PROVE IsPlace(link)
  <2>1. \A s \in ScenarioIds : getLessonForScenario(s) # NoLesson =>
          getLessonForScenario(s) \in LessonIds
    BY LessonsFound
  <2>2. QED
    BY <1>1, <1>5, <2>1 DEF SimulatorLinks
<1>6. ASSUME link \in AnalysisLinks PROVE IsPlace(link)
  <2>1. RelatedLessons(analysis) \subseteq LessonIds
    BY LessonsFound DEF RelatedLessons
  <2>2. QED
    BY <1>1, <1>6, <2>1 DEF AnalysisLinks
<1>7. ASSUME link \in RunsLinks PROVE IsPlace(link)
  BY <1>1, <1>7, LessonsFound DEF RunsLinks
<1>8. \/ link \in {Page(item) : item \in NAV_ITEMS} \cup {Page("home")}
      \/ link \in HomeLinks \/ link \in LearnLinks
      \/ (link \in LessonLinks /\ place.page = "lesson")
      \/ link \in SimulatorLinks \/ link \in AnalysisLinks \/ link \in RunsLinks
  BY DEF Links
<1>9. QED
  BY <1>1, <1>2, <1>3, <1>4, <1>5, <1>6, <1>7, <1>8
-------------------------------------------------------------------------------
\* What is shown is the answer about the log of the last run.
Answered ==
  \/ log = NoLog /\ analysis = NoAnalysis
  \/ \E s \in ScenarioIds : log \in LogsOf(s) /\ analysis = parse(Report(log), s)

GuidedInv ==
  /\ IsPlace(place)
  /\ running \in ScenarioIds \cup {Idle}
  /\ Answered

(* The inductive invariant: every page the learner comes to exists, and    *)
(* the analysis beside it is the parsed report of one log of one scenario, *)
(* which all that is proved below of logs and reports then applies to.     *)
THEOREM GuidedInvariant == Spec => []GuidedInv
<1>1. Init => GuidedInv
  <2> SUFFICES ASSUME Init PROVE GuidedInv
    OBVIOUS
  <2>1. IsPlace(Page("home"))
    BY PagesArePlaces
  <2>2. QED
    BY <2>1 DEF Init, GuidedInv, Answered
<1>2. GuidedInv /\ [Next]_vars => GuidedInv'
  <2> SUFFICES ASSUME GuidedInv, [Next]_vars PROVE GuidedInv'
    OBVIOUS
  <2> USE DEF GuidedInv
  <2>1. ASSUME NEW s \in ScenarioIds, RunScenario(s) PROVE GuidedInv'
    BY <2>1 DEF RunScenario, Answered, IsPlace
  <2>2. CASE RunFinishes
    <3>1. running \in ScenarioIds
      BY <2>2 DEF RunFinishes
    <3>2. PICK l \in LogsOf(running) : log' = l /\ analysis' = parse(Report(l), running)
      BY <2>2 DEF RunFinishes
    <3>3. Answered'
      <4>1. log' \in LogsOf(running) /\ analysis' = parse(Report(log'), running)
        BY <3>2
      <4>2. QED
        BY <3>1, <4>1 DEF Answered
    <3>4. IsPlace(place')
      <4>1. place' = Page("analysis")
        BY <2>2 DEF RunFinishes
      <4>2. QED
        BY <4>1, PagesArePlaces DEF NAV_ITEMS
    <3>5. QED
      BY <2>2, <3>3, <3>4 DEF RunFinishes, IsPlace
  <2>3. CASE Follow
    <3>1. IsPlace(place')
      BY <2>3, LinksArePlaces DEF Follow
    <3>2. QED
      BY <2>3, <3>1 DEF Follow, Answered, IsPlace
  <2>4. CASE UNCHANGED vars
    BY <2>4 DEF vars, Answered, IsPlace
  <2>5. QED
    BY <2>1, <2>2, <2>3, <2>4 DEF Next
<1>3. QED
  BY <1>1, <1>2, PTL DEF Spec

(* The types of the variables: a log is one its scenario's run may leave,  *)
(* and there is an answer exactly when there is a log.                     *)
THEOREM TypeCorrect == Spec => []TypeOK
<1>1. GuidedInv => TypeOK
  <2> SUFFICES ASSUME GuidedInv PROVE TypeOK
    OBVIOUS
  <2>1. /\ place \in [page : Pages, lesson : LessonIds \cup {NoLesson}]
        /\ running \in ScenarioIds \cup {Idle}
    BY DEF GuidedInv, IsPlace
  <2>2. CASE log = NoLog /\ analysis = NoAnalysis
    BY <2>1, <2>2 DEF TypeOK, Pages
  <2>3. CASE \E s \in ScenarioIds : log \in LogsOf(s) /\ analysis = parse(Report(log), s)
    <3>1. PICK s \in ScenarioIds : log \in LogsOf(s) /\ analysis = parse(Report(log), s)
      BY <2>3
    <3>2. log.scenario = s /\ analysis.scenarioId = s
      BY <3>1, LogsHaveShape DEF Shape, parse, Parsed
    <3>3. s # Idle
      BY DEF ScenarioIds, Idle
    <3>4. log # NoLog /\ analysis # NoAnalysis
      BY <3>2, <3>3 DEF NoLog, NoAnalysis
    <3>5. QED
      BY <2>1, <3>1, <3>2, <3>4 DEF TypeOK, Pages
  <2>4. QED
    BY <2>2, <2>3 DEF GuidedInv, Answered
<1>2. QED
  BY <1>1, GuidedInvariant, PTL

LEMMA InvImpliesLinks == GuidedInv => LinksLeadSomewhere
<1> SUFFICES ASSUME GuidedInv, place.page = "lesson"
             PROVE  /\ getLessonById(place.lesson) # NoLesson
                    /\ LET lesson == LessonOf(place.lesson)
                       IN  /\ \A term \in lesson.keyTerms \cup SummaryTerms : HasEntry(term)
                           /\ lesson.nextLessonId # NoLesson =>
                                LessonOf(lesson.nextLessonId).moduleNumber = lesson.moduleNumber + 1
  BY DEF LinksLeadSomewhere
<1>1. place.lesson \in LessonIds
  BY DEF GuidedInv, IsPlace
<1>2. PICK n \in 1 .. 8 : place.lesson = lessonCatalog[n].id
  BY <1>1, LessonsAre
<1>3. LessonOf(place.lesson) = lessonCatalog[n]
  BY <1>2, LessonsFound
<1>4. \A term \in lessonCatalog[n].keyTerms \cup SummaryTerms : HasEntry(term)
  <2>1. lessonCatalog[n].keyTerms \subseteq Terms
    BY LessonsAre
  <2>2. QED
    BY <2>1, TermsExplained
<1>5. ASSUME lessonCatalog[n].nextLessonId # NoLesson
      PROVE  LessonOf(lessonCatalog[n].nextLessonId).moduleNumber =
               lessonCatalog[n].moduleNumber + 1
  <2>1. n # 8
    BY <1>5, LessonsAre
  <2>2. n + 1 \in 1 .. 8 /\ lessonCatalog[n].nextLessonId = lessonCatalog[n + 1].id
    BY <2>1, LessonsAre
  <2>3. LessonOf(lessonCatalog[n + 1].id) = lessonCatalog[n + 1]
    BY <2>2, LessonsFound
  <2>4. lessonCatalog[n + 1].moduleNumber = (n + 1) - 1 /\ lessonCatalog[n].moduleNumber = n - 1
    BY <2>2, LessonsAre
  <2>5. QED
    BY <2>2, <2>3, <2>4
<1>6. QED
  BY <1>1, <1>3, <1>4, <1>5, LessonsFound

(* No link is a dead end: a lesson's page always finds its lesson, its     *)
(* terms are in the glossary and the next lesson is the next module.       *)
THEOREM LinksLead == Spec => []LinksLeadSomewhere
  BY GuidedInvariant, InvImpliesLinks, PTL

LEMMA InvImpliesParsed == GuidedInv => ParsedAsReported
<1> SUFFICES ASSUME GuidedInv, Shown PROVE ParsedAsReported
  BY DEF ParsedAsReported
<1>1. PICK s \in ScenarioIds : log \in LogsOf(s) /\ analysis = parse(Report(log), s)
  BY DEF GuidedInv, Answered, Shown
<1>2. Shape(log, s) /\ log.scenario = s
  BY <1>1, LogsHaveShape DEF Shape
<1> DEFINE p == Parsing(Parser, Report(log))
<1>3. /\ p.runtimeHealth = classify_health(log)
      /\ p.schedulerMode = configs[s].scheduler_mode
      /\ p.eventCounts = CountedEvents(log)
      /\ p.severityCounts = CountedSeverities(log)
      /\ Flushed(p) = [t \in Tasks |-> Metric(log, t)]
      /\ p.messageSummary = DropsOf(log)
      /\ p.rootCauses = CausesFound(log)
  BY <1>2, ReportRead
<1>4. analysis = Parsed(p, s)
  BY <1>1 DEF parse, Parsing
<1> HIDE DEF p
<1>5. /\ analysis.scenarioId = s
      /\ analysis.runtimeHealth = classify_health(log)
      /\ analysis.schedulerMode = configs[s].scheduler_mode
      /\ analysis.eventCounts = CountedEvents(log)
      /\ analysis.severityCounts = CountedSeverities(log)
      /\ analysis.taskMetrics = [t \in Tasks |-> Metric(log, t)]
      /\ analysis.messageSummary = DropsOf(log)
      /\ analysis.rootCauses = CausesFound(log)
  BY <1>3, <1>4 DEF Parsed
<1>6. ASSUME NEW event \in ToSet(EventTypes) PROVE EventCount(log, event) = Listed(analysis, event)
  <2>1. event \in EventNames
    BY EventTypesAre
  <2>2. EventCount(log, event) \in Nat
    BY <1>2, <2>1, EventCountIsNat
  <2>3. QED
    BY <1>5, <2>1, <2>2 DEF Listed, CountedEvents
<1>7. ASSUME NEW severity \in {"error", "info", "warning"}, SeverityCount(log, severity) > 0
      PROVE  analysis.severityCounts[severity] = SeverityCount(log, severity)
  BY <1>5, <1>7 DEF CountedSeverities
<1>8. IsPrefix(collect_root_causes(log), analysis.rootCauses)
  <2> DEFINE causes == collect_root_causes(log)
             S == Causes \cup {Driver}
  <2>1. causes \in Seq(S)
    BY <1>2, CausesAreKnown
  <2>2. Driver \in S
    OBVIOUS
  <2> HIDE DEF causes, S
  <2>3. Append(causes, Driver) \in Seq(S) /\ Len(Append(causes, Driver)) = Len(causes) + 1
    BY <2>1, <2>2
  <2>4. SubSeq(Append(causes, Driver), 1, Len(causes)) = causes
    BY <2>1, <2>2
  <2>5. QED
    BY <1>5, <2>1, <2>3, <2>4 DEF IsPrefix, CausesFound, causes
<1>9. QED
  BY <1>2, <1>5, <1>6, <1>7, <1>8 DEF ParsedAsReported, Metric, DropsOf

(* The backend hands on what the analyzer found, whatever was counted: the *)
(* verdict, every count and every task's misses, each from its own section *)
(* of the report, and every cause in order.                                *)
THEOREM ReportIsParsed == Spec => []ParsedAsReported
  BY GuidedInvariant, InvImpliesParsed, PTL
-------------------------------------------------------------------------------
(* What the curriculum says of each scenario. *)

Says(s, content, step, prerequisites, predicts) ==
  /\ getScenarioLearningContent(s) = content
  /\ content.step = step /\ content.prerequisites = prerequisites /\ content.predicts = predicts

LEMMA ContentIs ==
  /\ Says("normal", normalContent, 1, {}, "NORMAL")
  /\ Says("priority_scheduler", prioritySchedulerContent, 2, {"normal"}, "NORMAL")
  /\ Says("deadline_scheduler", deadlineSchedulerContent,
          3, {"normal", "priority_scheduler"}, "NORMAL")
  /\ Says("queue_overflow", queueOverflowContent, 4, {"normal"}, "WARNING")
  /\ Says("dropped_messages", droppedMessagesContent, 5, {"queue_overflow"}, "WARNING")
  /\ Says("slow_task", slowTaskContent, 6, {"normal"}, "UNSTABLE")
  /\ Says("cpu_spike", cpuSpikeContent, 7, {"slow_task"}, "UNSTABLE")
  /\ Says("task_crash", taskCrashContent, 8, {"normal", "slow_task"}, "UNSTABLE")
  /\ Says("watchdog_slow_task", watchdogSlowTaskContent, 9, {"slow_task"}, "UNSTABLE")
<1>0. DOMAIN scenarioLearningContent = ScenarioIds
  BY DEF scenarioLearningContent, ScenarioIds
<1>1. Says("normal", normalContent, 1, {}, "NORMAL")
  <2>1. "normal" \in ScenarioIds
    BY DEF ScenarioIds
  <2>2. scenarioLearningContent["normal"] = normalContent
    BY DEF scenarioLearningContent
  <2>3. getScenarioLearningContent("normal") = normalContent
    BY <1>0, <2>1, <2>2 DEF getScenarioLearningContent
  <2>4. QED
    BY <2>3 DEF Says, normalContent, Chapter
<1>2. Says("priority_scheduler", prioritySchedulerContent, 2, {"normal"}, "NORMAL")
  <2>1. "priority_scheduler" \in ScenarioIds
    BY DEF ScenarioIds
  <2>2. scenarioLearningContent["priority_scheduler"] = prioritySchedulerContent
    BY DEF scenarioLearningContent
  <2>3. getScenarioLearningContent("priority_scheduler") = prioritySchedulerContent
    BY <1>0, <2>1, <2>2 DEF getScenarioLearningContent
  <2>4. QED
    BY <2>3 DEF Says, prioritySchedulerContent, Chapter
<1>3. Says("deadline_scheduler", deadlineSchedulerContent,
           3, {"normal", "priority_scheduler"}, "NORMAL")
  <2>1. "deadline_scheduler" \in ScenarioIds
    BY DEF ScenarioIds
  <2>2. scenarioLearningContent["deadline_scheduler"] = deadlineSchedulerContent
    BY DEF scenarioLearningContent
  <2>3. getScenarioLearningContent("deadline_scheduler") = deadlineSchedulerContent
    BY <1>0, <2>1, <2>2 DEF getScenarioLearningContent
  <2>4. QED
    BY <2>3 DEF Says, deadlineSchedulerContent, Chapter
<1>4. Says("queue_overflow", queueOverflowContent, 4, {"normal"}, "WARNING")
  <2>1. "queue_overflow" \in ScenarioIds
    BY DEF ScenarioIds
  <2>2. scenarioLearningContent["queue_overflow"] = queueOverflowContent
    BY DEF scenarioLearningContent
  <2>3. getScenarioLearningContent("queue_overflow") = queueOverflowContent
    BY <1>0, <2>1, <2>2 DEF getScenarioLearningContent
  <2>4. QED
    BY <2>3 DEF Says, queueOverflowContent, Chapter
<1>5. Says("dropped_messages", droppedMessagesContent, 5, {"queue_overflow"}, "WARNING")
  <2>1. "dropped_messages" \in ScenarioIds
    BY DEF ScenarioIds
  <2>2. scenarioLearningContent["dropped_messages"] = droppedMessagesContent
    BY DEF scenarioLearningContent
  <2>3. getScenarioLearningContent("dropped_messages") = droppedMessagesContent
    BY <1>0, <2>1, <2>2 DEF getScenarioLearningContent
  <2>4. QED
    BY <2>3 DEF Says, droppedMessagesContent, Chapter
<1>6. Says("slow_task", slowTaskContent, 6, {"normal"}, "UNSTABLE")
  <2>1. "slow_task" \in ScenarioIds
    BY DEF ScenarioIds
  <2>2. scenarioLearningContent["slow_task"] = slowTaskContent
    BY DEF scenarioLearningContent
  <2>3. getScenarioLearningContent("slow_task") = slowTaskContent
    BY <1>0, <2>1, <2>2 DEF getScenarioLearningContent
  <2>4. QED
    BY <2>3 DEF Says, slowTaskContent, Chapter
<1>7. Says("cpu_spike", cpuSpikeContent, 7, {"slow_task"}, "UNSTABLE")
  <2>1. "cpu_spike" \in ScenarioIds
    BY DEF ScenarioIds
  <2>2. scenarioLearningContent["cpu_spike"] = cpuSpikeContent
    BY DEF scenarioLearningContent
  <2>3. getScenarioLearningContent("cpu_spike") = cpuSpikeContent
    BY <1>0, <2>1, <2>2 DEF getScenarioLearningContent
  <2>4. QED
    BY <2>3 DEF Says, cpuSpikeContent, Chapter
<1>8. Says("task_crash", taskCrashContent, 8, {"normal", "slow_task"}, "UNSTABLE")
  <2>1. "task_crash" \in ScenarioIds
    BY DEF ScenarioIds
  <2>2. scenarioLearningContent["task_crash"] = taskCrashContent
    BY DEF scenarioLearningContent
  <2>3. getScenarioLearningContent("task_crash") = taskCrashContent
    BY <1>0, <2>1, <2>2 DEF getScenarioLearningContent
  <2>4. QED
    BY <2>3 DEF Says, taskCrashContent, Chapter
<1>9. Says("watchdog_slow_task", watchdogSlowTaskContent, 9, {"slow_task"}, "UNSTABLE")
  <2>1. "watchdog_slow_task" \in ScenarioIds
    BY DEF ScenarioIds
  <2>2. scenarioLearningContent["watchdog_slow_task"] = watchdogSlowTaskContent
    BY DEF scenarioLearningContent
  <2>3. getScenarioLearningContent("watchdog_slow_task") = watchdogSlowTaskContent
    BY <1>0, <2>1, <2>2 DEF getScenarioLearningContent
  <2>4. QED
    BY <2>3 DEF Says, watchdogSlowTaskContent, Chapter
<1>10. QED
  BY <1>1, <1>2, <1>3, <1>4, <1>5, <1>6, <1>7, <1>8, <1>9

\* The verdict on a run of a machine that keeps up.
IsCalm(l) ==
  LET c == configs[l.scenario]
  IN  \A t \in Tasks : l.misses[t] > 0 => OverBudget(c) /\ t = c.faults.target_task

LEMMA CalmVerdict ==
  ASSUME NEW s \in ScenarioIds, NEW l, Shape(l, s), IsCalm(l)
  PROVE  classify_health(l) = IF FaultKind(s) \in {"late", "crash"} THEN "UNSTABLE" ELSE "WARNING"
<1>1. /\ l.scenario = s /\ l.queue_full \in Nat /\ l.queue_full >= Many /\ l.injected \in Nat
      /\ l.timeouts \in Nat /\ \A t \in Tasks : l.misses[t] \in Nat
  BY DEF Shape
<1>2. CASE FaultKind(s) = "late"
  <2>1. configs[s].faults.target_task \in Tasks /\ l.misses[configs[s].faults.target_task] >= Many
    BY <1>2, FaultsAre DEF Shape
  <2>2. TotalMisses(l) >= Many
    BY <1>1, <2>1 DEF TotalMisses, Tasks, Many
  <2>3. QED
    BY <1>2, <2>2 DEF classify_health, Unstable
<1>3. CASE FaultKind(s) = "crash"
  <2>1. EventCount(l, "task_failed") = 1
    BY <1>3, EventCountsAre
  <2>2. Unstable(l)
    BY <2>1 DEF Unstable
  <2>3. QED
    BY <1>3, <2>2 DEF classify_health
<1>4. CASE FaultKind(s) \notin {"late", "crash"}
  <2>1. \A t \in Tasks : l.misses[t] = 0
    BY <1>1, <1>4, FaultsAre DEF IsCalm
  <2>2. TotalMisses(l) = 0
    BY <2>1 DEF TotalMisses, Tasks
  <2>3. l.timeouts = 0
    BY <1>1, <1>4 DEF Shape, FaultKind
  <2>4. /\ EventCount(l, "task_failed") = 0 /\ EventCount(l, "task_skipped") = 0
        /\ EventCount(l, "watchdog_timeout") = 0 /\ EventCount(l, "task_recovered") = 0
    BY <1>4, <2>3, EventCountsAre
  <2>5. ~Unstable(l)
    BY <2>2, <2>4 DEF Unstable, Many
  <2>6. l.queue_full + l.injected > 0
    BY <1>1 DEF Many
  <2>7. QED
    BY <1>4, <2>5, <2>6 DEF classify_health
<1>5. QED
  BY <1>2, <1>3, <1>4

LEMMA InvImpliesPredicted == GuidedInv => FaultyVerdictIsPredicted
<1> SUFFICES ASSUME GuidedInv, Shown, Calm, Studied.predicts # "NORMAL"
             PROVE  analysis.runtimeHealth = Studied.predicts
  BY DEF FaultyVerdictIsPredicted
<1>1. PICK s \in ScenarioIds : log \in LogsOf(s) /\ analysis = parse(Report(log), s)
  BY DEF GuidedInv, Answered, Shown
<1>2. Shape(log, s) /\ IsCalm(log)
  BY <1>1, LogsHaveShape DEF Calm, IsCalm
<1>3. analysis.scenarioId = s
  BY <1>1 DEF parse, Parsed
<1>4. analysis.runtimeHealth = classify_health(log)
  BY InvImpliesParsed DEF ParsedAsReported
<1>5. Studied.predicts = IF FaultKind(s) \in {"late", "crash"} THEN "UNSTABLE" ELSE "WARNING"
  <2>1. getScenarioLearningContent(s).predicts # "NORMAL"
    BY <1>3 DEF Studied
  <2>2. s \notin {"normal", "priority_scheduler", "deadline_scheduler"}
    BY <2>1, ContentIs DEF Says
  <2>3. CASE s \in {"queue_overflow", "dropped_messages"}
    BY <1>3, <2>3, ContentIs DEF Says, FaultKind, Studied
  <2>4. CASE s \in {"slow_task", "cpu_spike", "task_crash", "watchdog_slow_task"}
    BY <1>3, <2>4, ContentIs DEF Says, FaultKind, Studied
  <2>5. QED
    BY <2>2, <2>3, <2>4 DEF ScenarioIds
<1>6. QED
  BY <1>2, <1>4, <1>5, CalmVerdict

(* A student who predicted a degraded run from the curriculum was right,   *)
(* on a machine that keeps up, whatever the counts.                        *)
THEOREM PredictionsHold == Spec => []FaultyVerdictIsPredicted
  BY GuidedInvariant, InvImpliesPredicted, PTL
\* The events a run's log has, and the values a text may quote.
Logged(l) == {event \in ToSet(EventTypes) : EventCount(l, event) > 0}

EveryRun == {"task_started", "task_completed", "runtime_summary", "message_sent",
             "message_received", "message_dropped", "runtime_started", "scheduler_started"}

LEMMA LoggedAre ==
  ASSUME NEW s \in ScenarioIds, NEW l, Shape(l, s)
  PROVE  /\ EveryRun \subseteq Logged(l)
         /\ FaultKind(s) \in {"late", "crash", "lossy"} => "fault_injected" \in Logged(l)
         /\ FaultKind(s) = "crash" => {"task_failed", "task_skipped"} \subseteq Logged(l)
         /\ s = "watchdog_slow_task" => {"watchdog_timeout", "task_recovered"} \subseteq Logged(l)
<1>1. \A event \in EventNames : EventCount(l, event) > 0 => event \in Logged(l)
  BY EventTypesAre DEF Logged
<1>2. /\ l.queue_full \in Nat /\ l.queue_full >= 3 /\ l.injected \in Nat /\ l.timeouts \in Nat
      /\ FaultKind(s) = "lossy" => l.injected > 0
      /\ s = "watchdog_slow_task" => l.timeouts > 0
  BY DEF Shape, Many
<1>3. EveryRun \subseteq Logged(l)
  <2>1. \A event \in EveryRun : event \in EventNames /\ EventCount(l, event) > 0
    BY <1>2, EventCountsAre DEF EveryRun, EventNames, Many
  <2>2. QED
    BY <1>1, <2>1
<1>4. FaultKind(s) \in {"late", "crash", "lossy"} => "fault_injected" \in Logged(l)
  BY <1>1, <1>2, EventCountsAre DEF EventNames, Many
<1>5. FaultKind(s) = "crash" => {"task_failed", "task_skipped"} \subseteq Logged(l)
  BY <1>1, EventCountsAre DEF EventNames, Many
<1>6. s = "watchdog_slow_task" => {"watchdog_timeout", "task_recovered"} \subseteq Logged(l)
  BY <1>1, <1>2, EventCountsAre DEF EventNames
<1>7. QED
  BY <1>3, <1>4, <1>5, <1>6

Right(c, quote) == Configured(c, quote) = quote.value

LEMMA QuotesAre ==
  ASSUME NEW c
  PROVE  /\ \A t \in Tasks : \A field, value :
              field # "targeted" /\ c.tasks[t][field] = value => Right(c, Quote(t, field, value))
         /\ \A field, value :
              field # "targeted" /\ c.faults[field] = value =>
                Right(c, Quote("fault", field, value))
         /\ \A t : c.faults.target_task = t => Right(c, Target(t))
<1>1. ASSUME NEW t \in Tasks, NEW field, NEW value, field # "targeted", c.tasks[t][field] = value
      PROVE  Right(c, Quote(t, field, value))
  <2>1. t # "fault"
    BY DEF Tasks
  <2>2. QED
    BY <1>1, <2>1 DEF Right, Configured, Quote
<1>2. ASSUME NEW field, NEW value, field # "targeted", c.faults[field] = value
      PROVE  Right(c, Quote("fault", field, value))
  BY <1>2 DEF Right, Configured, Quote
<1>3. ASSUME NEW t, c.faults.target_task = t PROVE Right(c, Target(t))
  BY <1>3 DEF Right, Configured, Quote, Target
<1>4. QED
  BY <1>1, <1>2, <1>3

LEMMA TimingsAre ==
  ASSUME NEW c, NEW t \in Tasks, NEW period, NEW deadline, NEW execution,
         c.tasks[t].period_ms = period, c.tasks[t].deadline_ms = deadline,
         c.tasks[t].execution_time_ms = execution
  PROVE  \A quote \in Timing(t, period, deadline, execution) : Right(c, quote)
<1>1. Right(c, Quote(t, "period_ms", period))
  BY QuotesAre
<1>2. Right(c, Quote(t, "deadline_ms", deadline))
  BY QuotesAre
<1>3. Right(c, Quote(t, "execution_time_ms", execution))
  BY QuotesAre
<1>4. QED
  BY <1>1, <1>2, <1>3 DEF Timing

LEMMA TasksHave ==
  /\ \A t \in Tasks : t \in {"ControlTask", "NetworkTask", "LoggerTask"}
  /\ normalTasks["ControlTask"] = TaskConfig(100, 80, 1, 10, 10)
  /\ normalTasks["NetworkTask"] = TaskConfig(250, 200, 2, 20, 10)
  /\ normalTasks["LoggerTask"] = TaskConfig(500, 400, 3, 15, 20)
  /\ deadlineTasks["ControlTask"] = normalTasks["ControlTask"]
  /\ deadlineTasks["NetworkTask"].deadline_ms = 150
  /\ deadlineTasks["LoggerTask"] = normalTasks["LoggerTask"]
  /\ overflowTasks["ControlTask"] = TaskConfig(50, 40, 1, 5, 10)
  /\ overflowTasks["NetworkTask"] = TaskConfig(75, 60, 2, 8, 10)
  /\ overflowTasks["LoggerTask"] = TaskConfig(1000, 900, 3, 15, 3)
<1>1. /\ normalTasks["ControlTask"] = TaskConfig(100, 80, 1, 10, 10)
      /\ normalTasks["NetworkTask"] = TaskConfig(250, 200, 2, 20, 10)
      /\ normalTasks["LoggerTask"] = TaskConfig(500, 400, 3, 15, 20)
  BY DEF normalTasks
<1>2. /\ overflowTasks["ControlTask"] = TaskConfig(50, 40, 1, 5, 10)
      /\ overflowTasks["NetworkTask"] = TaskConfig(75, 60, 2, 8, 10)
      /\ overflowTasks["LoggerTask"] = TaskConfig(1000, 900, 3, 15, 3)
  BY DEF overflowTasks
<1>3. /\ deadlineTasks["ControlTask"] = normalTasks["ControlTask"]
      /\ deadlineTasks["NetworkTask"].deadline_ms = 150
      /\ deadlineTasks["LoggerTask"] = normalTasks["LoggerTask"]
  BY DEF deadlineTasks, normalTasks, TaskConfig
<1>4. QED
  BY <1>1, <1>2, <1>3 DEF Tasks

\* Every quoted value is the configuration's.
LEMMA QuotesRight ==
  /\ \A quote \in normalContent.quotes : Right(configs["normal"], quote)
  /\ \A quote \in prioritySchedulerContent.quotes : Right(configs["priority_scheduler"], quote)
  /\ \A quote \in deadlineSchedulerContent.quotes : Right(configs["deadline_scheduler"], quote)
  /\ \A quote \in queueOverflowContent.quotes : Right(configs["queue_overflow"], quote)
  /\ \A quote \in droppedMessagesContent.quotes : Right(configs["dropped_messages"], quote)
  /\ \A quote \in slowTaskContent.quotes : Right(configs["slow_task"], quote)
  /\ \A quote \in cpuSpikeContent.quotes : Right(configs["cpu_spike"], quote)
  /\ \A quote \in taskCrashContent.quotes : Right(configs["task_crash"], quote)
  /\ \A quote \in watchdogSlowTaskContent.quotes : Right(configs["watchdog_slow_task"], quote)
<1>0. \A t \in {"ControlTask", "NetworkTask", "LoggerTask"} : t \in Tasks
  BY DEF Tasks
<1>1. \A quote \in normalContent.quotes : Right(configs["normal"], quote)
  <2> DEFINE c == configs["normal"]
  <2>1. c.tasks = normalTasks
    BY ConfigurationsHave DEF Has
  <2> HIDE DEF c
  <2>2. \A quote \in Timing("ControlTask", 100, 80, 10) : Right(c, quote)
    <3>1. /\ c.tasks["ControlTask"].period_ms = 100 /\ c.tasks["ControlTask"].deadline_ms = 80
          /\ c.tasks["ControlTask"].execution_time_ms = 10
      BY <2>1, TasksHave DEF TaskConfig
    <3>2. QED
      BY <1>0, <3>1, TimingsAre
  <2>3. \A quote \in Timing("NetworkTask", 250, 200, 20) : Right(c, quote)
    <3>1. /\ c.tasks["NetworkTask"].period_ms = 250 /\ c.tasks["NetworkTask"].deadline_ms = 200
          /\ c.tasks["NetworkTask"].execution_time_ms = 20
      BY <2>1, TasksHave DEF TaskConfig
    <3>2. QED
      BY <1>0, <3>1, TimingsAre
  <2>4. \A quote \in Timing("LoggerTask", 500, 400, 15) : Right(c, quote)
    <3>1. /\ c.tasks["LoggerTask"].period_ms = 500 /\ c.tasks["LoggerTask"].deadline_ms = 400
          /\ c.tasks["LoggerTask"].execution_time_ms = 15
      BY <2>1, TasksHave DEF TaskConfig
    <3>2. QED
      BY <1>0, <3>1, TimingsAre
  <2>5. QED
    BY <2>2, <2>3, <2>4 DEF normalContent, Chapter, c
<1>2. \A quote \in prioritySchedulerContent.quotes : Right(configs["priority_scheduler"], quote)
  <2> DEFINE c == configs["priority_scheduler"]
  <2>1. c.tasks = normalTasks
    BY ConfigurationsHave DEF Has
  <2> HIDE DEF c
  <2>2. Right(c, Quote("ControlTask", "priority", 1))
    <3>1. c.tasks["ControlTask"].priority = 1
      BY <2>1, TasksHave DEF TaskConfig
    <3>2. QED
      BY <1>0, <3>1, QuotesAre
  <2>3. Right(c, Quote("NetworkTask", "priority", 2))
    <3>1. c.tasks["NetworkTask"].priority = 2
      BY <2>1, TasksHave DEF TaskConfig
    <3>2. QED
      BY <1>0, <3>1, QuotesAre
  <2>4. Right(c, Quote("LoggerTask", "priority", 3))
    <3>1. c.tasks["LoggerTask"].priority = 3
      BY <2>1, TasksHave DEF TaskConfig
    <3>2. QED
      BY <1>0, <3>1, QuotesAre
  <2>5. Right(c, Quote("ControlTask", "period_ms", 100))
    <3>1. c.tasks["ControlTask"].period_ms = 100
      BY <2>1, TasksHave DEF TaskConfig
    <3>2. QED
      BY <1>0, <3>1, QuotesAre
  <2>6. Right(c, Quote("NetworkTask", "period_ms", 250))
    <3>1. c.tasks["NetworkTask"].period_ms = 250
      BY <2>1, TasksHave DEF TaskConfig
    <3>2. QED
      BY <1>0, <3>1, QuotesAre
  <2>7. Right(c, Quote("LoggerTask", "period_ms", 500))
    <3>1. c.tasks["LoggerTask"].period_ms = 500
      BY <2>1, TasksHave DEF TaskConfig
    <3>2. QED
      BY <1>0, <3>1, QuotesAre
  <2>8. QED
    BY <2>2, <2>3, <2>4, <2>5, <2>6, <2>7 DEF prioritySchedulerContent, Chapter, c
<1>3. \A quote \in deadlineSchedulerContent.quotes : Right(configs["deadline_scheduler"], quote)
  <2> DEFINE c == configs["deadline_scheduler"]
  <2>1. c.tasks = deadlineTasks
    BY ConfigurationsHave DEF Has
  <2> HIDE DEF c
  <2>2. Right(c, Quote("ControlTask", "deadline_ms", 80))
    <3>1. c.tasks["ControlTask"].deadline_ms = 80
      BY <2>1, TasksHave DEF TaskConfig
    <3>2. QED
      BY <1>0, <3>1, QuotesAre
  <2>3. Right(c, Quote("NetworkTask", "deadline_ms", 150))
    <3>1. c.tasks["NetworkTask"].deadline_ms = 150
      BY <2>1, TasksHave DEF TaskConfig
    <3>2. QED
      BY <1>0, <3>1, QuotesAre
  <2>4. Right(c, Quote("LoggerTask", "deadline_ms", 400))
    <3>1. c.tasks["LoggerTask"].deadline_ms = 400
      BY <2>1, TasksHave DEF TaskConfig
    <3>2. QED
      BY <1>0, <3>1, QuotesAre
  <2>5. QED
    BY <2>2, <2>3, <2>4 DEF deadlineSchedulerContent, Chapter, c
<1>4. \A quote \in queueOverflowContent.quotes : Right(configs["queue_overflow"], quote)
  <2> DEFINE c == configs["queue_overflow"]
  <2>1. c.tasks = overflowTasks
    BY ConfigurationsHave DEF Has
  <2> HIDE DEF c
  <2>2. Right(c, Quote("ControlTask", "period_ms", 50))
    <3>1. c.tasks["ControlTask"].period_ms = 50
      BY <2>1, TasksHave DEF TaskConfig
    <3>2. QED
      BY <1>0, <3>1, QuotesAre
  <2>3. Right(c, Quote("NetworkTask", "period_ms", 75))
    <3>1. c.tasks["NetworkTask"].period_ms = 75
      BY <2>1, TasksHave DEF TaskConfig
    <3>2. QED
      BY <1>0, <3>1, QuotesAre
  <2>4. Right(c, Quote("LoggerTask", "period_ms", 1000))
    <3>1. c.tasks["LoggerTask"].period_ms = 1000
      BY <2>1, TasksHave DEF TaskConfig
    <3>2. QED
      BY <1>0, <3>1, QuotesAre
  <2>5. Right(c, Quote("LoggerTask", "queue_limit", 3))
    <3>1. c.tasks["LoggerTask"].queue_limit = 3
      BY <2>1, TasksHave DEF TaskConfig
    <3>2. QED
      BY <1>0, <3>1, QuotesAre
  <2>6. QED
    BY <2>2, <2>3, <2>4, <2>5 DEF queueOverflowContent, Chapter, c
<1>5. \A quote \in droppedMessagesContent.quotes : Right(configs["dropped_messages"], quote)
  <2> DEFINE c == configs["dropped_messages"]
  <2>1. c.tasks = normalTasks
    BY ConfigurationsHave DEF Has
  <2>2. c.faults.target_task = "LoggerTask" /\ c.faults.start_after_ms = 5000
    BY ConfigurationsHave DEF Has, Fault
  <2> HIDE DEF c
  <2>3. Right(c, Target("LoggerTask"))
    BY <2>2, QuotesAre
  <2>4. Right(c, Quote("fault", "start_after_ms", 5000))
    BY <2>2, QuotesAre
  <2>5. QED
    BY <2>3, <2>4 DEF droppedMessagesContent, Chapter, FaultStart, c
<1>6. \A quote \in slowTaskContent.quotes : Right(configs["slow_task"], quote)
  <2> DEFINE c == configs["slow_task"]
  <2>1. c.tasks = normalTasks
    BY ConfigurationsHave DEF Has
  <2>2. /\ c.faults.target_task = "ControlTask"
        /\ c.faults.start_after_ms = 5000
        /\ c.faults.extra_execution_time_ms = 120
    BY ConfigurationsHave DEF Has, SlowControlTask, Fault
  <2> HIDE DEF c
  <2>3. \A quote \in Timing("ControlTask", 100, 80, 10) : Right(c, quote)
    <3>1. /\ c.tasks["ControlTask"].period_ms = 100 /\ c.tasks["ControlTask"].deadline_ms = 80
          /\ c.tasks["ControlTask"].execution_time_ms = 10
      BY <2>1, TasksHave DEF TaskConfig
    <3>2. QED
      BY <1>0, <3>1, TimingsAre
  <2>4. Right(c, Target("ControlTask"))
    BY <2>2, QuotesAre
  <2>5. Right(c, Quote("fault", "start_after_ms", 5000))
    BY <2>2, QuotesAre
  <2>6. Right(c, Quote("fault", "extra_execution_time_ms", 120))
    BY <2>2, QuotesAre
  <2>7. QED
    BY <2>3, <2>4, <2>5, <2>6 DEF slowTaskContent, Chapter, FaultStart, c
<1>7. \A quote \in cpuSpikeContent.quotes : Right(configs["cpu_spike"], quote)
  <2> DEFINE c == configs["cpu_spike"]
  <2>1. c.tasks = normalTasks
    BY ConfigurationsHave DEF Has
  <2>2. /\ c.faults.target_task = "NetworkTask"
        /\ c.faults.start_after_ms = 5000
        /\ c.faults.extra_execution_time_ms = 220
    BY ConfigurationsHave DEF Has, Fault
  <2> HIDE DEF c
  <2>3. \A quote \in Timing("NetworkTask", 250, 200, 20) : Right(c, quote)
    <3>1. /\ c.tasks["NetworkTask"].period_ms = 250 /\ c.tasks["NetworkTask"].deadline_ms = 200
          /\ c.tasks["NetworkTask"].execution_time_ms = 20
      BY <2>1, TasksHave DEF TaskConfig
    <3>2. QED
      BY <1>0, <3>1, TimingsAre
  <2>4. Right(c, Target("NetworkTask"))
    BY <2>2, QuotesAre
  <2>5. Right(c, Quote("fault", "start_after_ms", 5000))
    BY <2>2, QuotesAre
  <2>6. Right(c, Quote("fault", "extra_execution_time_ms", 220))
    BY <2>2, QuotesAre
  <2>7. QED
    BY <2>3, <2>4, <2>5, <2>6 DEF cpuSpikeContent, Chapter, FaultStart, c
<1>8. \A quote \in taskCrashContent.quotes : Right(configs["task_crash"], quote)
  <2> DEFINE c == configs["task_crash"]
  <2>1. c.tasks = normalTasks
    BY ConfigurationsHave DEF Has
  <2>2. c.faults.target_task = "NetworkTask" /\ c.faults.start_after_ms = 5000
    BY ConfigurationsHave DEF Has, Fault
  <2> HIDE DEF c
  <2>3. Right(c, Quote("NetworkTask", "period_ms", 250))
    <3>1. c.tasks["NetworkTask"].period_ms = 250
      BY <2>1, TasksHave DEF TaskConfig
    <3>2. QED
      BY <1>0, <3>1, QuotesAre
  <2>4. Right(c, Target("NetworkTask"))
    BY <2>2, QuotesAre
  <2>5. Right(c, Quote("fault", "start_after_ms", 5000))
    BY <2>2, QuotesAre
  <2>6. QED
    BY <2>3, <2>4, <2>5 DEF taskCrashContent, Chapter, FaultStart, c
<1>9. \A quote \in watchdogSlowTaskContent.quotes : Right(configs["watchdog_slow_task"], quote)
  <2> DEFINE c == configs["watchdog_slow_task"]
  <2>1. c.tasks = normalTasks
    BY ConfigurationsHave DEF Has
  <2>2. /\ c.faults.target_task = "ControlTask"
        /\ c.faults.start_after_ms = 5000
        /\ c.faults.extra_execution_time_ms = 120
    BY ConfigurationsHave DEF Has, SlowControlTask, Fault
  <2> HIDE DEF c
  <2>3. Right(c, Quote("ControlTask", "deadline_ms", 80))
    <3>1. c.tasks["ControlTask"].deadline_ms = 80
      BY <2>1, TasksHave DEF TaskConfig
    <3>2. QED
      BY <1>0, <3>1, QuotesAre
  <2>4. Right(c, Target("ControlTask"))
    BY <2>2, QuotesAre
  <2>5. Right(c, Quote("fault", "start_after_ms", 5000))
    BY <2>2, QuotesAre
  <2>6. Right(c, Quote("fault", "extra_execution_time_ms", 120))
    BY <2>2, QuotesAre
  <2>7. QED
    BY <2>3, <2>4, <2>5, <2>6 DEF watchdogSlowTaskContent, Chapter, FaultStart, c
<1>10. QED
  BY <1>1, <1>2, <1>3, <1>4, <1>5, <1>6, <1>7, <1>8, <1>9
\* What a scenario's texts tell a student to look for is there.
FaultEvents(s) ==
  CASE FaultKind(s) = "none" -> {}
    [] s = "task_crash" -> {"fault_injected", "task_failed", "task_skipped"}
    [] s = "watchdog_slow_task" -> {"fault_injected", "watchdog_timeout", "task_recovered"}
    [] OTHER -> {"fault_injected"}

PointsAt(s, content) ==
  /\ content.events \subseteq EveryRun \cup FaultEvents(s)
  /\ content.fields \subseteq AnalysisFields
  /\ expectedSignals[s] \subseteq EveryRun \cup FaultEvents(s) \cup AnalysisFields

LEMMA TextsPointAt ==
  /\ PointsAt("normal", normalContent)
  /\ PointsAt("priority_scheduler", prioritySchedulerContent)
  /\ PointsAt("deadline_scheduler", deadlineSchedulerContent)
  /\ PointsAt("queue_overflow", queueOverflowContent)
  /\ PointsAt("dropped_messages", droppedMessagesContent)
  /\ PointsAt("slow_task", slowTaskContent)
  /\ PointsAt("cpu_spike", cpuSpikeContent)
  /\ PointsAt("task_crash", taskCrashContent)
  /\ PointsAt("watchdog_slow_task", watchdogSlowTaskContent)
<1>1. PointsAt("normal", normalContent)
  <2>1. FaultEvents("normal") = {}
    BY DEF FaultEvents, FaultKind
  <2>2. /\ normalContent.events \subseteq EveryRun \cup FaultEvents("normal")
        /\ normalContent.fields \subseteq AnalysisFields
    BY <2>1 DEF normalContent, Chapter, EveryRun, AnalysisFields
  <2>3. expectedSignals["normal"] \subseteq EveryRun \cup FaultEvents("normal") \cup AnalysisFields
    BY <2>1 DEF expectedSignals, EveryRun, AnalysisFields
  <2>4. QED
    BY <2>2, <2>3 DEF PointsAt
<1>2. PointsAt("priority_scheduler", prioritySchedulerContent)
  <2>1. FaultEvents("priority_scheduler") = {}
    BY DEF FaultEvents, FaultKind
  <2>2. /\ prioritySchedulerContent.events \subseteq EveryRun \cup FaultEvents("priority_scheduler")
        /\ prioritySchedulerContent.fields \subseteq AnalysisFields
    BY <2>1 DEF prioritySchedulerContent, Chapter, EveryRun, AnalysisFields
  <2>3. expectedSignals["priority_scheduler"]
          \subseteq EveryRun \cup FaultEvents("priority_scheduler") \cup AnalysisFields
    BY <2>1 DEF expectedSignals, EveryRun, AnalysisFields
  <2>4. QED
    BY <2>2, <2>3 DEF PointsAt
<1>3. PointsAt("deadline_scheduler", deadlineSchedulerContent)
  <2>1. FaultEvents("deadline_scheduler") = {}
    BY DEF FaultEvents, FaultKind
  <2>2. /\ deadlineSchedulerContent.events \subseteq EveryRun \cup FaultEvents("deadline_scheduler")
        /\ deadlineSchedulerContent.fields \subseteq AnalysisFields
    BY <2>1 DEF deadlineSchedulerContent, Chapter, EveryRun, AnalysisFields
  <2>3. expectedSignals["deadline_scheduler"]
          \subseteq EveryRun \cup FaultEvents("deadline_scheduler") \cup AnalysisFields
    BY <2>1 DEF expectedSignals, EveryRun, AnalysisFields
  <2>4. QED
    BY <2>2, <2>3 DEF PointsAt
<1>4. PointsAt("queue_overflow", queueOverflowContent)
  <2>1. FaultEvents("queue_overflow") = {}
    BY DEF FaultEvents, FaultKind
  <2>2. /\ queueOverflowContent.events \subseteq EveryRun \cup FaultEvents("queue_overflow")
        /\ queueOverflowContent.fields \subseteq AnalysisFields
    BY <2>1 DEF queueOverflowContent, Chapter, EveryRun, AnalysisFields
  <2>3. expectedSignals["queue_overflow"]
          \subseteq EveryRun \cup FaultEvents("queue_overflow") \cup AnalysisFields
    BY <2>1 DEF expectedSignals, EveryRun, AnalysisFields
  <2>4. QED
    BY <2>2, <2>3 DEF PointsAt
<1>5. PointsAt("dropped_messages", droppedMessagesContent)
  <2>1. FaultEvents("dropped_messages") = {"fault_injected"}
    BY DEF FaultEvents, FaultKind
  <2>2. /\ droppedMessagesContent.events \subseteq EveryRun \cup FaultEvents("dropped_messages")
        /\ droppedMessagesContent.fields \subseteq AnalysisFields
    BY <2>1 DEF droppedMessagesContent, Chapter, EveryRun, AnalysisFields
  <2>3. expectedSignals["dropped_messages"]
          \subseteq EveryRun \cup FaultEvents("dropped_messages") \cup AnalysisFields
    BY <2>1 DEF expectedSignals, EveryRun, AnalysisFields
  <2>4. QED
    BY <2>2, <2>3 DEF PointsAt
<1>6. PointsAt("slow_task", slowTaskContent)
  <2>1. FaultEvents("slow_task") = {"fault_injected"}
    BY DEF FaultEvents, FaultKind
  <2>2. /\ slowTaskContent.events \subseteq EveryRun \cup FaultEvents("slow_task")
        /\ slowTaskContent.fields \subseteq AnalysisFields
    BY <2>1 DEF slowTaskContent, Chapter, EveryRun, AnalysisFields
  <2>3. expectedSignals["slow_task"]
          \subseteq EveryRun \cup FaultEvents("slow_task") \cup AnalysisFields
    BY <2>1 DEF expectedSignals, EveryRun, AnalysisFields
  <2>4. QED
    BY <2>2, <2>3 DEF PointsAt
<1>7. PointsAt("cpu_spike", cpuSpikeContent)
  <2>1. FaultEvents("cpu_spike") = {"fault_injected"}
    BY DEF FaultEvents, FaultKind
  <2>2. /\ cpuSpikeContent.events \subseteq EveryRun \cup FaultEvents("cpu_spike")
        /\ cpuSpikeContent.fields \subseteq AnalysisFields
    BY <2>1 DEF cpuSpikeContent, Chapter, EveryRun, AnalysisFields
  <2>3. expectedSignals["cpu_spike"]
          \subseteq EveryRun \cup FaultEvents("cpu_spike") \cup AnalysisFields
    BY <2>1 DEF expectedSignals, EveryRun, AnalysisFields
  <2>4. QED
    BY <2>2, <2>3 DEF PointsAt
<1>8. PointsAt("task_crash", taskCrashContent)
  <2>1. FaultEvents("task_crash") = {"fault_injected", "task_failed", "task_skipped"}
    BY DEF FaultEvents, FaultKind
  <2>2. /\ taskCrashContent.events \subseteq EveryRun \cup FaultEvents("task_crash")
        /\ taskCrashContent.fields \subseteq AnalysisFields
    BY <2>1 DEF taskCrashContent, Chapter, EveryRun, AnalysisFields
  <2>3. expectedSignals["task_crash"]
          \subseteq EveryRun \cup FaultEvents("task_crash") \cup AnalysisFields
    BY <2>1 DEF expectedSignals, EveryRun, AnalysisFields
  <2>4. QED
    BY <2>2, <2>3 DEF PointsAt
<1>9. PointsAt("watchdog_slow_task", watchdogSlowTaskContent)
  <2>1. FaultEvents("watchdog_slow_task") = {"fault_injected", "watchdog_timeout", "task_recovered"}
    BY DEF FaultEvents, FaultKind
  <2>2. /\ watchdogSlowTaskContent.events \subseteq EveryRun \cup FaultEvents("watchdog_slow_task")
        /\ watchdogSlowTaskContent.fields \subseteq AnalysisFields
    BY <2>1 DEF watchdogSlowTaskContent, Chapter, EveryRun, AnalysisFields
  <2>3. expectedSignals["watchdog_slow_task"]
          \subseteq EveryRun \cup FaultEvents("watchdog_slow_task") \cup AnalysisFields
    BY <2>1 DEF expectedSignals, EveryRun, AnalysisFields
  <2>4. QED
    BY <2>2, <2>3 DEF PointsAt
<1>10. QED
  BY <1>1, <1>2, <1>3, <1>4, <1>5, <1>6, <1>7, <1>8, <1>9

\* What to study before a scenario comes earlier.
LEMMA StudiedInOrder ==
  ASSUME NEW s \in ScenarioIds, NEW q \in getScenarioLearningContent(s).prerequisites
  PROVE  getScenarioLearningContent(q).step < getScenarioLearningContent(s).step
<1>1. CASE s \in {"normal", "priority_scheduler", "deadline_scheduler"}
  BY <1>1, ContentIs DEF Says
<1>2. CASE s \in {"queue_overflow", "dropped_messages", "slow_task"}
  BY <1>2, ContentIs DEF Says
<1>3. CASE s \in {"cpu_spike", "task_crash", "watchdog_slow_task"}
  BY <1>3, ContentIs DEF Says
<1>4. QED
  BY <1>1, <1>2, <1>3 DEF ScenarioIds

LEMMA TextsMatch ==
  ASSUME NEW s \in ScenarioIds
  PROVE  /\ PointsAt(s, getScenarioLearningContent(s))
         /\ \A quote \in getScenarioLearningContent(s).quotes : Right(configs[s], quote)
<1>1. CASE s \in {"normal", "priority_scheduler", "deadline_scheduler"}
  BY <1>1, ContentIs, TextsPointAt, QuotesRight DEF Says
<1>2. CASE s \in {"queue_overflow", "dropped_messages", "slow_task"}
  BY <1>2, ContentIs, TextsPointAt, QuotesRight DEF Says
<1>3. CASE s \in {"cpu_spike", "task_crash", "watchdog_slow_task"}
  BY <1>3, ContentIs, TextsPointAt, QuotesRight DEF Says
<1>4. QED
  BY <1>1, <1>2, <1>3 DEF ScenarioIds

LEMMA FaultEventsLogged ==
  ASSUME NEW s \in ScenarioIds, NEW l, Shape(l, s)
  PROVE  FaultEvents(s) \subseteq Logged(l)
<1>1. CASE FaultKind(s) = "none"
  BY <1>1 DEF FaultEvents, FaultKind
<1>2. CASE s = "task_crash"
  BY <1>2, LoggedAre DEF FaultEvents, FaultKind
<1>3. CASE s = "watchdog_slow_task"
  BY <1>3, LoggedAre DEF FaultEvents, FaultKind
<1>4. CASE s \in {"dropped_messages", "slow_task", "cpu_spike"}
  BY <1>4, LoggedAre DEF FaultEvents, FaultKind
<1>5. QED
  BY <1>1, <1>2, <1>3, <1>4 DEF ScenarioIds, FaultKind

LEMMA InvImpliesCurriculum == GuidedInv => CurriculumMatchesTheRun
<1> SUFFICES ASSUME GuidedInv, Shown PROVE CurriculumMatchesTheRun
  BY DEF CurriculumMatchesTheRun
<1>1. PICK s \in ScenarioIds : log \in LogsOf(s) /\ analysis = parse(Report(log), s)
  BY DEF GuidedInv, Answered, Shown
<1>2. Shape(log, s) /\ log.scenario = s
  BY <1>1, LogsHaveShape DEF Shape
<1>3. Studied = getScenarioLearningContent(s)
  BY <1>1 DEF parse, Parsed, Studied
<1>4. EveryRun \cup FaultEvents(s) \subseteq Logged(log)
  BY <1>2, LoggedAre, FaultEventsLogged
<1>5. /\ Studied.events \subseteq Logged(log)
      /\ expectedSignals[log.scenario] \subseteq Logged(log) \cup AnalysisFields
      /\ Studied.fields \subseteq AnalysisFields
  BY <1>2, <1>3, <1>4, TextsMatch DEF PointsAt
<1>6. \A q \in Studied.quotes : Configured(configs[log.scenario], q) = q.value
  BY <1>2, <1>3, TextsMatch DEF Right
<1>7. \A q \in Studied.prerequisites : getScenarioLearningContent(q).step < Studied.step
  BY <1>3, StudiedInOrder
<1>8. QED
  BY <1>5, <1>6, <1>7 DEF CurriculumMatchesTheRun, Logged

(* What the curriculum and the catalogue say of a scenario is true of any  *)
(* of its runs: the events are in the log, the fields in the analysis, the *)
(* quoted numbers in the configuration, and what to study first is earlier.*)
THEOREM CurriculumMatches == Spec => []CurriculumMatchesTheRun
  BY GuidedInvariant, InvImpliesCurriculum, PTL
-------------------------------------------------------------------------------
(* The panels: one topic, the sum of the misses, and the shares. *)

LEMMA TopicIs ==
  ASSUME NEW order, Len(order) = 8, NEW s, NEW k \in 1 .. 8, order[k] \in Includes[s],
         \A n \in 1 .. (k - 1) : order[n] \notin Includes[s]
  PROVE  FirstTopic(order, s) = order[k]
<1> DEFINE I == {n \in 1 .. Len(order) : order[n] \in Includes[s]}
           i == IF I # {} THEN Min(I) ELSE 0
<1>1. k \in I /\ \A n \in I : k <= n
  OBVIOUS
<1>2. FirstTopic(order, s) = IF i = 0 THEN "baseline" ELSE order[i]
  BY DEF FirstTopic, SelectInSeq
<1>3. \A n \in I : n \in 1 .. 8
  OBVIOUS
<1> HIDE DEF I
<1>4. Min(I) = k
  <2>1. Min(I) \in I /\ \A y \in I : Min(I) <= y
    BY <1>1 DEF Min
  <2>2. Min(I) <= k /\ k <= Min(I) /\ Min(I) \in 1 .. 8
    BY <1>1, <1>3, <2>1
  <2>3. QED
    BY <2>2
<1>5. i = k
  BY <1>1, <1>4
<1>6. QED
  BY <1>2, <1>5

LEMMA NoTopic ==
  ASSUME NEW order, Len(order) = 8, NEW s, Includes[s] = {}
  PROVE  FirstTopic(order, s) = "baseline"
  BY DEF FirstTopic, SelectInSeq

NarrativeOrder ==
  <<"queue_overflow", "dropped_messages", "slow_task", "cpu_spike", "task_crash",
    "watchdog", "priority", "deadline">>
SummaryOrder ==
  <<"queue_overflow", "cpu_spike", "task_crash", "slow_task", "dropped_messages",
    "watchdog", "priority", "deadline">>

LEMMA SameTopic ==
  ASSUME NEW s \in ScenarioIds
  PROVE  FirstTopic(NarrativeOrder, s) = FirstTopic(SummaryOrder, s)
<1>1. Len(NarrativeOrder) = 8 /\ Len(SummaryOrder) = 8
  BY DEF NarrativeOrder, SummaryOrder
<1>2. CASE s = "normal"
  <2>1. Includes[s] = {}
    BY <1>2 DEF Includes
  <2>2. QED
    BY <1>1, <2>1, NoTopic
<1>3. CASE s = "queue_overflow"
  <2>1. Includes[s] = {"queue_overflow"}
    BY <1>3 DEF Includes
  <2>2. /\ NarrativeOrder[1] = "queue_overflow"
        /\ \A m \in 1 .. (1 - 1) : NarrativeOrder[m] \notin Includes[s]
    BY <2>1 DEF NarrativeOrder
  <2>3. /\ SummaryOrder[1] = "queue_overflow"
        /\ \A m \in 1 .. (1 - 1) : SummaryOrder[m] \notin Includes[s]
    BY <2>1 DEF SummaryOrder
  <2>4. 1 \in 1 .. 8 /\ 1 \in 1 .. 8
    OBVIOUS
  <2>5. FirstTopic(NarrativeOrder, s) = NarrativeOrder[1]
    BY <1>1, <2>1, <2>2, <2>4, TopicIs
  <2>6. FirstTopic(SummaryOrder, s) = SummaryOrder[1]
    BY <1>1, <2>1, <2>3, <2>4, TopicIs
  <2>7. QED
    BY <2>2, <2>3, <2>5, <2>6
<1>4. CASE s = "dropped_messages"
  <2>1. Includes[s] = {"dropped_messages"}
    BY <1>4 DEF Includes
  <2>2. /\ NarrativeOrder[2] = "dropped_messages"
        /\ \A m \in 1 .. (2 - 1) : NarrativeOrder[m] \notin Includes[s]
    BY <2>1 DEF NarrativeOrder
  <2>3. /\ SummaryOrder[5] = "dropped_messages"
        /\ \A m \in 1 .. (5 - 1) : SummaryOrder[m] \notin Includes[s]
    BY <2>1 DEF SummaryOrder
  <2>4. 2 \in 1 .. 8 /\ 5 \in 1 .. 8
    OBVIOUS
  <2>5. FirstTopic(NarrativeOrder, s) = NarrativeOrder[2]
    BY <1>1, <2>1, <2>2, <2>4, TopicIs
  <2>6. FirstTopic(SummaryOrder, s) = SummaryOrder[5]
    BY <1>1, <2>1, <2>3, <2>4, TopicIs
  <2>7. QED
    BY <2>2, <2>3, <2>5, <2>6
<1>5. CASE s = "slow_task"
  <2>1. Includes[s] = {"slow_task"}
    BY <1>5 DEF Includes
  <2>2. /\ NarrativeOrder[3] = "slow_task"
        /\ \A m \in 1 .. (3 - 1) : NarrativeOrder[m] \notin Includes[s]
    BY <2>1 DEF NarrativeOrder
  <2>3. /\ SummaryOrder[4] = "slow_task"
        /\ \A m \in 1 .. (4 - 1) : SummaryOrder[m] \notin Includes[s]
    BY <2>1 DEF SummaryOrder
  <2>4. 3 \in 1 .. 8 /\ 4 \in 1 .. 8
    OBVIOUS
  <2>5. FirstTopic(NarrativeOrder, s) = NarrativeOrder[3]
    BY <1>1, <2>1, <2>2, <2>4, TopicIs
  <2>6. FirstTopic(SummaryOrder, s) = SummaryOrder[4]
    BY <1>1, <2>1, <2>3, <2>4, TopicIs
  <2>7. QED
    BY <2>2, <2>3, <2>5, <2>6
<1>6. CASE s = "cpu_spike"
  <2>1. Includes[s] = {"cpu_spike"}
    BY <1>6 DEF Includes
  <2>2. /\ NarrativeOrder[4] = "cpu_spike"
        /\ \A m \in 1 .. (4 - 1) : NarrativeOrder[m] \notin Includes[s]
    BY <2>1 DEF NarrativeOrder
  <2>3. /\ SummaryOrder[2] = "cpu_spike"
        /\ \A m \in 1 .. (2 - 1) : SummaryOrder[m] \notin Includes[s]
    BY <2>1 DEF SummaryOrder
  <2>4. 4 \in 1 .. 8 /\ 2 \in 1 .. 8
    OBVIOUS
  <2>5. FirstTopic(NarrativeOrder, s) = NarrativeOrder[4]
    BY <1>1, <2>1, <2>2, <2>4, TopicIs
  <2>6. FirstTopic(SummaryOrder, s) = SummaryOrder[2]
    BY <1>1, <2>1, <2>3, <2>4, TopicIs
  <2>7. QED
    BY <2>2, <2>3, <2>5, <2>6
<1>7. CASE s = "task_crash"
  <2>1. Includes[s] = {"task_crash"}
    BY <1>7 DEF Includes
  <2>2. /\ NarrativeOrder[5] = "task_crash"
        /\ \A m \in 1 .. (5 - 1) : NarrativeOrder[m] \notin Includes[s]
    BY <2>1 DEF NarrativeOrder
  <2>3. /\ SummaryOrder[3] = "task_crash"
        /\ \A m \in 1 .. (3 - 1) : SummaryOrder[m] \notin Includes[s]
    BY <2>1 DEF SummaryOrder
  <2>4. 5 \in 1 .. 8 /\ 3 \in 1 .. 8
    OBVIOUS
  <2>5. FirstTopic(NarrativeOrder, s) = NarrativeOrder[5]
    BY <1>1, <2>1, <2>2, <2>4, TopicIs
  <2>6. FirstTopic(SummaryOrder, s) = SummaryOrder[3]
    BY <1>1, <2>1, <2>3, <2>4, TopicIs
  <2>7. QED
    BY <2>2, <2>3, <2>5, <2>6
<1>8. CASE s = "watchdog_slow_task"
  <2>1. Includes[s] = {"slow_task", "watchdog"}
    BY <1>8 DEF Includes
  <2>2. /\ NarrativeOrder[3] = "slow_task"
        /\ \A m \in 1 .. (3 - 1) : NarrativeOrder[m] \notin Includes[s]
    BY <2>1 DEF NarrativeOrder
  <2>3. /\ SummaryOrder[4] = "slow_task"
        /\ \A m \in 1 .. (4 - 1) : SummaryOrder[m] \notin Includes[s]
    BY <2>1 DEF SummaryOrder
  <2>4. 3 \in 1 .. 8 /\ 4 \in 1 .. 8
    OBVIOUS
  <2>5. FirstTopic(NarrativeOrder, s) = NarrativeOrder[3]
    BY <1>1, <2>1, <2>2, <2>4, TopicIs
  <2>6. FirstTopic(SummaryOrder, s) = SummaryOrder[4]
    BY <1>1, <2>1, <2>3, <2>4, TopicIs
  <2>7. QED
    BY <2>2, <2>3, <2>5, <2>6
<1>9. CASE s = "priority_scheduler"
  <2>1. Includes[s] = {"priority"}
    BY <1>9 DEF Includes
  <2>2. /\ NarrativeOrder[7] = "priority"
        /\ \A m \in 1 .. (7 - 1) : NarrativeOrder[m] \notin Includes[s]
    BY <2>1 DEF NarrativeOrder
  <2>3. /\ SummaryOrder[7] = "priority"
        /\ \A m \in 1 .. (7 - 1) : SummaryOrder[m] \notin Includes[s]
    BY <2>1 DEF SummaryOrder
  <2>4. 7 \in 1 .. 8 /\ 7 \in 1 .. 8
    OBVIOUS
  <2>5. FirstTopic(NarrativeOrder, s) = NarrativeOrder[7]
    BY <1>1, <2>1, <2>2, <2>4, TopicIs
  <2>6. FirstTopic(SummaryOrder, s) = SummaryOrder[7]
    BY <1>1, <2>1, <2>3, <2>4, TopicIs
  <2>7. QED
    BY <2>2, <2>3, <2>5, <2>6
<1>10. CASE s = "deadline_scheduler"
  <2>1. Includes[s] = {"deadline"}
    BY <1>10 DEF Includes
  <2>2. /\ NarrativeOrder[8] = "deadline"
        /\ \A m \in 1 .. (8 - 1) : NarrativeOrder[m] \notin Includes[s]
    BY <2>1 DEF NarrativeOrder
  <2>3. /\ SummaryOrder[8] = "deadline"
        /\ \A m \in 1 .. (8 - 1) : SummaryOrder[m] \notin Includes[s]
    BY <2>1 DEF SummaryOrder
  <2>4. 8 \in 1 .. 8 /\ 8 \in 1 .. 8
    OBVIOUS
  <2>5. FirstTopic(NarrativeOrder, s) = NarrativeOrder[8]
    BY <1>1, <2>1, <2>2, <2>4, TopicIs
  <2>6. FirstTopic(SummaryOrder, s) = SummaryOrder[8]
    BY <1>1, <2>1, <2>3, <2>4, TopicIs
  <2>7. QED
    BY <2>2, <2>3, <2>5, <2>6
<1>11. QED
  BY <1>2, <1>3, <1>4, <1>5, <1>6, <1>7, <1>8, <1>9, <1>10 DEF ScenarioIds

\* The sum over the tasks.
LEMMA SumOfTasks ==
  ASSUME NEW f, DOMAIN f = Tasks, \A t \in Tasks : f[t] \in Nat
  PROVE  SumFunction(f) = f["ControlTask"] + f["NetworkTask"] + f["LoggerTask"]
<1>1. IsFiniteSet(Tasks)
  <2> DEFINE one == {} \cup {"ControlTask"}
             two == one \cup {"NetworkTask"}
             three == two \cup {"LoggerTask"}
  <2>1. IsFiniteSet(one)
    BY FS_EmptySet, FS_AddElement
  <2> HIDE DEF one
  <2>2. IsFiniteSet(two)
    BY <2>1, FS_AddElement
  <2> HIDE DEF two
  <2>3. IsFiniteSet(three)
    BY <2>2, FS_AddElement
  <2>4. three = Tasks
    BY DEF one, two, Tasks
  <2>5. QED
    BY <2>3, <2>4
<1>2. PICK sum : IsSum(f, Tasks, sum) /\ SumFunctionOnSet(f, Tasks) = sum[Tasks]
  BY <1>1, SumEquation
<1> DEFINE x == Chosen(Tasks)
           R == Tasks \ {x}
           y == Chosen(R)
           Q == R \ {y}
           z == Chosen(Q)
<1>3. \A r \in SUBSET Tasks : sum[r] = SumStep(f, sum, r)
  BY <1>2 DEF IsSum
<1>4. x \in Tasks
  BY DEF Chosen, Tasks
<1> HIDE DEF x
<1>5. R # {} /\ R \in SUBSET Tasks
  BY <1>4 DEF Tasks
<1>6. y \in R
  BY <1>5 DEF Chosen
<1> HIDE DEF y
<1>7. Q # {} /\ Q \in SUBSET Tasks
  BY <1>4, <1>6 DEF Tasks
<1>8. z \in Q
  BY <1>7 DEF Chosen
<1> HIDE DEF z
<1>9. Q \ {z} = {}
  BY <1>4, <1>6, <1>8 DEF Tasks
<1>10. sum[{}] = 0
  BY <1>3 DEF SumStep
<1>11. sum[Q] = f[z] + sum[Q \ {z}]
  BY <1>3, <1>7 DEF SumStep, z
<1>12. sum[R] = f[y] + sum[Q]
  BY <1>3, <1>5 DEF SumStep, y
<1>13. sum[Tasks] = f[x] + sum[R]
  <2>1. Tasks # {}
    BY DEF Tasks
  <2>2. QED
    BY <1>3, <2>1 DEF SumStep, x
<1>14. sum[Tasks] = f[x] + (f[y] + (f[z] + 0))
  BY <1>9, <1>10, <1>11, <1>12, <1>13
<1>15. x \in Tasks /\ y \in Tasks /\ z \in Tasks /\ x # y /\ x # z /\ y # z
  BY <1>4, <1>6, <1>8
<1>16. f[x] + (f[y] + (f[z] + 0)) = f["ControlTask"] + f["NetworkTask"] + f["LoggerTask"]
  BY <1>15 DEF Tasks
<1>17. QED
  BY <1>2, <1>14, <1>16 DEF SumFunction

LEMMA DivisionBounds ==
  ASSUME NEW a \in Nat, NEW d \in Nat, d > 0
  PROVE  /\ a \div d \in Nat /\ d * (a \div d) <= a /\ a < d * (a \div d) + d
  OBVIOUS

\* Two shares of one total, each rounded to the nearest.
LEMMA SharesAddUp ==
  ASSUME NEW x \in Nat, NEW y \in Nat, x + y > 0
  PROVE  percent(x, x + y) + percent(y, x + y) \in {100, 101}
<1> DEFINE D == x + y
           d == 2 * D
           a == (200 * x + D) \div d
           b == (200 * y + D) \div d
<1>1. percent(x, D) = a /\ percent(y, D) = b
  BY DEF percent
<1>2. d \in Nat /\ d > 0 /\ 200 * x + D \in Nat /\ 200 * y + D \in Nat
  OBVIOUS
<1>3. d * 101 = (200 * x + D) + (200 * y + D)
  OBVIOUS
<1> HIDE DEF d
<1>4. /\ a \in Nat /\ d * a <= 200 * x + D /\ 200 * x + D < d * a + d
      /\ b \in Nat /\ d * b <= 200 * y + D /\ 200 * y + D < d * b + d
  <2> DEFINE m == 200 * x + D
             n == 200 * y + D
  <2>1. m \in Nat /\ n \in Nat
    BY <1>2
  <2> HIDE DEF m, n
  <2>2. /\ m \div d \in Nat /\ d * (m \div d) <= m /\ m < d * (m \div d) + d
        /\ n \div d \in Nat /\ d * (n \div d) <= n /\ n < d * (n \div d) + d
    BY <1>2, <2>1, DivisionBounds
  <2>3. QED
    BY <2>2 DEF m, n
<1> HIDE DEF a, b
<1>5. d * (a + b) = d * a + d * b /\ d * (a + b + 2) = d * a + d * b + d + d
  BY <1>2, <1>4
<1> DEFINE m == d * a
           n == d * b
           k == d * 101
<1>6. m \in Nat /\ n \in Nat
  BY <1>2, <1>4
<1>7. m + n <= k /\ k < m + n + d + d
  <2> HIDE DEF m, n, k
  <2>1. m <= 200 * x + D /\ n <= 200 * y + D /\ 200 * x + D < m + d /\ 200 * y + D < n + d
    BY <1>4 DEF m, n
  <2>2. k = (200 * x + D) + (200 * y + D)
    BY <1>3 DEF k
  <2>3. QED
    BY <1>2, <1>6, <2>1, <2>2
<1>8. d * (a + b) <= d * 101 /\ d * 101 < d * (a + b + 2)
  BY <1>5, <1>7
<1>9. a + b <= 101
  <2>1. \A u, v \in Int : d * u <= d * v => u <= v
    BY <1>2
  <2>2. QED
    BY <1>4, <1>8, <2>1
<1>10. 101 < a + b + 2
  <2>1. \A u, v \in Int : d * u < d * v => u < v
    BY <1>2
  <2>2. QED
    BY <1>4, <1>8, <2>1
<1>11. QED
  BY <1>1, <1>4, <1>9, <1>10

LEMMA InvImpliesOneStory == GuidedInv => PanelsTellOneStory
<1> SUFFICES ASSUME GuidedInv, Shown PROVE PanelsTellOneStory
  BY DEF PanelsTellOneStory
<1> DEFINE m == analysis.messageSummary
           summary == BeginnerSummary(analysis)
           pressure == QueuePressure(m)
           changes ==
             {topic \in {"queue_overflow", "dropped_messages"} :
                m.dropped > 0 /\ IF topic = "queue_overflow" THEN m.queue_full_drops > 0
                                 ELSE m.fault_injected_drops > 0}
             \cup {topic \in {"deadline"} : missedDeadlines(analysis) > 0}
             \cup {topic \in {"task_failed", "watchdog_timeout"} : Listed(analysis, topic) > 0}
<1>1. PICK s \in ScenarioIds : log \in LogsOf(s) /\ analysis = parse(Report(log), s)
  BY DEF GuidedInv, Answered, Shown
<1>2. Shape(log, s) /\ log.scenario = s
  BY <1>1, LogsHaveShape DEF Shape
<1>3. /\ log.queue_full \in Nat /\ log.queue_full >= 3 /\ log.injected \in Nat
      /\ \A t \in Tasks : log.misses[t] \in Nat
  BY <1>2 DEF Shape, Many
<1>4. /\ analysis.taskMetrics = [t \in Tasks |-> Metric(log, t)]
      /\ m = DropsOf(log)
      /\ \A event \in ToSet(EventTypes) : EventCount(log, event) = Listed(analysis, event)
  BY InvImpliesParsed DEF ParsedAsReported, Metric, DropsOf
<1>5. /\ m.sent = 3 /\ m.received = 3 /\ m.dropped = log.queue_full + log.injected
      /\ m.queue_full_drops = log.queue_full /\ m.fault_injected_drops = log.injected
  BY <1>4 DEF DropsOf, Many
<1>6. missedDeadlines(analysis) = TotalMisses(log)
  <2> DEFINE f == [t \in DOMAIN analysis.taskMetrics |-> analysis.taskMetrics[t].deadline_misses]
  <2>1. DOMAIN f = Tasks /\ \A t \in Tasks : f[t] = log.misses[t]
    BY <1>4 DEF Metric
  <2>2. missedDeadlines(analysis) = SumFunction(f)
    BY DEF missedDeadlines
  <2> HIDE DEF f
  <2>3. SumFunction(f) = f["ControlTask"] + f["NetworkTask"] + f["LoggerTask"]
    BY <1>3, <2>1, SumOfTasks
  <2>4. QED
    BY <2>1, <2>2, <2>3 DEF TotalMisses, Tasks
<1>7. TotalMisses(log) > 0 <=> \E t \in Tasks : log.misses[t] > 0
  BY <1>3 DEF TotalMisses, Tasks
<1>8. getNarrative(analysis) = getScenarioFaultSummary(analysis)
  <2>1. analysis.scenarioId = s
    BY <1>1 DEF parse, Parsed
  <2>2. /\ getNarrative(analysis) = FirstTopic(NarrativeOrder, s)
        /\ getScenarioFaultSummary(analysis) = FirstTopic(SummaryOrder, s)
    BY <2>1 DEF getNarrative, getScenarioFaultSummary, NarrativeOrder, SummaryOrder
  <2>3. QED
    BY <2>2, SameTopic
<1>9. describeWhatChanged(analysis) = changes
  <2>1. describeWhatChanged(analysis) = IF changes = {} THEN {"nothing_degraded"} ELSE changes
    BY DEF describeWhatChanged
  <2>2. "queue_overflow" \in changes
    BY <1>3, <1>5
  <2> HIDE DEF changes
  <2>3. QED
    BY <2>1, <2>2
<1>10. "nothing_degraded" \notin describeWhatChanged(analysis)
  BY <1>9
<1>11. "deadline" \in describeWhatChanged(analysis) <=> DeadlineRisk(analysis) # {}
  <2>1. DeadlineRisk(analysis) = {t \in Tasks : log.misses[t] > 0}
    BY <1>4 DEF DeadlineRisk, Metric
  <2>2. "deadline" \in changes <=> TotalMisses(log) > 0
    BY <1>6
  <2> HIDE DEF changes
  <2>3. QED
    BY <1>7, <1>9, <2>1, <2>2
<1>12. /\ summary.missedDeadlines = TotalMisses(log)
       /\ summary.droppedMessages = log.queue_full + log.injected
       /\ summary.crashedTasks = Listed(analysis, "task_failed")
  BY <1>5, <1>6 DEF BeginnerSummary
<1>13. summary.crashedTasks > 0 <=> Crashes(configs[log.scenario])
  <2>1. "task_failed" \in ToSet(EventTypes)
    BY EventTypesAre DEF EventNames
  <2>2. summary.crashedTasks = IF FaultKind(s) = "crash" THEN 1 ELSE 0
    BY <1>2, <1>4, <1>12, <2>1, EventCountsAre
  <2>3. QED
    BY <1>2, <2>2, FaultsAre
<1>14. ASSUME NEW i \in DOMAIN analysis.rootCauses, analysis.rootCauses[i].task \in Tasks
       PROVE  getRootCauseExplanation(analysis.rootCauses[i]) \in
                {"deadline", "watchdog", "failure", "signal"}
  <2>1. analysis.rootCauses \in Seq(Causes)
    <3>1. analysis.rootCauses = CausesFound(log)
      <4>1. analysis = Parsed(Parsing(Parser, Report(log)), s)
        BY <1>1 DEF parse, Parsing
      <4>2. Parsing(Parser, Report(log)).rootCauses = CausesFound(log)
        BY <1>2, ReportRead
      <4>3. QED
        BY <4>1, <4>2 DEF Parsed
    <3>2. collect_root_causes(log) \in Seq(Causes) /\ Driver \in Causes
      BY <1>2, CausesAreKnown DEF Causes, Driver, RunSays
    <3>3. QED
      BY <3>1, <3>2 DEF CausesFound
  <2> DEFINE cause == analysis.rootCauses[i]
  <2>2. cause \in Causes
    BY <2>1
  <2> HIDE DEF cause
  <2>3. cause.task \in Tasks
    BY <1>14 DEF cause
  <2>4. PICK says \in TaskSays : cause = Cause(says, cause.task)
    BY <2>2, <2>3 DEF Causes, Cause, Tasks, FaultTypes
  <2>5. cause.says \in TaskSays /\ cause.says # "fault_injection_was_active"
    BY <2>4 DEF Cause, TaskSays
  <2>6. CauseWords(cause) =
          CASE cause.says = "missed_its_deadline" -> {"deadline"}
            [] cause.says = "watchdog_timeout" -> {"watchdog"}
            [] cause.says = "failed_due_to_task_crash" -> {"crash", "failed"}
            [] cause.says = "skipped_in_failed_state" -> {"failed"}
            [] OTHER -> {}
    BY <2>5 DEF CauseWords, Cause, TaskSays
  <2>7. QED
    BY <2>5, <2>6 DEF getRootCauseExplanation, cause, TaskSays
<1>15. pressure.queueFull + pressure.faultInjected \in {100, 101}
  <2> DEFINE x == log.queue_full
             y == log.injected
  <2>1. x \in Nat /\ y \in Nat /\ x + y > 0 /\ AtLeastOne(x + y) = x + y
    BY <1>3 DEF AtLeastOne
  <2>2. /\ pressure.queueFull = percent(x, AtLeastOne(x + y))
        /\ pressure.faultInjected = percent(y, AtLeastOne(x + y))
    BY <1>5 DEF QueuePressure
  <2> HIDE DEF x, y
  <2>3. QED
    BY <2>1, <2>2, SharesAddUp
<1>16. QED
  BY <1>8, <1>10, <1>11, <1>12, <1>13, <1>14, <1>15 DEF PanelsTellOneStory

(* The panels tell one story of any run, whatever was counted: the topics, *)
(* the sums, the shares and the explanations all agree with the log.       *)
THEOREM OneStory == Spec => []PanelsTellOneStory
  BY GuidedInvariant, InvImpliesOneStory, PTL
===============================================================================
