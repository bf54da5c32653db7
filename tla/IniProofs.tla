------------------------------- MODULE IniProofs -------------------------------
(***************************************************************************)
(* What the INI engine promises of every file and every write: what is     *)
(* written reads back, the rest of the file stays, and writing it again    *)
(* changes nothing (MergedAsAsked).                                        *)
(*                                                                         *)
(* The argument is an induction over the lines of the file, for each kind  *)
(* of write: after any part of the file (SoFar), a second pass over what   *)
(* is out would come to the same, the entries that the write is about      *)
(* read back as they should so far (FitsWrite), and the lines it spares are the *)
(* same in what went in and in what is out.  What is put in all at once -  *)
(* at an entry, before a header, at the end - is an induction of its own   *)
(* over the new lines (PutEntries).  Flat files have no sections and get a *)
(* shorter argument of the same form (FlatSoFar).                          *)
(***************************************************************************)
EXTENDS IniMerge, NumberLemmas, SequenceTheorems, TLAPS

-----------------------------------------------------------------------------
(* Sequences                                                               *)

\* What holds of the empty sequence, and of each with an element more if of the one
\* before, holds of every sequence.
LEMMA SequenceInduction ==
  ASSUME NEW S, NEW T, <<>> \in T,
         \A s \in Seq(S), x \in S : s \in T => Append(s, x) \in T
  PROVE  \A s \in Seq(S) : s \in T
<1> SUFFICES ASSUME NEW s \in Seq(S) PROVE s \in T
  OBVIOUS
<1> DEFINE N == Len(s)
           P == {n \in 0..N : \A t \in Seq(S) : Len(t) = n => t \in T}
<1>1. N \in Nat
  BY LenProperties
<1> HIDE DEF N
<1>2. 0 \in P
  <2>1. \A t \in Seq(S) : Len(t) = 0 => t = <<>>
    BY EmptySeq
  <2> QED
    BY <1>1, <2>1
<1>3. ASSUME NEW n \in 1..N, n - 1 \in P PROVE n \in P
  <2> SUFFICES ASSUME NEW t \in Seq(S), Len(t) = n PROVE t \in T
    BY <1>1
  <2>1. t # <<>>
    BY <1>1, EmptySeq
  <2>2. PICK u \in Seq(S), x \in S : t = Append(u, x)
    BY <2>1, SequenceEmptyOrAppend
  <2>3. Len(t) = Len(u) + 1 /\ Len(u) \in Nat
    BY <2>2, AppendProperties, LenProperties
  <2>4. u \in T
    BY <1>1, <1>3, <2>3
  <2> QED
    BY <2>2, <2>4
<1> HIDE DEF P
<1>4. \A n \in 0..N : n \in P
  BY <1>1, <1>2, <1>3, UpTo
<1>5. N \in P
  BY <1>1, <1>4
<1> QED
  BY <1>5 DEF N, P

\* A sequence that is not empty is what is before its end, and its end.
LEMMA FrontAndLast ==
  ASSUME NEW S, NEW s \in Seq(S), NEW x \in S
  PROVE  Front(Append(s, x)) = s /\ Last(Append(s, x)) = x /\ Append(s, x) # <<>>
<1> DEFINE more == Append(s, x)
<1>1. more \in Seq(S) /\ more # <<>> /\ Len(more) = Len(s) + 1 /\ Len(s) \in Nat
      /\ more[Len(s) + 1] = x /\ \A i \in 1..Len(s) : more[i] = s[i]
  BY AppendProperties, LenProperties
<1> HIDE DEF more
<1>2. Last(more) = x
  BY <1>1 DEF Last
<1>3. Front(more) = SubSeq(more, 1, Len(s))
  BY <1>1 DEF Front
<1>4. SubSeq(more, 1, Len(s)) = s
  <2>1. \A i \in 1..Len(s) : more[i] \in S
    BY <1>1, LenProperties
  <2>2. SubSeq(more, 1, Len(s)) \in Seq(S) /\ Len(SubSeq(more, 1, Len(s))) = Len(s)
        /\ \A i \in 1..Len(s) : SubSeq(more, 1, Len(s))[i] = s[i]
    BY <1>1, <2>1, SubSeqProperties
  <2> QED
    BY <2>2, SeqEqual
<1> QED
  BY <1>1, <1>2, <1>3, <1>4 DEF more

\* One or two elements make a sequence, and putting them after one is appending them.
LEMMA OneOrTwo ==
  ASSUME NEW S, NEW x \in S, NEW y \in S
  PROVE  /\ <<x>> \in Seq(S) /\ <<x, y>> \in Seq(S)
         /\ \A s \in Seq(S) : s \o <<x>> = Append(s, x) /\ s \o <<x, y>> = Append(Append(s, x), y)
<1>1. <<x>> \in Seq(S)
  OBVIOUS
<1>4. <<x, y>> \in Seq(S)
  OBVIOUS
<1>5. <<x, y>> = Append(<<x>>, y)
  OBVIOUS
<1>2. <<x, y>> = <<x>> \o <<y>>
  BY <1>1, <1>5, AppendIsConcat
<1>3. ASSUME NEW s \in Seq(S)
      PROVE  s \o <<x>> = Append(s, x) /\ s \o <<x, y>> = Append(Append(s, x), y)
  <2>1. Append(s, x) \in Seq(S) /\ Append(s, x) = s \o <<x>>
    BY AppendProperties, AppendIsConcat
  <2>2. Append(Append(s, x), y) = Append(s, x) \o <<y>>
    BY <2>1, AppendIsConcat
  <2>3. <<y>> \in Seq(S)
    OBVIOUS
  <2>4. (s \o <<x>>) \o <<y>> = s \o (<<x>> \o <<y>>)
    BY <1>1, <2>3, ConcatAssociative
  <2> QED
    BY <1>2, <2>1, <2>2, <2>4
<1> QED
  BY <1>1, <1>3, <1>4

\* Appending after two sequences one after the other is appending to the second.
LEMMA AppendAfter ==
  ASSUME NEW S, NEW s \in Seq(S), NEW t \in Seq(S), NEW x \in S
  PROVE  s \o Append(t, x) = Append(s \o t, x)
<1>1. Append(t, x) = t \o <<x>> /\ s \o t \in Seq(S)
  BY AppendIsConcat, ConcatProperties
<1>3. <<x>> \in Seq(S)
  OBVIOUS
<1>2. Append(s \o t, x) = (s \o t) \o <<x>>
  BY <1>1, AppendIsConcat
<1> QED
  BY <1>1, <1>2, <1>3, ConcatAssociative

-----------------------------------------------------------------------------
(* Lines, jobs and passes                                                  *)

AllValues == IniValues \cup {OldValue}
Marks == {"", ";", "+", "-"}
IniLines == {Header, Elsewhere, Empty, Other} \cup {Entry(m, v) : m \in Marks, v \in AllValues}
PassStates == [out : Seq(IniLines), inside : BOOLEAN, seen : BOOLEAN, done : BOOLEAN]
IniWrites ==
  [how : {"keyed", "flat", "matched", "unmatched"}, value : IniValues]
  \cup [how : {"repeated"}, values : Seq(IniValues)]
Readings == [how : {"read", "readflat"}, marks : SUBSET Marks]
Sparings == [how : {"rest"}, write : IniWrites]
Jobs == IniWrites \cup Readings \cup Sparings

\* A line is a header, an entry or neither.
LEMMA LineKinds ==
  /\ {Header, Elsewhere, Empty, Other} \subseteq IniLines
  /\ HeaderLines \subseteq IniLines /\ Header \in HeaderLines /\ Elsewhere \in HeaderLines
  /\ Header # Elsewhere /\ Empty \notin HeaderLines
  /\ \A marks : ~Marked(Empty, marks)
  /\ \A marks : \A line \in HeaderLines : ~Marked(line, marks)
BY DEF IniLines, HeaderLines, Header, Elsewhere, Empty, Other, Marked, IsEntry

\* An entry is no header and no blank line, and its mark says which patterns accept it.
LEMMA EntryKinds ==
  ASSUME NEW m \in Marks, NEW v \in AllValues
  PROVE  /\ Entry(m, v) \in IniLines /\ Entry(m, v) \notin HeaderLines /\ Entry(m, v) # Empty
         /\ Entry(m, v).value = v /\ Entry(m, v).mark = m
         /\ \A marks : Marked(Entry(m, v), marks) <=> m \in marks
BY DEF IniLines, HeaderLines, Header, Elsewhere, Empty, Entry, Marked, IsEntry

\* The values of the kinds of lines.
LEMMA MarkSets ==
  /\ KeyedMarks \subseteq Marks /\ LiveMarks \subseteq Marks /\ ArrayMarks \subseteq LiveMarks
  /\ "" \in KeyedMarks /\ "+" \in ArrayMarks /\ "+" \in LiveMarks /\ "-" \in LiveMarks
  /\ "" \in Marks /\ "+" \in Marks /\ "-" \in Marks /\ {""} \subseteq KeyedMarks
BY DEF KeyedMarks, LiveMarks, ArrayMarks, Marks

\* What a write puts in.
LEMMA NewForms ==
  ASSUME NEW w \in IniWrites
  PROVE  /\ w.how \in {"keyed", "flat", "matched", "unmatched", "repeated"}
         /\ w.how # "repeated" => w.value \in IniValues
         /\ w.how \in {"keyed", "flat"} => New(w) = <<Entry("", w.value)>>
         /\ w.how = "matched" => New(w) = <<Entry("-", OldValue), Entry("+", w.value)>>
         /\ w.how = "unmatched" => New(w) = <<>>
         /\ w.how = "repeated" =>
              /\ New(w) \in Seq({Entry("+", v) : v \in IniValues})
         /\ New(w) \in Seq(IniLines)
<1>1. CASE w \in [how : {"keyed", "flat", "matched", "unmatched"}, value : IniValues]
  <2>1. w.value \in AllValues /\ OldValue \in AllValues
    BY <1>1 DEF AllValues
  <2>2. Entry("", w.value) \in IniLines /\ Entry("-", OldValue) \in IniLines
        /\ Entry("+", w.value) \in IniLines
    BY <2>1, EntryKinds, MarkSets
  <2>3. w.how # "repeated" /\ w.how \in {"keyed", "flat", "matched", "unmatched"} /\ w.value \in IniValues
    BY <1>1
  <2>4. CASE w.how \in {"keyed", "flat"}
    <3>1. New(w) = <<Entry("", w.value)>>
      BY <2>4 DEF New
    <3>2. <<Entry("", w.value)>> \in Seq(IniLines)
      BY <2>2, OneOrTwo
    <3>3. New(w) \in Seq(IniLines)
      BY <3>1, <3>2, Zenon
    <3>4. w.how \notin {"matched", "unmatched", "repeated"}
      BY <2>4
    <3> QED
      BY <2>3, <3>1, <3>3, <3>4, Zenon
  <2>5. CASE w.how = "matched"
    <3>1. New(w) = <<Entry("-", OldValue), Entry("+", w.value)>>
      BY <2>5 DEF New, Swap
    <3>2. <<Entry("-", OldValue), Entry("+", w.value)>> \in Seq(IniLines)
      BY <2>2, OneOrTwo
    <3>3. New(w) \in Seq(IniLines)
      BY <3>1, <3>2, Zenon
    <3>4. w.how \notin {"keyed", "flat", "unmatched", "repeated"}
      BY <2>5
    <3> QED
      BY <2>3, <3>1, <3>3, <3>4, Zenon
  <2>6. CASE w.how = "unmatched"
    <3>1. New(w) = <<>>
      BY <2>6 DEF New
    <3> QED
      BY <2>3, <2>6, <3>1
  <2> QED
    BY <2>3, <2>4, <2>5, <2>6
<1>2. CASE w \in [how : {"repeated"}, values : Seq(IniValues)]
  <2>1. New(w) = [i \in DOMAIN w.values |-> Entry("+", w.values[i])] /\ w.values \in Seq(IniValues)
    BY <1>2 DEF New
  <2> DEFINE P == {Entry("+", v) : v \in IniValues}
  <2>2. New(w) \in Seq(P)
    <3>1. PICK n \in Nat : w.values \in [1..n -> IniValues]
      BY <2>1, LenProperties
    <3>2. New(w) \in [1..n -> P]
      BY <2>1, <3>1
    <3> HIDE DEF P
    <3> QED
      BY <3>2, SeqDef
  <2>3. P \subseteq IniLines
    <3>1. \A v \in IniValues : v \in AllValues
      BY DEF AllValues
    <3>2. \A v \in IniValues : Entry("+", v) \in IniLines
      BY <3>1, EntryKinds, MarkSets
    <3> QED
      BY <3>2
  <2>4. New(w) \in Seq(IniLines)
    <3> HIDE DEF P
    <3> QED
      BY <2>2, <2>3, SeqMonotonic
  <2> QED
    BY <1>2, <2>2, <2>4
<1> QED
  BY <1>1, <1>2 DEF IniWrites

\* What AtEndOf gives is lines.
LEMMA AtEndType ==
  ASSUME NEW out \in Seq(IniLines), NEW new \in Seq(IniLines)
  PROVE  AtEndOf(out, new) \in Seq(IniLines)
<1>1. out \o new \in Seq(IniLines)
  BY ConcatProperties
<1>2. ASSUME out # <<>> PROVE Append(Front(out) \o new, Empty) \in Seq(IniLines)
  <2>1. PICK t \in Seq(IniLines), x \in IniLines : out = Append(t, x)
    BY <1>2, SequenceEmptyOrAppend
  <2>2. Front(out) = t /\ Empty \in IniLines
    BY <2>1, FrontAndLast, LineKinds
  <2>3. t \o new \in Seq(IniLines)
    BY ConcatProperties
  <2> QED
    BY <2>2, <2>3, AppendProperties
<1> QED
  BY <1>1, <1>2 DEF AtEndOf

\* A line leaves every job in a proper state.
LEMMA TakeType ==
  ASSUME NEW job \in Jobs, NEW state \in PassStates, NEW line \in IniLines
  PROVE  TakeLine(job, state, line) \in PassStates
<1>1. Keep(state, line) \in PassStates
  BY DEF Keep, PassStates
<1>2. ASSUME NEW new \in Seq(IniLines) PROVE PassHeader(state, line, new) \in PassStates
  BY <1>2, AtEndType DEF PassHeader, PassStates
<1>3. CASE job \in IniWrites
  <2>1. New(job) \in Seq(IniLines)
    BY <1>3, NewForms
  <2>4. state.out \o New(job) \in Seq(IniLines)
    BY <2>1, ConcatProperties DEF PassStates
  <2>2. /\ PassHeader(state, line, New(job)) \in PassStates
        /\ [state EXCEPT !.out = @ \o New(job), !.done = TRUE] \in PassStates
        /\ [state EXCEPT !.out = IF state.done THEN @ ELSE @ \o New(job), !.done = TRUE] \in PassStates
    BY <1>2, <2>1, <2>4 DEF PassStates
  <2>3. job.how \in {"keyed", "flat", "matched", "unmatched", "repeated"}
    BY <1>3, NewForms
  <2> QED
    BY <1>1, <2>2, <2>3 DEF TakeLine, UpsertKeyed, UpsertFlat, UpsertRepeated, UpsertMatched, Replace
<1>4. CASE job \in Readings
  <2>1. [state EXCEPT !.inside = (line = Header)] \in PassStates
    BY DEF PassStates
  <2> QED
    BY <1>1, <1>4, <2>1 DEF TakeLine, ReadInSection, ReadAnywhere, Readings
<1>5. CASE job \in Sparings
  <2>1. [Keep(state, line) EXCEPT !.inside = (line = Header)] \in PassStates
    BY <1>1 DEF PassStates
  <2> QED
    BY <1>1, <1>5, <2>1 DEF TakeLine, RestOf, Sparings
<1> QED
  BY <1>3, <1>4, <1>5 DEF Jobs

\* What a pass comes to is the end of its steps.
LEMMA PassSteps ==
  ASSUME NEW job \in Jobs, NEW log \in Seq(IniLines)
  PROVE  \E f \in [0..Len(log) -> PassStates] :
            /\ f[0] = NotBegun /\ \A n \in 1..Len(log) : f[n] = TakeLine(job, f[n - 1], log[n])
            /\ Pass(job, log) = f[Len(log)]
  <1> DEFINE N == Len(log)
             G == [p \in (1..N) \X PassStates |-> TakeLine(job, p[2], log[p[1]])]
             Solves(a) == a = [n \in 0..N |-> IF n = 0 THEN NotBegun ELSE TakeLine(job, a[n - 1], log[n])]
             after == CHOOSE a : Solves(a)
  <1>1. N \in Nat /\ NotBegun \in PassStates
    BY DEF NotBegun, PassStates
  <1>2. \A n \in 1..N, s \in PassStates : G[<<n, s>>] = TakeLine(job, s, log[n])
    OBVIOUS
  <1>10. \A n \in 1..N : log[n] \in IniLines
    OBVIOUS
  <1>0. \A n \in 1..N, s \in PassStates : G[<<n, s>>] \in PassStates
    <2> HIDE DEF G, N
    <2> QED
      BY <1>2, <1>10, TakeType
  <1>3. PICK f \in [0..N -> PassStates] :
           f[0] = NotBegun /\ \A n \in 1..N : f[n] = G[<<n, f[n - 1]>>]
    <2> HIDE DEF G, N
    <2>1. \E f : Steps(f, N, PassStates, NotBegun, G)
      BY <1>0, <1>1, StepsExist
    <2> QED
      BY <2>1 DEF Steps
  <1>4. \A n \in 1..N : f[n] = TakeLine(job, f[n - 1], log[n])
    <2> HIDE DEF G, N
    <2>1. \A n \in 1..N : f[n - 1] \in PassStates
      BY <1>1, <1>3
    <2> QED
      BY <1>2, <1>3, <2>1
  <1>5. Solves(f)
    <2>1. \A n \in 0..N : f[n] = IF n = 0 THEN NotBegun ELSE TakeLine(job, f[n - 1], log[n])
      <3> HIDE DEF N, G
      <3> QED
        BY <1>1, <1>3, <1>4
    <2> QED
      BY <2>1
  <1>6. Solves(after)
    <2> HIDE DEF Solves
    <2> QED
      BY <1>5
  <1>7. after[0] = f[0] /\ \A n \in 1..N : after[n - 1] = f[n - 1] => after[n] = f[n]
    <2> HIDE DEF after
    <2>1. \A n \in 0..N : after[n] = IF n = 0 THEN NotBegun ELSE TakeLine(job, after[n - 1], log[n])
      BY <1>6
    <2> HIDE DEF Solves
    <2> QED
      BY <1>1, <1>3, <1>4, <2>1
  <1>8. after[N] = f[N]
    <2> HIDE DEF after, N
    <2> DEFINE T == {n \in 0..N : after[n] = f[n]}
    <2>1. 0 \in T /\ \A n \in 1..N : n - 1 \in T => n \in T
      BY <1>1, <1>7
    <2> HIDE DEF T
    <2>2. \A n \in 0..N : n \in T
      BY <1>1, <2>1, UpTo
    <2> QED
      BY <1>1, <2>2 DEF T
  <1>9. Pass(job, log) = after[N]
    BY DEF Pass
  <1> QED
    BY <1>3, <1>4, <1>8, <1>9

\* An empty file leaves a pass where it began.
LEMMA PassNothing == ASSUME NEW job \in Jobs PROVE Pass(job, <<>>) = NotBegun
  <1> DEFINE none == <<>>
  <1>1. none \in Seq(IniLines) /\ Len(none) = 0
    OBVIOUS
  <1> HIDE DEF none
  <1>2. \E f \in [0..Len(none) -> PassStates] :
           /\ f[0] = NotBegun /\ \A n \in 1..Len(none) : f[n] = TakeLine(job, f[n - 1], none[n])
           /\ Pass(job, none) = f[Len(none)]
    BY <1>1, PassSteps
  <1>3. Pass(job, none) = NotBegun
    BY <1>1, <1>2
  <1> QED
    BY <1>3 DEF none

\* A line more is taken after the others.
LEMMA PassMore ==
  ASSUME NEW job \in Jobs, NEW log \in Seq(IniLines), NEW line \in IniLines
  PROVE  /\ Pass(job, log) \in PassStates
         /\ Pass(job, Append(log, line)) = TakeLine(job, Pass(job, log), line)
  <1> DEFINE N == Len(log)
             more == Append(log, line)
  <1>1. more \in Seq(IniLines) /\ Len(more) = N + 1 /\ N \in Nat
        /\ more[N + 1] = line /\ \A n \in 1..N : more[n] = log[n]
    OBVIOUS
  <1>2. PICK f \in [0..N -> PassStates] :
            /\ f[0] = NotBegun /\ \A n \in 1..N : f[n] = TakeLine(job, f[n - 1], log[n])
            /\ Pass(job, log) = f[N]
    BY PassSteps
  <1>3. PICK g \in [0..(N + 1) -> PassStates] :
            /\ g[0] = NotBegun /\ \A n \in 1..(N + 1) : g[n] = TakeLine(job, g[n - 1], more[n])
            /\ Pass(job, more) = g[N + 1]
    <2> HIDE DEF more
    <2>1. \E g \in [0..Len(more) -> PassStates] :
             /\ g[0] = NotBegun /\ \A n \in 1..Len(more) : g[n] = TakeLine(job, g[n - 1], more[n])
             /\ Pass(job, more) = g[Len(more)]
      BY <1>1, PassSteps
    <2> QED
      BY <1>1, <2>1
  <1> HIDE DEF N, more
  <1>4. \A n \in 1..N : f[n - 1] = g[n - 1] => f[n] = g[n]
    BY <1>1, <1>2, <1>3
  <1>5. f[N] = g[N]
    <2>1. f[0] = g[0]
      BY <1>2, <1>3
    <2> DEFINE T == {n \in 0..N : f[n] = g[n]}
    <2>2. 0 \in T /\ \A n \in 1..N : n - 1 \in T => n \in T
      BY <1>1, <1>4, <2>1
    <2> HIDE DEF T
    <2>3. N \in Nat
      BY <1>1
    <2>4. \A n \in 0..N : n \in T
      BY <2>2, <2>3, UpTo
    <2> QED
      BY <2>3, <2>4 DEF T
  <1>6. g[N + 1] = TakeLine(job, g[N], line)
    BY <1>1, <1>3
  <1> QED
    BY <1>1, <1>2, <1>3, <1>5, <1>6 DEF more

-----------------------------------------------------------------------------
(* What each job does with a line                                          *)

ReadJob(marks) == [how |-> "read", marks |-> marks]
RestJob(w) == [how |-> "rest", write |-> w]

\* The writes that go by sections, and the entries of the section that such a write is about.
InSections == {w \in IniWrites : w.how # "flat"}
About(w, line) ==
  CASE w.how = "keyed" -> Marked(line, KeyedMarks)
    [] w.how = "repeated" -> Marked(line, LiveMarks)
    [] OTHER -> Marked(line, LiveMarks) /\ line.value \in Targets(w)

\* The marks with which a write is read back.
Wanted(w) ==
  CASE w.how = "keyed" -> {{""}}
    [] w.how = "repeated" -> {ArrayMarks, LiveMarks}
    [] OTHER -> {LiveMarks}

\* An entry that the write replaces or removes when it comes to it.
Goes(w, state, line) ==
  state.inside /\ About(w, line) /\ (w.how = "keyed" => ~state.done)

\* A write by sections, its readings back and the look at what it spares are jobs.
LEMMA JobKinds ==
  ASSUME NEW w \in InSections
  PROVE  /\ w \in IniWrites /\ w \in Jobs /\ RestJob(w) \in Jobs
         /\ w.how \in {"keyed", "matched", "unmatched", "repeated"}
         /\ \A marks \in Wanted(w) : ReadJob(marks) \in Jobs /\ marks \subseteq Marks
<1>1. w \in IniWrites /\ w \in Jobs /\ w.how \in {"keyed", "matched", "unmatched", "repeated"}
  BY NewForms DEF InSections, Jobs
<1>2. RestJob(w) \in Jobs
  BY <1>1 DEF RestJob, Jobs, Sparings
<1>3. ASSUME NEW marks \in Wanted(w) PROVE marks \subseteq Marks
  BY <1>1, MarkSets DEF Wanted
<1>4. ASSUME NEW marks \in Wanted(w) PROVE ReadJob(marks) \in Jobs
  BY <1>3, <1>4 DEF ReadJob, Jobs, Readings
<1> QED
  BY <1>1, <1>2, <1>3, <1>4

\* What a write does with a line of a sectioned file.
LEMMA WriteLine ==
  ASSUME NEW w \in InSections, NEW state \in PassStates, NEW line \in IniLines
  PROVE  /\ line \in HeaderLines => TakeLine(w, state, line) = PassHeader(state, line, New(w))
         /\ line \notin HeaderLines /\ Goes(w, state, line) =>
              TakeLine(w, state, line) =
                [state EXCEPT !.out = IF state.done THEN @ ELSE @ \o New(w), !.done = TRUE]
         /\ line \notin HeaderLines /\ ~Goes(w, state, line) =>
              TakeLine(w, state, line) = Keep(state, line)
<1>1. CASE w.how = "keyed"
  BY <1>1 DEF TakeLine, UpsertKeyed, Goes, About, PassStates
<1>2. CASE w.how = "repeated"
  BY <1>2 DEF TakeLine, UpsertRepeated, Replace, Goes, About
<1>3. CASE w.how \in {"matched", "unmatched"}
  BY <1>3 DEF TakeLine, UpsertMatched, Replace, Goes, About
<1> QED
  BY <1>1, <1>2, <1>3, JobKinds

\* What a reading does with it.
LEMMA ReadLine ==
  ASSUME NEW marks, NEW state \in PassStates, NEW line \in IniLines
  PROVE  /\ line \in HeaderLines =>
              TakeLine(ReadJob(marks), state, line) = [state EXCEPT !.inside = (line = Header)]
         /\ line \notin HeaderLines /\ state.inside /\ Marked(line, marks) =>
              TakeLine(ReadJob(marks), state, line) = Keep(state, line)
         /\ line \notin HeaderLines /\ ~(state.inside /\ Marked(line, marks)) =>
              TakeLine(ReadJob(marks), state, line) = state
BY DEF TakeLine, ReadJob, ReadInSection

\* What is left alone of it.
LEMMA RestLine ==
  ASSUME NEW w \in InSections, NEW state \in PassStates, NEW line \in IniLines
  PROVE  /\ line \in HeaderLines =>
              TakeLine(RestJob(w), state, line) = [Keep(state, line) EXCEPT !.inside = (line = Header)]
         /\ line \notin HeaderLines /\ state.inside /\ About(w, line) =>
              TakeLine(RestJob(w), state, line) = state
         /\ line \notin HeaderLines /\ ~(state.inside /\ About(w, line)) =>
              TakeLine(RestJob(w), state, line) = Keep(state, line)
<1>1. TakeLine(RestJob(w), state, line) = RestOf(state, line, w)
  BY DEF TakeLine, RestJob
<1>2. Spared(w, state, line) <=> ~(state.inside /\ About(w, line))
  BY JobKinds DEF Spared, About
<1> QED
  BY <1>1, <1>2 DEF RestOf

\* The lines that a write puts in are ones that it is about, and ones that are read back.
LEMMA NewAreAbout ==
  ASSUME NEW w \in InSections, NEW i \in DOMAIN New(w)
  PROVE  /\ New(w)[i] \in IniLines /\ New(w)[i] \notin HeaderLines /\ About(w, New(w)[i])
         /\ \A marks \in Wanted(w) : Marked(New(w)[i], marks)
<1> DEFINE new == New(w)
           line == new[i]
<1>0. w \in IniWrites /\ OldValue \in AllValues /\ IniValues \subseteq AllValues
  BY JobKinds DEF AllValues
<1>i. i \in DOMAIN new
  OBVIOUS
<1> HIDE DEF new
<1>1. CASE w.how = "keyed"
  <2>1. new = <<Entry("", w.value)>> /\ w.value \in AllValues
    BY <1>0, <1>1, NewForms DEF new
  <2>2. line = Entry("", w.value)
    <3>1. DOMAIN <<Entry("", w.value)>> = {1} /\ <<Entry("", w.value)>>[1] = Entry("", w.value)
      OBVIOUS
    <3>2. DOMAIN new = {1} /\ new[1] = Entry("", w.value)
      BY <2>1, <3>1, Zenon
    <3> QED
      BY <1>i, <3>2
  <2> HIDE DEF line
  <2>6. line \in IniLines /\ line \notin HeaderLines
    BY <2>1, <2>2, EntryKinds, MarkSets
  <2>5. line \in IniLines /\ line \notin HeaderLines /\ \A marks : Marked(line, marks) <=> "" \in marks
    BY <2>2, <2>6 DEF Marked, IsEntry, Entry
  <2>3. line \in IniLines /\ line \notin HeaderLines /\ Marked(line, {""}) /\ Marked(line, KeyedMarks)
    BY <2>5, MarkSets
  <2>4. About(w, line) /\ \A marks \in Wanted(w) : Marked(line, marks)
    BY <1>1, <2>3 DEF About, Wanted
  <2> QED
    BY <2>3, <2>4 DEF line, new
<1>2. CASE w.how = "repeated"
  <2> DEFINE Plus == {Entry("+", v) : v \in IniValues}
  <2>1. new \in Seq(Plus)
    BY <1>0, <1>2, NewForms DEF new
  <2>2. line \in Plus
    <3> HIDE DEF Plus
    <3> QED
      BY <1>i, <2>1
  <2>3. PICK v \in AllValues : line = Entry("+", v)
    BY <1>0, <2>2
  <2> HIDE DEF line, Plus
  <2>4. line \in IniLines /\ line \notin HeaderLines /\ Marked(line, ArrayMarks) /\ Marked(line, LiveMarks)
    BY <2>3, EntryKinds, MarkSets
  <2>5. About(w, line) /\ \A marks \in Wanted(w) : Marked(line, marks)
    BY <1>2, <2>4 DEF About, Wanted
  <2> QED
    BY <2>4, <2>5 DEF line, new
<1>3. CASE w.how = "matched"
  <2>1. new = <<Entry("-", OldValue), Entry("+", w.value)>> /\ w.value \in AllValues
    BY <1>0, <1>3, NewForms DEF new
  <2>2. line = Entry("-", OldValue) \/ line = Entry("+", w.value)
    BY <1>i, <2>1
  <2> HIDE DEF line
  <2>3. PICK m \in {"-", "+"}, v \in {OldValue, w.value} : line = Entry(m, v)
    BY <2>2
  <2>4. m \in Marks /\ v \in AllValues /\ m \in LiveMarks /\ v \in Targets(w)
    BY <1>0, <2>1, <2>3, MarkSets DEF Targets
  <2>5. line \in IniLines /\ line \notin HeaderLines /\ Marked(line, LiveMarks) /\ line.value \in Targets(w)
    BY <2>3, <2>4, EntryKinds
  <2>6. About(w, line) /\ \A marks \in Wanted(w) : Marked(line, marks)
    BY <1>3, <2>5 DEF About, Wanted
  <2> QED
    BY <2>5, <2>6 DEF line, new
<1>4. CASE w.how = "unmatched"
  <2>1. new = <<>>
    BY <1>0, <1>4, NewForms DEF new
  <2> QED
    BY <1>i, <2>1
<1> QED
  BY <1>1, <1>2, <1>3, <1>4, JobKinds

-----------------------------------------------------------------------------
(* Putting the new lines in                                                *)

\* A header, a blank line and a line that is not about the key are no entries of a write.
LEMMA BlankIsKept ==
  ASSUME NEW w \in InSections
  PROVE  /\ Empty \in IniLines /\ Empty \notin HeaderLines /\ ~About(w, Empty)
         /\ \A marks : ~Marked(Empty, marks)
BY LineKinds DEF About

\* Entries that a write is about.
AboutLines(w) ==
  {line \in IniLines \ HeaderLines : About(w, line) /\ \A marks \in Wanted(w) : Marked(line, marks)}

\* What a write by sections puts in are entries that it is about.
LEMMA NewLines ==
  ASSUME NEW w \in InSections
  PROVE  /\ New(w) \in Seq(AboutLines(w)) /\ New(w) \in Seq(IniLines)
         /\ AboutLines(w) \subseteq IniLines
         /\ w.how = "keyed" => Len(New(w)) = 1 /\ New(w) # <<>>
<1>1. New(w) \in Seq(IniLines) /\ (w.how = "keyed" => New(w) = <<Entry("", w.value)>>)
  BY NewForms, JobKinds
<1>2. \A i \in DOMAIN New(w) : New(w)[i] \in AboutLines(w)
  BY NewAreAbout DEF AboutLines
<1>3. PICK n \in Nat : New(w) \in [1..n -> IniLines]
  BY <1>1, LenProperties
<1>4. New(w) \in [1..n -> AboutLines(w)]
  BY <1>2, <1>3
<1>5. New(w) \in Seq(AboutLines(w))
  BY <1>4, SeqDef
<1>6. w.how = "keyed" => Len(New(w)) = 1 /\ New(w) # <<>>
  <2> SUFFICES ASSUME w.how = "keyed" PROVE Len(New(w)) = 1 /\ New(w) # <<>>
    OBVIOUS
  <2>1. New(w) = <<Entry("", w.value)>>
    BY <1>1
  <2>2. Len(<<Entry("", w.value)>>) = 1
    OBVIOUS
  <2>3. Len(New(w)) = 1
    BY <2>1, <2>2
  <2> QED
    BY <1>1, <2>3, EmptySeq
<1> QED
  BY <1>1, <1>5, <1>6 DEF AboutLines

\* What each job makes of entries that a write is about, put into the section: the write
\* puts its own there and is done, a reading back takes them all, and nothing of them is
\* spared.
PutIn(w, marks, t, put, all) ==
  /\ all \in Seq(IniLines)
  /\ Pass(w, all) = [Pass(w, t) EXCEPT !.out = IF put = <<>> THEN @ ELSE @ \o New(w),
                                       !.done = put # <<>>]
  /\ Pass(ReadJob(marks), all) = [Pass(ReadJob(marks), t) EXCEPT !.out = @ \o put]
  /\ Pass(RestJob(w), all) = Pass(RestJob(w), t)

\* The section is open, and the write has yet to put its lines.
OpenAt(w, marks, t) ==
  /\ Pass(w, t).inside /\ ~Pass(w, t).done
  /\ Pass(ReadJob(marks), t).inside /\ Pass(RestJob(w), t).inside

\* So it is of the new lines, put at the end of lines that leave the section open.
LEMMA PutEntries ==
  ASSUME NEW w \in InSections, NEW marks \in Wanted(w), NEW t \in Seq(IniLines), OpenAt(w, marks, t)
  PROVE  PutIn(w, marks, t, New(w), t \o New(w))
<1> DEFINE T == {put \in Seq(AboutLines(w)) :
                   (w.how = "keyed" => Len(put) <= 1) => PutIn(w, marks, t, put, t \o put)}
           wr == Pass(w, t)
           rd == Pass(ReadJob(marks), t)
           rs == Pass(RestJob(w), t)
<1>0. /\ w \in Jobs /\ ReadJob(marks) \in Jobs /\ RestJob(w) \in Jobs
      /\ wr \in PassStates /\ rd \in PassStates /\ rs \in PassStates
      /\ wr.inside /\ ~wr.done /\ rd.inside /\ rs.inside
  BY JobKinds, PassMore, LineKinds DEF OpenAt
<1>1. <<>> \in T
  <2> HIDE DEF wr, rd, rs
  <2>1. t \o <<>> = t /\ <<>> \in Seq(AboutLines(w)) /\ rd.out \o <<>> = rd.out
    BY <1>0, ConcatEmptySeq, EmptySeq DEF PassStates
  <2>2. wr = [wr EXCEPT !.done = FALSE] /\ rd = [rd EXCEPT !.out = rd.out]
    BY <1>0 DEF PassStates
  <2>3. PutIn(w, marks, t, <<>>, t)
    BY <2>1, <2>2 DEF PutIn, wr, rd, rs
  <2> QED
    BY <2>1, <2>3
<1>2. ASSUME NEW put \in Seq(AboutLines(w)), NEW line \in AboutLines(w), put \in T
      PROVE  Append(put, line) \in T
  <2> DEFINE more == Append(put, line)
             all == t \o put
  <2>1. more \in Seq(AboutLines(w)) /\ Len(more) = Len(put) + 1 /\ Len(put) \in Nat /\ more # <<>>
    BY AppendProperties, LenProperties
  <2> SUFFICES ASSUME w.how = "keyed" => Len(more) <= 1 PROVE PutIn(w, marks, t, more, t \o more)
    BY <2>1
  <2>2. w.how = "keyed" => Len(put) <= 1 /\ put = <<>>
    BY <2>1, EmptySeq
  <2>3. PutIn(w, marks, t, put, all)
    BY <1>2, <2>2
  <2>4. line \in IniLines /\ line \notin HeaderLines /\ About(w, line) /\ Marked(line, marks)
        /\ put \in Seq(IniLines)
    BY NewLines, SeqMonotonic DEF AboutLines
  <2>5. t \o more = Append(all, line) /\ Append(all, line) \in Seq(IniLines) /\ all \in Seq(IniLines)
    BY <2>4, AppendAfter, AppendProperties, ConcatProperties
  <2>10. \A s \in Seq(IniLines) : s \o more = Append(s \o put, line)
    BY <2>4, AppendAfter
  <2> HIDE DEF all, more, wr, rd, rs
  <2>6. /\ Pass(w, Append(all, line)) = TakeLine(w, Pass(w, all), line)
        /\ Pass(ReadJob(marks), Append(all, line)) = TakeLine(ReadJob(marks), Pass(ReadJob(marks), all), line)
        /\ Pass(RestJob(w), Append(all, line)) = TakeLine(RestJob(w), Pass(RestJob(w), all), line)
        /\ Pass(w, all) \in PassStates /\ Pass(ReadJob(marks), all) \in PassStates
        /\ Pass(RestJob(w), all) \in PassStates
    BY <1>0, <2>4, <2>5, PassMore
  <2>7. Pass(w, Append(all, line)) = [wr EXCEPT !.out = wr.out \o New(w), !.done = TRUE]
    <3> DEFINE st == [wr EXCEPT !.out = IF put = <<>> THEN @ ELSE @ \o New(w), !.done = put # <<>>]
    <3>1. Pass(w, all) = st
      BY <2>3 DEF PutIn, wr
    <3>2. st.inside /\ (st.done <=> put # <<>>) /\ st.out = IF put = <<>> THEN wr.out ELSE wr.out \o New(w)
      BY <1>0 DEF PassStates
    <3>5. st \in PassStates
      BY <2>6, <3>1
    <3>3. [st EXCEPT !.out = wr.out \o New(w), !.done = TRUE] = [wr EXCEPT !.out = wr.out \o New(w), !.done = TRUE]
      BY <1>0 DEF PassStates
    <3> HIDE DEF st
    <3>4. Goes(w, st, line)
      BY <2>2, <2>4, <3>2 DEF Goes
    <3>6. TakeLine(w, st, line) = [st EXCEPT !.out = IF st.done THEN @ ELSE @ \o New(w), !.done = TRUE]
      BY <2>4, <3>4, <3>5, WriteLine
    <3>7. (IF st.done THEN st.out ELSE st.out \o New(w)) = wr.out \o New(w)
      BY <3>2
    <3> QED
      BY <2>6, <3>1, <3>3, <3>6, <3>7
  <2>8. Pass(ReadJob(marks), Append(all, line)) = [rd EXCEPT !.out = rd.out \o more]
    <3> DEFINE st == [rd EXCEPT !.out = @ \o put]
    <3>1. Pass(ReadJob(marks), all) = st
      BY <2>3 DEF PutIn, rd
    <3>2. st.inside /\ st.out = rd.out \o put
      BY <1>0 DEF PassStates
    <3>3. Keep(st, line) = [rd EXCEPT !.out = Append(rd.out \o put, line)]
      BY <1>0 DEF PassStates, Keep
    <3>4. Append(rd.out \o put, line) = rd.out \o more
      <4>1. rd.out \in Seq(IniLines)
        BY <1>0 DEF PassStates
      <4> QED
        BY <2>10, <4>1
    <3>5. st \in PassStates
      BY <2>6, <3>1
    <3> HIDE DEF st
    <3>6. TakeLine(ReadJob(marks), st, line) = Keep(st, line)
      BY <2>4, <3>2, <3>5, ReadLine
    <3> QED
      BY <2>6, <3>1, <3>3, <3>4, <3>6
  <2>9. Pass(RestJob(w), Append(all, line)) = rs
    <3>1. Pass(RestJob(w), all) = rs
      BY <2>3 DEF PutIn, rs
    <3> QED
      BY <1>0, <2>4, <2>6, <3>1, RestLine
  <2> QED
    BY <2>1, <2>5, <2>7, <2>8, <2>9 DEF PutIn, wr, rd, rs
<1>3. New(w) \in T
  <2> HIDE DEF T
  <2> QED
    BY <1>1, <1>2, NewLines, SequenceInduction
<1>4. w.how = "keyed" => Len(New(w)) <= 1
  BY NewLines
<1> QED
  BY <1>3, <1>4

\* The new lines are in, and a second write would put them where they are.
PutThere(w, marks, t, all) ==
  /\ all \in Seq(IniLines)
  /\ Pass(w, all) = [Pass(w, t) EXCEPT !.out = all, !.done = New(w) # <<>>]
  /\ Pass(ReadJob(marks), all) = [Pass(ReadJob(marks), t) EXCEPT !.out = @ \o New(w)]
  /\ Pass(RestJob(w), all) = Pass(RestJob(w), t)

\* Put after everything that is out.
LEMMA PutAfter ==
  ASSUME NEW w \in InSections, NEW marks \in Wanted(w), NEW t \in Seq(IniLines), OpenAt(w, marks, t),
         Pass(w, t).out = t
  PROVE  PutThere(w, marks, t, t \o New(w))
<1>1. PutIn(w, marks, t, New(w), t \o New(w))
  BY PutEntries
<1>2. (IF New(w) = <<>> THEN t ELSE t \o New(w)) = t \o New(w)
  BY ConcatEmptySeq
<1> QED
  BY <1>1, <1>2 DEF PutIn, PutThere

\* Put before the blank line that ends the section, where there is one.
LEMMA PutAtEnd ==
  ASSUME NEW w \in InSections, NEW marks \in Wanted(w), NEW t \in Seq(IniLines), OpenAt(w, marks, t),
         Pass(w, t).out = t
  PROVE  PutThere(w, marks, t, AtEndOf(t, New(w)))
<1>1. CASE t # <<>> /\ Last(t) = Empty
  <2>1. PICK u \in Seq(IniLines), x \in IniLines : t = Append(u, x)
    BY <1>1, SequenceEmptyOrAppend
  <2>2. t = Append(u, Empty) /\ Front(t) = u
    BY <1>1, <2>1, FrontAndLast
  <2> DEFINE wr == Pass(w, u)
             rd == Pass(ReadJob(marks), u)
             rs == Pass(RestJob(w), u)
             put == u \o New(w)
             all == Append(put, Empty)
  <2>3. /\ w \in Jobs /\ ReadJob(marks) \in Jobs /\ RestJob(w) \in Jobs
        /\ wr \in PassStates /\ rd \in PassStates /\ rs \in PassStates
    BY JobKinds, PassMore, BlankIsKept
  <2>4. \A state \in PassStates :
          /\ TakeLine(w, state, Empty) = Keep(state, Empty)
          /\ TakeLine(ReadJob(marks), state, Empty) = state
          /\ TakeLine(RestJob(w), state, Empty) = Keep(state, Empty)
    <3> SUFFICES ASSUME NEW state \in PassStates
                 PROVE  /\ TakeLine(w, state, Empty) = Keep(state, Empty)
                        /\ TakeLine(ReadJob(marks), state, Empty) = state
                        /\ TakeLine(RestJob(w), state, Empty) = Keep(state, Empty)
      OBVIOUS
    <3>1. Empty \in IniLines /\ Empty \notin HeaderLines /\ ~About(w, Empty)
          /\ ~Goes(w, state, Empty) /\ ~Marked(Empty, marks)
      BY BlankIsKept DEF Goes
    <3>2. TakeLine(w, state, Empty) = Keep(state, Empty)
      BY <3>1, WriteLine
    <3>3. TakeLine(ReadJob(marks), state, Empty) = state
      BY <3>1, ReadLine
    <3>4. TakeLine(RestJob(w), state, Empty) = Keep(state, Empty)
      BY <3>1, RestLine
    <3> QED
      BY <3>2, <3>3, <3>4
  <2> HIDE DEF wr, rd, rs
  <2>5. /\ Pass(w, t) = Keep(wr, Empty) /\ Pass(ReadJob(marks), t) = rd
        /\ Pass(RestJob(w), t) = Keep(rs, Empty)
    BY <2>2, <2>3, <2>4, PassMore, BlankIsKept DEF wr, rd, rs
  <2>6. wr.inside /\ ~wr.done /\ rd.inside /\ rs.inside /\ Append(wr.out, Empty) = t
    <3>1. /\ Keep(wr, Empty).inside = wr.inside /\ Keep(wr, Empty).done = wr.done
          /\ Keep(wr, Empty).out = Append(wr.out, Empty) /\ Keep(rs, Empty).inside = rs.inside
      BY <2>3 DEF Keep, PassStates
    <3>2. /\ Keep(wr, Empty).inside /\ ~Keep(wr, Empty).done /\ rd.inside
          /\ Keep(rs, Empty).inside /\ Keep(wr, Empty).out = t
      BY <2>5 DEF OpenAt
    <3> QED
      BY <3>1, <3>2
  <2>7. wr.out = u
    BY <2>2, <2>3, <2>6, AppendInjective, BlankIsKept DEF PassStates
  <2>8. PutThere(w, marks, u, put)
    BY <2>6, <2>7, PutAfter DEF OpenAt, wr, rd, rs
  <2> HIDE DEF put
  <2>9. put \in Seq(IniLines) /\ all \in Seq(IniLines) /\ all = AtEndOf(t, New(w))
    BY <1>1, <2>2, <2>8, AppendProperties, BlankIsKept DEF PutThere, AtEndOf, put
  <2>10. /\ Pass(w, put) = [wr EXCEPT !.out = put, !.done = New(w) # <<>>]
         /\ Pass(ReadJob(marks), put) = [rd EXCEPT !.out = @ \o New(w)]
         /\ Pass(RestJob(w), put) = rs
    BY <2>8 DEF PutThere, wr, rd, rs
  <2>11. /\ Pass(w, put) \in PassStates /\ Pass(ReadJob(marks), put) \in PassStates
         /\ Pass(RestJob(w), put) \in PassStates
         /\ Pass(w, all) = Keep(Pass(w, put), Empty)
         /\ Pass(ReadJob(marks), all) = Pass(ReadJob(marks), put)
         /\ Pass(RestJob(w), all) = Keep(Pass(RestJob(w), put), Empty)
    BY <2>3, <2>4, <2>9, PassMore, BlankIsKept
  <2> HIDE DEF all
  <2>12. Keep(Pass(w, put), Empty) = [Keep(wr, Empty) EXCEPT !.out = all, !.done = New(w) # <<>>]
    BY <2>3, <2>10 DEF Keep, PassStates, all
  <2> QED
    BY <2>5, <2>9, <2>10, <2>11, <2>12 DEF PutThere
<1>2. CASE ~(t # <<>> /\ Last(t) = Empty)
  BY <1>2, PutAfter DEF AtEndOf
<1> QED
  BY <1>1, <1>2

-----------------------------------------------------------------------------
\* What is read back of a write that is done, or that is yet to put its lines.
FitsWrite(w, done, read) ==
  CASE w.how = "keyed" ->
         IF done THEN read # <<>> /\ read[1].value = w.value ELSE read = <<>>
    [] w.how = "repeated" -> read = IF done THEN New(w) ELSE <<>>
    [] w.how = "matched" ->
         IF done
         THEN /\ \E i \in DOMAIN read : read[i] = Entry("+", w.value)
              /\ \E i \in DOMAIN read : \A j \in DOMAIN read : read[j].value = OldValue <=> j = i
         ELSE \A i \in DOMAIN read : read[i].value \notin Targets(w)
    [] OTHER -> \A i \in DOMAIN read : read[i].value \notin Targets(w)

\* An entry that is read and not about the write fits.
LEMMA FitsKept ==
  ASSUME NEW w \in InSections, NEW marks \in Wanted(w), NEW done \in BOOLEAN,
         NEW read \in Seq(IniLines), NEW line \in IniLines,
         Marked(line, marks), ~(About(w, line) /\ (w.how = "keyed" => ~done)), FitsWrite(w, done, read)
  PROVE  FitsWrite(w, done, Append(read, line))
<1> DEFINE more == Append(read, line)
<1>1. /\ more \in Seq(IniLines) /\ more # <<>> /\ Len(more) = Len(read) + 1 /\ Len(read) \in Nat
      /\ DOMAIN more = 1..(Len(read) + 1) /\ DOMAIN read = 1..Len(read)
      /\ more[Len(read) + 1] = line /\ \A i \in 1..Len(read) : more[i] = read[i]
  BY AppendProperties, LenProperties
<1> HIDE DEF more
<1>2. CASE w.how = "keyed"
  <2>1. Marked(line, KeyedMarks)
    BY <1>2, MarkSets DEF Wanted, Marked
  <2>2. done /\ read # <<>>
    BY <1>2, <2>1 DEF About, FitsWrite
  <2>3. Len(read) > 0
    BY <1>1, <2>2, EmptySeq
  <2>4. more[1] = read[1]
    BY <1>1, <2>3
  <2> QED
    BY <1>1, <1>2, <2>2, <2>4 DEF FitsWrite, more
<1>3. CASE w.how = "repeated"
  <2>1. Marked(line, LiveMarks)
    BY <1>3, MarkSets DEF Wanted, Marked
  <2> QED
    BY <1>3, <2>1 DEF About
<1>4. CASE w.how \in {"matched", "unmatched"}
  <2>1. line.value \notin Targets(w)
    BY <1>4 DEF Wanted, About
  <2>2. OldValue \in Targets(w)
    BY DEF Targets
  <2>3. CASE w.how = "unmatched" \/ ~done
    <3>1. \A i \in DOMAIN read : read[i].value \notin Targets(w)
      BY <1>4, <2>3 DEF FitsWrite
    <3>2. \A i \in DOMAIN more : more[i].value \notin Targets(w)
      BY <1>1, <2>1, <3>1
    <3> QED
      BY <1>4, <2>3, <3>2 DEF FitsWrite, more
  <2>4. CASE w.how = "matched" /\ done
    <3>1. PICK i \in DOMAIN read : read[i] = Entry("+", w.value)
      BY <2>4 DEF FitsWrite
    <3>2. PICK k \in DOMAIN read : \A j \in DOMAIN read : read[j].value = OldValue <=> j = k
      BY <2>4 DEF FitsWrite
    <3>3. i \in DOMAIN more /\ more[i] = Entry("+", w.value)
      BY <1>1, <3>1
    <3>4. k \in DOMAIN more /\ \A j \in DOMAIN more : more[j].value = OldValue <=> j = k
      BY <1>1, <2>1, <2>2, <3>2
    <3> QED
      BY <2>4, <3>3, <3>4 DEF FitsWrite, more
  <2> QED
    BY <1>4, <2>3, <2>4
<1> QED
  BY <1>2, <1>3, <1>4, JobKinds

\* The new lines fit where there was nothing of the write.
LEMMA FitsPut ==
  ASSUME NEW w \in InSections, NEW read \in Seq(IniLines), FitsWrite(w, FALSE, read)
  PROVE  FitsWrite(w, TRUE, read \o New(w))
<1>0. w \in IniWrites /\ New(w) \in Seq(IniLines)
  BY JobKinds, NewLines
<1>1. CASE w.how = "keyed"
  <2>1. New(w) = <<Entry("", w.value)>> /\ w.value \in IniValues /\ read = <<>>
    BY <1>0, <1>1, NewForms DEF FitsWrite
  <2>2. read \o New(w) = New(w)
    BY <1>0, <2>1, ConcatEmptySeq
  <2>3. <<Entry("", w.value)>>[1] = Entry("", w.value) /\ Entry("", w.value).value = w.value
    BY DEF Entry
  <2>4. New(w)[1].value = w.value /\ New(w) # <<>>
    BY <1>1, <2>1, <2>3, NewLines
  <2> QED
    BY <1>1, <2>2, <2>4 DEF FitsWrite
<1>2. CASE w.how = "repeated"
  BY <1>0, <1>2, ConcatEmptySeq DEF FitsWrite
<1>3. CASE w.how = "unmatched"
  <2>1. read \o New(w) = read
    BY <1>0, <1>3, NewForms, ConcatEmptySeq
  <2> QED
    BY <1>3, <2>1 DEF FitsWrite
<1>4. CASE w.how = "matched"
  <2> DEFINE new == New(w)
             more == read \o new
             N == Len(read)
  <2>1. new = <<Entry("-", OldValue), Entry("+", w.value)>> /\ w.value \in IniValues
    BY <1>0, <1>4, NewForms
  <2>2. Len(new) = 2 /\ new[1] = Entry("-", OldValue) /\ new[2] = Entry("+", w.value)
    <3> HIDE DEF new
    <3> QED
      BY <2>1
  <2>3. more \in Seq(IniLines) /\ N \in Nat /\ Len(more) = N + 2 /\ DOMAIN read = 1..N
        /\ \A i \in 1..(N + 2) : more[i] = IF i <= N THEN read[i] ELSE new[i - N]
    <3>1. new \in Seq(IniLines)
      BY <1>0
    <3> HIDE DEF new
    <3>2. N \in Nat /\ DOMAIN read = 1..N
      BY LenProperties
    <3>3. /\ more \in Seq(IniLines) /\ Len(more) = N + Len(new)
          /\ \A i \in 1..(N + Len(new)) : more[i] = IF i <= N THEN read[i] ELSE new[i - N]
      BY <3>1, ConcatProperties
    <3> QED
      BY <2>2, <3>2, <3>3
  <2>4. DOMAIN more = 1..(N + 2)
    BY <2>3, LenProperties
  <2>5. /\ Entry("-", OldValue).value = OldValue /\ Entry("+", w.value).value = w.value
        /\ w.value # OldValue /\ OldValue \in Targets(w)
    BY <2>1, IniAssumption DEF Entry, Targets
  <2> HIDE DEF new, more, N
  <2>6. more[N + 1] = Entry("-", OldValue) /\ more[N + 2] = Entry("+", w.value)
        /\ \A i \in 1..N : more[i] = read[i]
    <3>1. N + 1 \in 1..(N + 2) /\ N + 2 \in 1..(N + 2) /\ ~(N + 1 <= N) /\ ~(N + 2 <= N)
          /\ (N + 1) - N = 1 /\ (N + 2) - N = 2 /\ \A i \in 1..N : i \in 1..(N + 2) /\ i <= N
      BY <2>3
    <3>2. more[N + 1] = new[1] /\ more[N + 2] = new[2]
      BY <2>3, <3>1
    <3>3. \A i \in 1..N : more[i] = read[i]
      BY <2>3, <3>1
    <3> QED
      BY <2>2, <3>2, <3>3
  <2>7. \A i \in 1..N : read[i].value # OldValue
    BY <1>4, <2>3, <2>5 DEF FitsWrite
  <2>8. \A j \in DOMAIN more : more[j].value = OldValue <=> j = N + 1
    BY <2>3, <2>4, <2>5, <2>6, <2>7
  <2>9. N + 1 \in DOMAIN more /\ N + 2 \in DOMAIN more
    BY <2>3, <2>4
  <2> QED
    BY <1>4, <2>6, <2>8, <2>9 DEF FitsWrite, more, new
<1> QED
  BY <1>1, <1>2, <1>3, <1>4, JobKinds

-----------------------------------------------------------------------------
(* After any part of the file                                              *)

\* What a write has come to after the lines s: a second pass over what is out would leave it
\* as it is, what it is about reads back as it should so far, and the rest is as it was.
SoFar(w, marks, s) ==
  LET end == Pass(w, s) IN
  /\ Pass(w, end.out) = [end EXCEPT !.done = end.done /\ New(w) # <<>>]
  /\ Pass(ReadJob(marks), end.out).inside = end.inside
  /\ FitsWrite(w, end.done, Pass(ReadJob(marks), end.out).out)
  /\ Pass(RestJob(w), end.out) = Pass(RestJob(w), s) /\ Pass(RestJob(w), s).inside = end.inside
  /\ ~end.seen => ~end.inside /\ ~end.done
  /\ end.seen /\ ~end.inside /\ New(w) # <<>> => end.done

\* Before any line.
LEMMA NothingSoFar ==
  ASSUME NEW w \in InSections, NEW marks \in Wanted(w)
  PROVE  SoFar(w, marks, <<>>)
<1>1. /\ Pass(w, <<>>) = NotBegun /\ Pass(ReadJob(marks), <<>>) = NotBegun
      /\ Pass(RestJob(w), <<>>) = NotBegun
  BY JobKinds, PassNothing
<1>2. FitsWrite(w, FALSE, <<>>)
  BY JobKinds DEF FitsWrite
<1>3. NotBegun.out = <<>> /\ ~NotBegun.inside /\ ~NotBegun.seen /\ NotBegun.done = FALSE
  BY DEF NotBegun
<1>5. NotBegun = [NotBegun EXCEPT !.done = FALSE]
  <2>1. NotBegun \in PassStates
    BY DEF NotBegun, PassStates
  <2> QED
    BY <1>3, <2>1 DEF PassStates
<1>4. FALSE = (FALSE /\ New(w) # <<>>)
  OBVIOUS
<1> QED
  BY <1>1, <1>2, <1>3, <1>4, <1>5 DEF SoFar

\* The states that a line more leads to, from those that the lines before led to.
AfterLine(w, marks, s, line) ==
  /\ Pass(w, s) \in PassStates /\ Pass(ReadJob(marks), s) \in PassStates
  /\ Pass(RestJob(w), s) \in PassStates
  /\ Pass(w, Append(s, line)) = TakeLine(w, Pass(w, s), line)
  /\ Pass(ReadJob(marks), Append(s, line)) = TakeLine(ReadJob(marks), Pass(ReadJob(marks), s), line)
  /\ Pass(RestJob(w), Append(s, line)) = TakeLine(RestJob(w), Pass(RestJob(w), s), line)

\* They are the ones that taking the line gives.
LEMMA LineMore ==
  ASSUME NEW w \in InSections, NEW marks \in Wanted(w), NEW s \in Seq(IniLines), NEW line \in IniLines
  PROVE  AfterLine(w, marks, s, line)
BY JobKinds, PassMore DEF AfterLine

\* A line that stays.
LEMMA KeptSoFar ==
  ASSUME NEW w \in InSections, NEW marks \in Wanted(w), NEW s \in Seq(IniLines), NEW line \in IniLines,
         SoFar(w, marks, s), line \notin HeaderLines, ~Goes(w, Pass(w, s), line)
  PROVE  SoFar(w, marks, Append(s, line))
<1> DEFINE end == Pass(w, s)
           o == end.out
           after == Keep(end, line)
           again == Pass(w, o)
           rd == Pass(ReadJob(marks), o)
           rs == Pass(RestJob(w), s)
           rest == TakeLine(RestJob(w), rs, line)
<1>1. end \in PassStates /\ o \in Seq(IniLines) /\ rs \in PassStates
  BY LineMore DEF AfterLine, PassStates
<1>2. again \in PassStates /\ rd \in PassStates
  BY <1>1, LineMore DEF AfterLine
<1> HIDE DEF end, o
<1>3. /\ Pass(w, Append(s, line)) = after /\ after.out = Append(o, line)
      /\ after.inside = end.inside /\ after.seen = end.seen /\ after.done = end.done
  <2>1. Pass(w, Append(s, line)) = TakeLine(w, end, line)
    BY LineMore DEF AfterLine, end
  <2>2. ~Goes(w, end, line)
    BY DEF end
  <2>3. TakeLine(w, end, line) = after
    BY <1>1, <2>2, WriteLine
  <2>4. /\ after.out = Append(o, line)
        /\ after.inside = end.inside /\ after.seen = end.seen /\ after.done = end.done
    BY <1>1 DEF Keep, PassStates, o
  <2> QED
    BY <2>1, <2>3, <2>4
<1>4. /\ again = [end EXCEPT !.done = end.done /\ New(w) # <<>>]
      /\ rd.inside = end.inside /\ FitsWrite(w, end.done, rd.out)
      /\ Pass(RestJob(w), o) = rs /\ rs.inside = end.inside
      /\ ~end.seen => ~end.inside /\ ~end.done
      /\ end.seen /\ ~end.inside /\ New(w) # <<>> => end.done
  BY DEF SoFar, end, o
<1>5. again.inside = end.inside /\ (w.how = "keyed" => again.done = end.done)
  BY <1>1, <1>4, NewLines DEF PassStates
<1> HIDE DEF again, rd, rs
<1>6. ~Goes(w, again, line)
  BY <1>5 DEF Goes, end
<1>7. Pass(w, Append(o, line)) = Keep(again, line)
  <2>1. Pass(w, Append(o, line)) = TakeLine(w, again, line)
    BY <1>1, LineMore DEF AfterLine, again
  <2>2. TakeLine(w, again, line) = Keep(again, line)
    BY <1>2, <1>6, WriteLine
  <2> QED
    BY <2>1, <2>2
<1>8. Keep(again, line) = [after EXCEPT !.done = after.done /\ New(w) # <<>>]
  <2>1. again.out = end.out
    BY <1>1, <1>4 DEF PassStates
  <2> QED
    BY <1>1, <1>4, <2>1 DEF Keep, PassStates
<1>9. /\ Pass(ReadJob(marks), Append(o, line)).inside = after.inside
      /\ FitsWrite(w, after.done, Pass(ReadJob(marks), Append(o, line)).out)
  <2>1. Pass(ReadJob(marks), Append(o, line)) = TakeLine(ReadJob(marks), rd, line)
    BY <1>1, LineMore DEF AfterLine, rd
  <2>2. CASE rd.inside /\ Marked(line, marks)
    <3>1. ~(About(w, line) /\ (w.how = "keyed" => ~end.done))
      BY <1>4, <2>2 DEF Goes, end
    <3>2. FitsWrite(w, end.done, Append(rd.out, line))
      BY <1>1, <1>2, <1>4, <2>2, <3>1, FitsKept DEF PassStates
    <3>3. TakeLine(ReadJob(marks), rd, line) = Keep(rd, line)
      BY <1>2, <2>2, ReadLine
    <3>4. Keep(rd, line).inside = rd.inside /\ Keep(rd, line).out = Append(rd.out, line)
      BY <1>2 DEF Keep, PassStates
    <3> QED
      BY <1>3, <1>4, <2>1, <3>2, <3>3, <3>4
  <2>3. CASE ~(rd.inside /\ Marked(line, marks))
    <3>1. TakeLine(ReadJob(marks), rd, line) = rd
      BY <1>2, <2>3, ReadLine
    <3> QED
      BY <1>3, <1>4, <2>1, <3>1
  <2> QED
    BY <2>2, <2>3
<1>10. /\ Pass(RestJob(w), Append(o, line)) = rest /\ Pass(RestJob(w), Append(s, line)) = rest
       /\ rest.inside = after.inside
  <2>1. Pass(RestJob(w), Append(o, line)) = rest /\ Pass(RestJob(w), Append(s, line)) = rest
    BY <1>1, <1>4, LineMore DEF AfterLine, rs
  <2>2. rest = rs \/ rest = Keep(rs, line)
    BY <1>1, RestLine
  <2>3. Keep(rs, line).inside = rs.inside
    BY <1>1 DEF Keep, PassStates
  <2> QED
    BY <1>3, <1>4, <2>1, <2>2, <2>3
<1> HIDE DEF after, rest
<1> QED
  BY <1>3, <1>4, <1>7, <1>8, <1>9, <1>10 DEF SoFar

\* An entry that is replaced or removed.
LEMMA GoneSoFar ==
  ASSUME NEW w \in InSections, NEW marks \in Wanted(w), NEW s \in Seq(IniLines), NEW line \in IniLines,
         SoFar(w, marks, s), line \notin HeaderLines, Goes(w, Pass(w, s), line)
  PROVE  SoFar(w, marks, Append(s, line))
<1> DEFINE end == Pass(w, s)
           o == end.out
           all == o \o New(w)
           rd == Pass(ReadJob(marks), o)
           rs == Pass(RestJob(w), s)
<1>1. end \in PassStates /\ o \in Seq(IniLines) /\ rs \in PassStates
  BY LineMore DEF AfterLine, PassStates
<1>2. Pass(w, o) \in PassStates /\ rd \in PassStates
  BY <1>1, LineMore DEF AfterLine
<1> HIDE DEF end, o
<1>3. Pass(w, Append(s, line)) =
        [end EXCEPT !.out = IF end.done THEN @ ELSE @ \o New(w), !.done = TRUE]
  <2>1. Pass(w, Append(s, line)) = TakeLine(w, end, line)
    BY LineMore DEF AfterLine, end
  <2>2. Goes(w, end, line)
    BY DEF end
  <2> QED
    BY <1>1, <2>1, <2>2, WriteLine
<1>4. /\ Pass(w, o) = [end EXCEPT !.done = end.done /\ New(w) # <<>>]
      /\ rd.inside = end.inside /\ FitsWrite(w, end.done, rd.out)
      /\ Pass(RestJob(w), o) = rs /\ rs.inside = end.inside
      /\ ~end.seen => ~end.inside /\ ~end.done
      /\ end.inside /\ About(w, line)
  BY DEF SoFar, end, o, Goes
<1>5. Pass(RestJob(w), Append(s, line)) = rs
  <2>1. Pass(RestJob(w), Append(s, line)) = TakeLine(RestJob(w), rs, line)
    BY LineMore DEF AfterLine
  <2> HIDE DEF rs
  <2> QED
    BY <1>1, <1>4, <2>1, RestLine
<1> HIDE DEF rd, rs
<1>6. CASE end.done
  <2>1. Pass(w, Append(s, line)) = end
    BY <1>1, <1>3, <1>6 DEF PassStates
  <2> QED
    BY <1>4, <1>5, <2>1 DEF SoFar, o, rd, rs
<1>7. CASE ~end.done
  <2>1. Pass(w, o).inside /\ ~Pass(w, o).done /\ Pass(w, o).out = o
    BY <1>1, <1>4, <1>7 DEF PassStates, o
  <2>2. OpenAt(w, marks, o)
    BY <1>4, <2>1 DEF OpenAt, rd
  <2>3. PutThere(w, marks, o, all)
    BY <1>1, <2>1, <2>2, PutAfter
  <2> DEFINE after == [end EXCEPT !.out = all, !.done = TRUE]
  <2>4. /\ Pass(w, Append(s, line)) = after /\ after.out = all /\ after.done /\ after.inside
        /\ after.seen = end.seen
    BY <1>1, <1>3, <1>4, <1>7 DEF PassStates, o
  <2>5. Pass(w, all) = [after EXCEPT !.done = after.done /\ New(w) # <<>>]
    <3>1. Pass(w, all) = [Pass(w, o) EXCEPT !.out = all, !.done = New(w) # <<>>]
      BY <2>3 DEF PutThere
    <3> HIDE DEF all
    <3> QED
      BY <1>1, <1>4, <3>1 DEF PassStates
  <2>6. FitsWrite(w, TRUE, rd.out \o New(w))
    <3>1. end.done = FALSE /\ rd.out \in Seq(IniLines)
      BY <1>1, <1>2, <1>7 DEF PassStates
    <3>2. FitsWrite(w, FALSE, rd.out)
      BY <1>4, <3>1
    <3> QED
      BY <3>1, <3>2, FitsPut
  <2>7. Pass(ReadJob(marks), all).inside /\ Pass(ReadJob(marks), all).out = rd.out \o New(w)
    BY <1>2, <1>4, <2>3 DEF PutThere, PassStates, rd
  <2>8. Pass(RestJob(w), all) = rs
    BY <1>4, <2>3 DEF PutThere
  <2> HIDE DEF after, all
  <2>9. after.done = TRUE /\ after.inside = TRUE
    BY <1>1, <1>4, <2>4 DEF PassStates, after
  <2> QED
    BY <1>4, <1>5, <2>4, <2>5, <2>6, <2>7, <2>8, <2>9 DEF SoFar
<1> QED
  BY <1>6, <1>7

\* States that agree in each part are one.
LEMMA SameState ==
  ASSUME NEW a \in PassStates, NEW b \in PassStates,
         a.out = b.out, a.inside = b.inside, a.seen = b.seen, a.done = b.done
  PROVE  a = b
BY DEF PassStates

\* A header at which the section has what it should, or that does not end it.
LEMMA HeaderSoFar ==
  ASSUME NEW w \in InSections, NEW marks \in Wanted(w), NEW s \in Seq(IniLines), NEW line \in HeaderLines,
         SoFar(w, marks, s),
         ~(line = Elsewhere /\ Pass(w, s).inside /\ ~Pass(w, s).done /\ New(w) # <<>>)
  PROVE  SoFar(w, marks, Append(s, line))
<1> DEFINE end == Pass(w, s)
           o == end.out
           after == PassHeader(end, line, New(w))
           again == Pass(w, o)
           rd == Pass(ReadJob(marks), o)
           rs == Pass(RestJob(w), s)
           rest == TakeLine(RestJob(w), rs, line)
<1>0. line \in IniLines /\ (line = Header \/ line = Elsewhere) /\ Header # Elsewhere
  BY LineKinds DEF HeaderLines
<1>1. end \in PassStates /\ o \in Seq(IniLines) /\ rs \in PassStates
  BY <1>0, LineMore DEF AfterLine, PassStates
<1>2. again \in PassStates /\ rd \in PassStates
  BY <1>0, <1>1, LineMore DEF AfterLine
<1>d. ~(line = Elsewhere /\ end.inside /\ ~end.done /\ New(w) # <<>>)
  OBVIOUS
<1> HIDE DEF end, o
<1>3. /\ Pass(w, Append(s, line)) = after /\ after.out = Append(o, line)
      /\ after.inside = (line = Header) /\ after.seen = (end.seen \/ line = Header)
      /\ after.done = end.done
  <2>1. Pass(w, Append(s, line)) = TakeLine(w, end, line)
    BY <1>0, LineMore DEF AfterLine, end
  <2>2. TakeLine(w, end, line) = after
    BY <1>0, <1>1, WriteLine
  <2>3. after = [out |-> Append(end.out, line), inside |-> line = Header,
                 seen |-> end.seen \/ line = Header, done |-> end.done]
    BY <1>d, <1>1 DEF PassHeader, PassStates
  <2> QED
    BY <2>1, <2>2, <2>3 DEF o
<1>4. /\ again = [end EXCEPT !.done = end.done /\ New(w) # <<>>]
      /\ rd.inside = end.inside /\ FitsWrite(w, end.done, rd.out)
      /\ Pass(RestJob(w), o) = rs /\ rs.inside = end.inside
      /\ ~end.seen => ~end.inside /\ ~end.done
      /\ end.seen /\ ~end.inside /\ New(w) # <<>> => end.done
  BY DEF SoFar, end, o
<1> HIDE DEF again, rd, rs
<1>5. /\ again.inside = end.inside /\ again.seen = end.seen /\ again.out = o
      /\ again.done = (end.done /\ New(w) # <<>>)
  BY <1>1, <1>4 DEF PassStates, o
<1>6. Pass(w, Append(o, line)) = PassHeader(again, line, New(w))
  <2>1. Pass(w, Append(o, line)) = TakeLine(w, again, line)
    BY <1>0, <1>1, LineMore DEF AfterLine, again
  <2> QED
    BY <1>0, <1>2, <2>1, WriteLine
<1>7. PassHeader(again, line, New(w)) = [after EXCEPT !.done = after.done /\ New(w) # <<>>]
  <2>1. ~(line = Elsewhere /\ again.inside /\ ~again.done /\ New(w) # <<>>)
    BY <1>d, <1>5
  <2>2. PassHeader(again, line, New(w)) =
          [out |-> Append(o, line), inside |-> line = Header,
           seen |-> end.seen \/ line = Header, done |-> end.done /\ New(w) # <<>>]
    BY <1>2, <1>5, <2>1 DEF PassHeader, PassStates
  <2>3. after = [out |-> Append(o, line), inside |-> line = Header,
                 seen |-> end.seen \/ line = Header, done |-> end.done]
    BY <1>d, <1>1 DEF PassHeader, PassStates, o
  <2> HIDE DEF after
  <2>4. after \in PassStates /\ after.done = end.done /\ after.out = Append(o, line)
        /\ after.inside = (line = Header) /\ after.seen = (end.seen \/ line = Header)
    BY <1>0, <1>1, <2>3, AppendProperties DEF PassStates
  <2> DEFINE second == PassHeader(again, line, New(w))
             first == [after EXCEPT !.done = after.done /\ New(w) # <<>>]
  <2>5. first \in PassStates /\ first.out = Append(o, line) /\ first.inside = (line = Header)
        /\ first.seen = (end.seen \/ line = Header) /\ first.done = (end.done /\ New(w) # <<>>)
    BY <2>4 DEF PassStates
  <2>6. second \in PassStates /\ second.out = Append(o, line) /\ second.inside = (line = Header)
        /\ second.seen = (end.seen \/ line = Header) /\ second.done = (end.done /\ New(w) # <<>>)
    BY <1>0, <1>1, <2>2, AppendProperties DEF PassStates
  <2> HIDE DEF first, second
  <2>7. first = second
    BY <2>5, <2>6, SameState
  <2> QED
    BY <2>7 DEF first, second
<1>8. /\ Pass(ReadJob(marks), Append(o, line)).inside = after.inside
      /\ FitsWrite(w, after.done, Pass(ReadJob(marks), Append(o, line)).out)
  <2>1. Pass(ReadJob(marks), Append(o, line)) = TakeLine(ReadJob(marks), rd, line)
    BY <1>0, <1>1, LineMore DEF AfterLine, rd
  <2>2. TakeLine(ReadJob(marks), rd, line) = [rd EXCEPT !.inside = (line = Header)]
    BY <1>0, <1>2, ReadLine
  <2>3. /\ [rd EXCEPT !.inside = (line = Header)].inside = (line = Header)
        /\ [rd EXCEPT !.inside = (line = Header)].out = rd.out
    BY <1>2 DEF PassStates
  <2> QED
    BY <1>3, <1>4, <2>1, <2>2, <2>3
<1>9. /\ Pass(RestJob(w), Append(o, line)) = rest /\ Pass(RestJob(w), Append(s, line)) = rest
      /\ rest.inside = after.inside
  <2>1. Pass(RestJob(w), Append(o, line)) = rest /\ Pass(RestJob(w), Append(s, line)) = rest
    BY <1>0, <1>1, <1>4, LineMore DEF AfterLine, rs
  <2>2. rest = [Keep(rs, line) EXCEPT !.inside = (line = Header)]
    BY <1>0, <1>1, RestLine
  <2>3. [Keep(rs, line) EXCEPT !.inside = (line = Header)].inside = (line = Header)
    BY <1>1 DEF Keep, PassStates
  <2> QED
    BY <1>3, <2>1, <2>2, <2>3
<1>10. /\ ~after.seen => ~after.inside /\ ~after.done
       /\ after.seen /\ ~after.inside /\ New(w) # <<>> => after.done
  BY <1>0, <1>d, <1>3, <1>4
<1> HIDE DEF after, rest
<1> QED
  BY <1>3, <1>6, <1>7, <1>8, <1>9, <1>10 DEF SoFar

\* A header that ends a section which still lacks what is written.
LEMMA LackSoFar ==
  ASSUME NEW w \in InSections, NEW marks \in Wanted(w), NEW s \in Seq(IniLines),
         SoFar(w, marks, s), Pass(w, s).inside, ~Pass(w, s).done, New(w) # <<>>
  PROVE  SoFar(w, marks, Append(s, Elsewhere))
<1> DEFINE end == Pass(w, s)
           o == end.out
           put == AtEndOf(o, New(w))
           all == Append(put, Elsewhere)
           after == PassHeader(end, Elsewhere, New(w))
           rd == Pass(ReadJob(marks), o)
           rs == Pass(RestJob(w), s)
<1>0. Elsewhere \in IniLines /\ Elsewhere \in HeaderLines /\ Header # Elsewhere
  BY LineKinds
<1>1. end \in PassStates /\ o \in Seq(IniLines) /\ rs \in PassStates
  BY <1>0, LineMore DEF AfterLine, PassStates
<1>2. Pass(w, o) \in PassStates /\ rd \in PassStates
  BY <1>0, <1>1, LineMore DEF AfterLine
<1>i. end.inside = TRUE /\ end.done = FALSE
  BY <1>1 DEF PassStates
<1> HIDE DEF end, o
<1>3. /\ Pass(w, Append(s, Elsewhere)) = after
      /\ after = [out |-> all, inside |-> FALSE, seen |-> end.seen, done |-> TRUE]
  <2>1. Pass(w, Append(s, Elsewhere)) = TakeLine(w, end, Elsewhere)
    BY <1>0, LineMore DEF AfterLine, end
  <2>2. TakeLine(w, end, Elsewhere) = after
    BY <1>0, <1>1, WriteLine
  <2>3. after = [out |-> all, inside |-> FALSE, seen |-> end.seen, done |-> TRUE]
    BY <1>0, <1>1, <1>i DEF PassHeader, PassStates, o
  <2> QED
    BY <2>1, <2>2, <2>3
<1>4. /\ Pass(w, o) = [end EXCEPT !.done = end.done /\ New(w) # <<>>]
      /\ rd.inside = end.inside /\ FitsWrite(w, end.done, rd.out)
      /\ Pass(RestJob(w), o) = rs /\ rs.inside = end.inside
      /\ ~end.seen => ~end.inside /\ ~end.done
  BY DEF SoFar, end, o
<1> HIDE DEF rd, rs
<1>5. Pass(w, o).inside /\ ~Pass(w, o).done /\ Pass(w, o).out = o
  BY <1>1, <1>4, <1>i DEF PassStates, o
<1>6. OpenAt(w, marks, o)
  BY <1>4, <1>5, <1>i DEF OpenAt, rd
<1>7. PutThere(w, marks, o, put)
  BY <1>1, <1>5, <1>6, PutAtEnd
<1>8. put \in Seq(IniLines)
  BY <1>7 DEF PutThere
<1> HIDE DEF put
<1>9. /\ Pass(w, put) \in PassStates /\ Pass(ReadJob(marks), put) \in PassStates
      /\ Pass(RestJob(w), put) = rs
      /\ Pass(w, all) = TakeLine(w, Pass(w, put), Elsewhere)
      /\ Pass(ReadJob(marks), all) = TakeLine(ReadJob(marks), Pass(ReadJob(marks), put), Elsewhere)
      /\ Pass(RestJob(w), all) = TakeLine(RestJob(w), rs, Elsewhere)
      /\ Pass(RestJob(w), Append(s, Elsewhere)) = TakeLine(RestJob(w), rs, Elsewhere)
  <2>1. Pass(RestJob(w), put) = rs
    BY <1>4, <1>7 DEF PutThere
  <2>2. AfterLine(w, marks, put, Elsewhere) /\ AfterLine(w, marks, s, Elsewhere)
    BY <1>0, <1>8, LineMore
  <2> QED
    BY <2>1, <2>2 DEF AfterLine, rs
<1>10. Pass(w, all) = [out |-> all, inside |-> FALSE, seen |-> end.seen, done |-> TRUE]
  <2>1. Pass(w, put) = [out |-> put, inside |-> TRUE, seen |-> end.seen, done |-> TRUE]
    <3>1. Pass(w, put) = [Pass(w, o) EXCEPT !.out = put, !.done = TRUE]
      BY <1>7 DEF PutThere
    <3> QED
      BY <1>1, <1>4, <1>i, <3>1 DEF PassStates
  <2>2. Pass(w, all) = PassHeader(Pass(w, put), Elsewhere, New(w))
    BY <1>0, <1>9, WriteLine
  <2>3. end.seen \in BOOLEAN
    BY <1>1 DEF PassStates
  <2> DEFINE st == Pass(w, put)
  <2>4. st.out = put /\ st.inside = TRUE /\ st.seen = end.seen /\ st.done = TRUE
    BY <2>1
  <2> HIDE DEF st
  <2>5. PassHeader(st, Elsewhere, New(w)) =
          [out |-> all, inside |-> FALSE, seen |-> end.seen, done |-> TRUE]
    BY <1>0, <2>3, <2>4 DEF PassHeader
  <2> QED
    BY <2>2, <2>5 DEF st
<1>11. /\ Pass(ReadJob(marks), all).inside = FALSE
       /\ FitsWrite(w, TRUE, Pass(ReadJob(marks), all).out)
  <2>1. Pass(ReadJob(marks), put).out = rd.out \o New(w)
    BY <1>2, <1>7 DEF PutThere, PassStates, rd
  <2>2. Pass(ReadJob(marks), all) = [Pass(ReadJob(marks), put) EXCEPT !.inside = (Elsewhere = Header)]
    BY <1>0, <1>9, ReadLine
  <2>3. /\ Pass(ReadJob(marks), all).inside = (Elsewhere = Header)
        /\ Pass(ReadJob(marks), all).out = Pass(ReadJob(marks), put).out
    BY <1>9, <2>2 DEF PassStates
  <2>4. rd.out \in Seq(IniLines) /\ FitsWrite(w, FALSE, rd.out)
    BY <1>2, <1>4, <1>i DEF PassStates
  <2>5. FitsWrite(w, TRUE, rd.out \o New(w))
    BY <2>4, FitsPut
  <2> QED
    BY <1>0, <2>1, <2>3, <2>5
<1>12. TakeLine(RestJob(w), rs, Elsewhere).inside = FALSE
  <2>1. TakeLine(RestJob(w), rs, Elsewhere) = [Keep(rs, Elsewhere) EXCEPT !.inside = (Elsewhere = Header)]
    BY <1>0, <1>1, RestLine
  <2>2. [Keep(rs, Elsewhere) EXCEPT !.inside = (Elsewhere = Header)].inside = (Elsewhere = Header)
    BY <1>1 DEF Keep, PassStates
  <2> QED
    BY <1>0, <2>1, <2>2
<1>13. end.seen
  BY <1>4, <1>i
<1> HIDE DEF all, after
<1>14. /\ after.out = all /\ after.inside = FALSE /\ after.seen = end.seen /\ after.done = TRUE
       /\ [after EXCEPT !.done = after.done /\ New(w) # <<>>] = after
  <2>1. after.out = all /\ after.inside = FALSE /\ after.seen = end.seen /\ after.done = TRUE
    BY <1>3
  <2>2. after \in PassStates
    BY <1>1, <1>3, <1>8, AppendProperties, <1>0 DEF PassStates, all
  <2>3. (after.done /\ New(w) # <<>>) = TRUE
    BY <2>1
  <2>4. [after EXCEPT !.done = TRUE] = after
    BY <2>1, <2>2 DEF PassStates
  <2> QED
    BY <2>1, <2>3, <2>4
<1> QED
  BY <1>3, <1>9, <1>10, <1>11, <1>12, <1>13, <1>14 DEF SoFar

\* After any lines.
LEMMA AlwaysSoFar ==
  ASSUME NEW w \in InSections, NEW marks \in Wanted(w), NEW s \in Seq(IniLines)
  PROVE  SoFar(w, marks, s)
<1> DEFINE T == {t \in Seq(IniLines) : SoFar(w, marks, t)}
<1>1. <<>> \in T
  BY NothingSoFar
<1>2. ASSUME NEW t \in Seq(IniLines), NEW line \in IniLines, t \in T PROVE Append(t, line) \in T
  <2>1. Append(t, line) \in Seq(IniLines) /\ SoFar(w, marks, t)
    BY <1>2, AppendProperties
  <2>2. CASE line \notin HeaderLines
    BY <2>1, <2>2, KeptSoFar, GoneSoFar
  <2>3. CASE line \in HeaderLines
    BY <2>1, <2>3, HeaderSoFar, LackSoFar
  <2> QED
    BY <2>2, <2>3
<1> HIDE DEF T
<1>3. s \in T
  BY <1>1, <1>2, SequenceInduction
<1> QED
  BY <1>3 DEF T

-----------------------------------------------------------------------------
(* The end of the file                                                     *)

\* What the end of the file adds leaves a file that a second write would not change, that
\* reads back as it should, with the rest as it was or a section more.
Ended(w, marks, s, m) ==
  /\ m \in Seq(IniLines) /\ Finish(Pass(w, m), New(w)) = m
  /\ FitsWrite(w, TRUE, Pass(ReadJob(marks), m).out)
  /\ Pass(RestJob(w), m).out \in
       {Pass(RestJob(w), s).out, Pass(RestJob(w), s).out \o <<Empty, Header>>}

\* A section that was never there is made.
LEMMA SectionMade ==
  ASSUME NEW w \in InSections, NEW marks \in Wanted(w), NEW s \in Seq(IniLines),
         ~Pass(w, s).seen, New(w) # <<>>
  PROVE  Ended(w, marks, s, Finish(Pass(w, s), New(w)))
<1> DEFINE end == Pass(w, s)
           o == end.out
           one == Append(o, Empty)
           two == Append(one, Header)
           all == two \o New(w)
           rd == Pass(ReadJob(marks), o)
           rs == Pass(RestJob(w), s)
<1>0. /\ Header \in IniLines /\ Header \in HeaderLines /\ Empty \in IniLines /\ Empty \notin HeaderLines
      /\ Header # Elsewhere
  BY LineKinds
<1>1. end \in PassStates /\ o \in Seq(IniLines) /\ rs \in PassStates
  BY <1>0, LineMore DEF AfterLine, PassStates
<1>2. /\ rd \in PassStates /\ one \in Seq(IniLines) /\ two \in Seq(IniLines)
      /\ AfterLine(w, marks, o, Empty) /\ AfterLine(w, marks, one, Header) /\ AfterLine(w, marks, two, Header)
  <2>1. one \in Seq(IniLines) /\ two \in Seq(IniLines)
    BY <1>0, <1>1, AppendProperties
  <2> HIDE DEF one, two, o
  <2>2. AfterLine(w, marks, o, Empty) /\ AfterLine(w, marks, one, Header) /\ AfterLine(w, marks, two, Header)
    BY <1>0, <1>1, <2>1, LineMore
  <2> QED
    BY <2>1, <2>2 DEF AfterLine
<1>3. Finish(end, New(w)) = all
  <2>1. Finish(end, New(w)) = (o \o <<Empty, Header>>) \o New(w)
    BY DEF Finish
  <2>2. o \o <<Empty, Header>> = two
    BY <1>0, <1>1, OneOrTwo
  <2> QED
    BY <2>1, <2>2
<1>4. SoFar(w, marks, s)
  BY AlwaysSoFar
<1>5. /\ end.seen = FALSE /\ end.inside = FALSE /\ end.done = FALSE
      /\ Pass(w, o) = end /\ rd.inside = FALSE /\ FitsWrite(w, FALSE, rd.out)
      /\ Pass(RestJob(w), o) = rs /\ rs.inside = FALSE
  <2>1. end.seen = FALSE /\ end.inside = FALSE /\ end.done = FALSE
    BY <1>1, <1>4 DEF SoFar, PassStates
  <2>2. Pass(w, o) = [end EXCEPT !.done = end.done /\ New(w) # <<>>]
    BY <1>4 DEF SoFar
  <2>3. Pass(w, o) = end
    BY <1>1, <2>1, <2>2 DEF PassStates
  <2> QED
    BY <1>4, <2>1, <2>3 DEF SoFar
<1> HIDE DEF end, rd, rs, o, one, two
<1>6. /\ ~Goes(w, end, Empty) /\ ~Marked(Empty, marks) /\ ~About(w, Empty)
  BY BlankIsKept DEF Goes
<1>7. Pass(w, one) = Keep(end, Empty) /\ Pass(ReadJob(marks), one) = rd
      /\ Pass(RestJob(w), one) = Keep(rs, Empty)
  <2>1. /\ Pass(w, one) = TakeLine(w, end, Empty)
        /\ Pass(ReadJob(marks), one) = TakeLine(ReadJob(marks), rd, Empty)
        /\ Pass(RestJob(w), one) = TakeLine(RestJob(w), rs, Empty)
    BY <1>2, <1>5 DEF AfterLine, one, rd
  <2>2. TakeLine(w, end, Empty) = Keep(end, Empty)
    BY <1>0, <1>1, <1>6, WriteLine
  <2>3. TakeLine(ReadJob(marks), rd, Empty) = rd
    BY <1>0, <1>2, <1>6, ReadLine
  <2>4. TakeLine(RestJob(w), rs, Empty) = Keep(rs, Empty)
    BY <1>0, <1>1, <1>6, RestLine
  <2> QED
    BY <2>1, <2>2, <2>3, <2>4
<1>8. /\ Pass(w, one) \in PassStates /\ Pass(RestJob(w), one) \in PassStates
      /\ Pass(w, one).inside = FALSE /\ Pass(w, one).done = FALSE /\ Pass(w, one).out = one
      /\ Pass(RestJob(w), one).out = Append(rs.out, Empty)
  BY <1>1, <1>2, <1>5, <1>7 DEF Keep, PassStates, AfterLine, one, o
<1>9. /\ Pass(w, two).inside = TRUE /\ Pass(w, two).done = FALSE /\ Pass(w, two).out = two
      /\ Pass(w, two).seen = TRUE
  <2>1. Pass(w, two) = PassHeader(Pass(w, one), Header, New(w))
    BY <1>0, <1>2, <1>8, WriteLine DEF AfterLine, two
  <2> DEFINE st == Pass(w, one)
  <2>2. st.inside = FALSE /\ st.done = FALSE /\ st.out = one
    BY <1>8
  <2> HIDE DEF st
  <2>3. /\ PassHeader(st, Header, New(w)).inside = TRUE /\ PassHeader(st, Header, New(w)).done = FALSE
        /\ PassHeader(st, Header, New(w)).out = Append(one, Header)
        /\ PassHeader(st, Header, New(w)).seen = TRUE
    BY <1>0, <2>2 DEF PassHeader
  <2> QED
    BY <2>1, <2>3 DEF st, two
<1>10. Pass(ReadJob(marks), two).inside = TRUE /\ Pass(ReadJob(marks), two).out = rd.out
  <2>1. Pass(ReadJob(marks), two) = [rd EXCEPT !.inside = (Header = Header)]
    BY <1>0, <1>2, <1>7, ReadLine DEF AfterLine, two
  <2> QED
    BY <1>2, <2>1 DEF PassStates
<1>11. Pass(RestJob(w), two).inside = TRUE /\ Pass(RestJob(w), two).out = Append(Append(rs.out, Empty), Header)
  <2>1. Pass(RestJob(w), two) = [Keep(Pass(RestJob(w), one), Header) EXCEPT !.inside = (Header = Header)]
    BY <1>0, <1>2, <1>8, RestLine DEF AfterLine, two
  <2> DEFINE st == Pass(RestJob(w), one)
  <2>2. st \in PassStates /\ st.out = Append(rs.out, Empty)
    BY <1>8
  <2> HIDE DEF st
  <2>3. /\ [Keep(st, Header) EXCEPT !.inside = (Header = Header)].inside = TRUE
        /\ [Keep(st, Header) EXCEPT !.inside = (Header = Header)].out = Append(st.out, Header)
    BY <2>2 DEF Keep, PassStates
  <2> QED
    BY <2>1, <2>2, <2>3 DEF st
<1>12. PutThere(w, marks, two, all)
  <2>1. OpenAt(w, marks, two)
    BY <1>9, <1>10, <1>11 DEF OpenAt
  <2> QED
    BY <1>2, <1>9, <2>1, PutAfter
<1> HIDE DEF all
<1>13. Finish(Pass(w, all), New(w)) = all
  <2> DEFINE st == Pass(w, two)
  <2>1. Pass(w, all) = [st EXCEPT !.out = all, !.done = New(w) # <<>>]
    BY <1>12 DEF PutThere
  <2>2. st \in PassStates /\ st.seen = TRUE
    BY <1>2, <1>9 DEF AfterLine
  <2> HIDE DEF st
  <2>3. Pass(w, all).seen = TRUE /\ Pass(w, all).done = TRUE /\ Pass(w, all).out = all
    BY <2>1, <2>2 DEF PassStates
  <2> QED
    BY <2>3 DEF Finish
<1>14. FitsWrite(w, TRUE, Pass(ReadJob(marks), all).out)
  <2>1. Pass(ReadJob(marks), all).out = rd.out \o New(w)
    BY <1>2, <1>10, <1>12 DEF PutThere, PassStates, AfterLine
  <2>2. rd.out \in Seq(IniLines)
    BY <1>2 DEF PassStates
  <2> QED
    BY <1>5, <2>1, <2>2, FitsPut
<1>15. Pass(RestJob(w), all).out = rs.out \o <<Empty, Header>>
  <2>1. rs.out \in Seq(IniLines)
    BY <1>1 DEF PassStates
  <2>2. rs.out \o <<Empty, Header>> = Append(Append(rs.out, Empty), Header)
    BY <1>0, <2>1, OneOrTwo
  <2> QED
    BY <1>11, <1>12, <2>2 DEF PutThere
<1>16. all \in Seq(IniLines)
  BY <1>12 DEF PutThere
<1> QED
  BY <1>3, <1>13, <1>14, <1>15, <1>16 DEF Ended, end, rs

\* One that is there and lacks what is written gets it.
LEMMA SectionFilled ==
  ASSUME NEW w \in InSections, NEW marks \in Wanted(w), NEW s \in Seq(IniLines),
         Pass(w, s).seen, Pass(w, s).inside, ~Pass(w, s).done
  PROVE  Ended(w, marks, s, Finish(Pass(w, s), New(w)))
<1> DEFINE end == Pass(w, s)
           o == end.out
           all == o \o New(w)
           rd == Pass(ReadJob(marks), o)
           rs == Pass(RestJob(w), s)
<1>1. end \in PassStates /\ o \in Seq(IniLines) /\ rs \in PassStates
  BY LineMore, LineKinds DEF AfterLine, PassStates
<1>2. rd \in PassStates /\ rd.out \in Seq(IniLines)
  BY <1>1, LineMore, LineKinds DEF AfterLine, PassStates
<1>3. SoFar(w, marks, s)
  BY AlwaysSoFar
<1>4. Finish(end, New(w)) = all
  BY DEF Finish
<1>5. end.seen = TRUE /\ end.inside = TRUE /\ end.done = FALSE
  BY <1>1 DEF PassStates
<1> HIDE DEF end, o
<1>6. /\ Pass(w, o) = [end EXCEPT !.done = end.done /\ New(w) # <<>>]
      /\ rd.inside = TRUE /\ FitsWrite(w, FALSE, rd.out)
      /\ Pass(RestJob(w), o) = rs /\ rs.inside = TRUE
  BY <1>3, <1>5 DEF SoFar, end, o
<1> HIDE DEF rd, rs
<1>7. Pass(w, o) = end
  BY <1>1, <1>5, <1>6 DEF PassStates
<1>8. PutThere(w, marks, o, all)
  <2>1. OpenAt(w, marks, o) /\ Pass(w, o).out = o
    BY <1>5, <1>6, <1>7 DEF OpenAt, rd, o
  <2> QED
    BY <1>1, <2>1, PutAfter
<1>9. Finish(Pass(w, all), New(w)) = all
  <2>0. all \o <<>> = all
    BY <1>8, ConcatEmptySeq DEF PutThere
  <2> HIDE DEF all
  <2>1. Pass(w, all) = [end EXCEPT !.out = all, !.done = New(w) # <<>>]
    BY <1>7, <1>8 DEF PutThere
  <2>2. /\ Pass(w, all).seen = TRUE /\ (Pass(w, all).done <=> New(w) # <<>>)
        /\ Pass(w, all).out = all
    BY <1>1, <1>5, <2>1 DEF PassStates
  <2> QED
    BY <2>0, <2>2 DEF Finish
<1>10. FitsWrite(w, TRUE, Pass(ReadJob(marks), all).out)
  <2>1. Pass(ReadJob(marks), all).out = rd.out \o New(w)
    BY <1>2, <1>8 DEF PutThere, PassStates, rd
  <2> QED
    BY <1>2, <1>6, <2>1, FitsPut
<1>11. Pass(RestJob(w), all) = rs /\ all \in Seq(IniLines)
  BY <1>6, <1>8 DEF PutThere
<1> HIDE DEF all
<1> QED
  BY <1>4, <1>9, <1>10, <1>11 DEF Ended, end, rs

\* Otherwise there is nothing to do.
LEMMA NothingLeft ==
  ASSUME NEW w \in InSections, NEW marks \in Wanted(w), NEW s \in Seq(IniLines),
         ~(~Pass(w, s).seen /\ New(w) # <<>>),
         ~(Pass(w, s).seen /\ Pass(w, s).inside /\ ~Pass(w, s).done)
  PROVE  Ended(w, marks, s, Finish(Pass(w, s), New(w)))
<1> DEFINE end == Pass(w, s)
           o == end.out
           rd == Pass(ReadJob(marks), o)
           rs == Pass(RestJob(w), s)
<1>1. end \in PassStates /\ o \in Seq(IniLines)
  BY LineMore, LineKinds DEF AfterLine, PassStates
<1>2. rd.out \in Seq(IniLines)
  BY <1>1, LineMore, LineKinds DEF AfterLine, PassStates
<1>3. SoFar(w, marks, s)
  BY AlwaysSoFar
<1>4. Finish(end, New(w)) = o
  BY DEF Finish
<1>5. ~(~end.seen /\ New(w) # <<>>) /\ ~(end.seen /\ end.inside /\ ~end.done)
  OBVIOUS
<1> HIDE DEF end, o
<1>6. /\ Pass(w, o) = [end EXCEPT !.done = end.done /\ New(w) # <<>>]
      /\ FitsWrite(w, end.done, rd.out) /\ Pass(RestJob(w), o) = rs
      /\ end.seen /\ ~end.inside /\ New(w) # <<>> => end.done
  BY <1>3 DEF SoFar, end, o
<1> HIDE DEF rd, rs
<1>7. New(w) # <<>> => end.done = TRUE /\ end.seen = TRUE
  BY <1>1, <1>5, <1>6 DEF PassStates
<1>8. Finish(Pass(w, o), New(w)) = o
  <2>1. Pass(w, o).out = o /\ Pass(w, o).seen = end.seen /\ (Pass(w, o).done <=> end.done /\ New(w) # <<>>)
    BY <1>1, <1>6 DEF PassStates, o
  <2>2. o \o <<>> = o
    BY <1>1, ConcatEmptySeq
  <2> QED
    BY <1>7, <2>1, <2>2 DEF Finish
<1>9. FitsWrite(w, TRUE, rd.out)
  <2>1. CASE end.done
    <3>1. end.done = TRUE
      BY <1>1, <2>1 DEF PassStates
    <3> QED
      BY <1>6, <3>1
  <2>2. CASE ~end.done
    <3>1. end.done = FALSE /\ New(w) = <<>>
      BY <1>1, <1>7, <2>2 DEF PassStates
    <3>2. FitsWrite(w, TRUE, rd.out \o New(w))
      BY <1>2, <1>6, <3>1, FitsPut
    <3>3. rd.out \o New(w) = rd.out
      BY <1>2, <3>1, ConcatEmptySeq
    <3> QED
      BY <3>2, <3>3
  <2> QED
    BY <2>1, <2>2
<1> QED
  BY <1>1, <1>4, <1>6, <1>8, <1>9 DEF Ended, end, rs, rd

\* A write by sections does what it was asked, for any file.
LEMMA SectionAsAsked ==
  ASSUME NEW w \in InSections, NEW s \in Seq(IniLines)
  PROVE  /\ Apply(s, w) \in Seq(IniLines) /\ Apply(Apply(s, w), w) = Apply(s, w)
         /\ ReadsBack(w, Apply(s, w)) /\ RestKept(w, s, Apply(s, w))
<1> DEFINE m == Finish(Pass(w, s), New(w))
<1>1. /\ \A lines : Apply(lines, w) = Finish(Pass(w, lines), New(w))
      /\ w.how \in {"keyed", "matched", "unmatched", "repeated"}
  BY JobKinds DEF Apply
<1> HIDE DEF m
<1>2. ASSUME NEW marks \in Wanted(w) PROVE Ended(w, marks, s, m)
  BY SectionMade, SectionFilled, NothingLeft DEF m
<1>3. \E marks : marks \in Wanted(w)
  BY <1>1 DEF Wanted
<1>4. m \in Seq(IniLines) /\ Finish(Pass(w, m), New(w)) = m /\ RestKept(w, s, m)
  BY <1>2, <1>3 DEF Ended, RestKept, RestJob
<1>5. \A marks \in Wanted(w) : FitsWrite(w, TRUE, Under(m, marks))
  BY <1>2 DEF Ended, Under, ReadJob
<1>6. ReadsBack(w, m)
  <2>1. CASE w.how = "keyed"
    BY <1>5, <2>1 DEF Wanted, FitsWrite, ReadsBack, ReadKeyed
  <2>2. CASE w.how = "repeated"
    BY <1>5, <2>2 DEF Wanted, FitsWrite, ReadsBack, ReadRepeated
  <2>3. CASE w.how = "matched"
    BY <1>5, <2>3 DEF Wanted, FitsWrite, ReadsBack
  <2>4. CASE w.how = "unmatched"
    BY <1>5, <2>4 DEF Wanted, FitsWrite, ReadsBack
  <2> QED
    BY <1>1, <2>1, <2>2, <2>3, <2>4
<1> QED
  BY <1>1, <1>4, <1>6 DEF m

-----------------------------------------------------------------------------
(* Flat files                                                              *)

FlatJob == [how |-> "readflat", marks |-> {""}]
FlatWrites == {w \in IniWrites : w.how = "flat"}

\* The same, of a write to a flat file.
FlatSoFar(w, s) ==
  LET end == Pass(w, s)
      read == Pass(FlatJob, end.out).out IN
  /\ Pass(w, end.out) = end
  /\ IF end.done THEN read # <<>> /\ read[1].value = w.value ELSE read = <<>>
  /\ Pass(RestJob(w), end.out).out = Pass(RestJob(w), s).out

\* What a write puts in a flat file.
LEMMA FlatEntry ==
  ASSUME NEW w \in FlatWrites
  PROVE  /\ w \in IniWrites /\ w.how = "flat" /\ New(w) = <<Entry("", w.value)>>
         /\ Entry("", w.value) \in IniLines /\ Entry("", w.value).value = w.value
         /\ Marked(Entry("", w.value), {""}) /\ Marked(Entry("", w.value), KeyedMarks)
<1>1. w \in IniWrites /\ w.how = "flat"
  BY DEF FlatWrites
<1>2. New(w) = <<Entry("", w.value)>> /\ w.value \in IniValues
  BY <1>1, NewForms
<1>3. Entry("", w.value) \in IniLines
  BY <1>2, EntryKinds, MarkSets DEF AllValues
<1>4. Marked(Entry("", w.value), {""}) /\ Marked(Entry("", w.value), KeyedMarks)
      /\ Entry("", w.value).value = w.value
  BY MarkSets DEF Marked, IsEntry, Entry
<1> QED
  BY <1>1, <1>2, <1>3, <1>4

\* What it does with a line.
LEMMA FlatLine ==
  ASSUME NEW w \in FlatWrites, NEW state \in PassStates, NEW line \in IniLines
  PROVE  TakeLine(w, state, line) =
           IF ~state.done /\ Marked(line, KeyedMarks)
           THEN [state EXCEPT !.out = Append(@, Entry("", w.value)), !.done = TRUE]
           ELSE Keep(state, line)
<1>1. state.out \o New(w) = Append(state.out, Entry("", w.value))
  BY FlatEntry, OneOrTwo DEF PassStates
<1>2. TakeLine(w, state, line) = UpsertFlat(state, line, New(w))
  BY FlatEntry DEF TakeLine
<1> QED
  BY <1>1, <1>2 DEF UpsertFlat

\* What is read of it.
LEMMA FlatRead ==
  ASSUME NEW state \in PassStates, NEW line \in IniLines
  PROVE  TakeLine(FlatJob, state, line).out =
           IF Marked(line, {""}) THEN Append(state.out, line) ELSE state.out
<1>1. TakeLine(FlatJob, state, line) = ReadAnywhere(state, line, {""})
  BY DEF TakeLine, FlatJob
<1>2. Keep(state, line).out = Append(state.out, line)
  BY DEF Keep, PassStates
<1> QED
  BY <1>1, <1>2 DEF ReadAnywhere

\* What is left alone of it.
LEMMA FlatRest ==
  ASSUME NEW w \in FlatWrites, NEW state \in PassStates, NEW line \in IniLines
  PROVE  TakeLine(RestJob(w), state, line).out =
           IF Marked(line, KeyedMarks) THEN state.out ELSE Append(state.out, line)
<1>1. TakeLine(RestJob(w), state, line) = RestOf(state, line, w)
  BY DEF TakeLine, RestJob
<1>2. Spared(w, state, line) <=> ~Marked(line, KeyedMarks)
  BY FlatEntry DEF Spared
<1>3. line \in HeaderLines => ~Marked(line, KeyedMarks)
  BY LineKinds
<1>4. /\ Keep(state, line).out = Append(state.out, line)
      /\ [Keep(state, line) EXCEPT !.inside = (line = Header)].out = Append(state.out, line)
  BY DEF Keep, PassStates
<1> QED
  BY <1>1, <1>2, <1>3, <1>4 DEF RestOf

\* A write to a flat file, its reading back and the look at what it spares are jobs.
LEMMA FlatJobs == ASSUME NEW w \in FlatWrites PROVE w \in Jobs /\ RestJob(w) \in Jobs /\ FlatJob \in Jobs
<1>1. w \in Jobs /\ RestJob(w) \in Jobs
  BY DEF FlatWrites, Jobs, RestJob, Sparings
<1>2. {""} \in SUBSET Marks
  BY DEF Marks
<1>3. FlatJob \in Jobs
  BY <1>2 DEF FlatJob, Jobs, Readings
<1> QED
  BY <1>1, <1>3

\* What a line more comes to.
LEMMA FlatMore ==
  ASSUME NEW w \in FlatWrites, NEW s \in Seq(IniLines), NEW line \in IniLines
  PROVE  /\ Pass(w, s) \in PassStates /\ Pass(w, Append(s, line)) = TakeLine(w, Pass(w, s), line)
         /\ Pass(FlatJob, Append(s, line)).out =
              IF Marked(line, {""}) THEN Append(Pass(FlatJob, s).out, line) ELSE Pass(FlatJob, s).out
         /\ Pass(RestJob(w), Append(s, line)).out =
              IF Marked(line, KeyedMarks) THEN Pass(RestJob(w), s).out
              ELSE Append(Pass(RestJob(w), s).out, line)
         /\ Pass(FlatJob, s).out \in Seq(IniLines)
<1>1. /\ Pass(w, s) \in PassStates /\ Pass(FlatJob, s) \in PassStates /\ Pass(RestJob(w), s) \in PassStates
      /\ Pass(w, Append(s, line)) = TakeLine(w, Pass(w, s), line)
      /\ Pass(FlatJob, Append(s, line)) = TakeLine(FlatJob, Pass(FlatJob, s), line)
      /\ Pass(RestJob(w), Append(s, line)) = TakeLine(RestJob(w), Pass(RestJob(w), s), line)
  BY FlatJobs, PassMore
<1>2. Pass(FlatJob, s).out \in Seq(IniLines)
  BY <1>1 DEF PassStates
<1> DEFINE rd == Pass(FlatJob, s)
           rs == Pass(RestJob(w), s)
<1>3. rd \in PassStates /\ rs \in PassStates
  BY <1>1
<1> HIDE DEF rd, rs
<1>4. TakeLine(FlatJob, rd, line).out = IF Marked(line, {""}) THEN Append(rd.out, line) ELSE rd.out
  BY <1>3, FlatRead
<1>5. TakeLine(RestJob(w), rs, line).out =
        IF Marked(line, KeyedMarks) THEN rs.out ELSE Append(rs.out, line)
  BY <1>3, FlatRest
<1> QED
  BY <1>1, <1>2, <1>4, <1>5 DEF rd, rs

\* The entry put after lines that had none.
LEMMA FlatPut ==
  ASSUME NEW w \in FlatWrites, NEW s \in Seq(IniLines), FlatSoFar(w, s), ~Pass(w, s).done
  PROVE  LET o == Pass(w, s).out
             all == Append(o, Entry("", w.value)) IN
         /\ o \in Seq(IniLines) /\ all \in Seq(IniLines)
         /\ Pass(w, all) = [Pass(w, s) EXCEPT !.out = all, !.done = TRUE]
         /\ Pass(FlatJob, all).out # <<>> /\ Pass(FlatJob, all).out[1].value = w.value
         /\ Pass(RestJob(w), all).out = Pass(RestJob(w), s).out
<1> DEFINE end == Pass(w, s)
           o == end.out
           e == Entry("", w.value)
           all == Append(o, e)
<1>1. end \in PassStates /\ o \in Seq(IniLines)
  BY FlatMore, LineKinds DEF PassStates
<1>2. /\ e \in IniLines /\ Marked(e, {""}) /\ Marked(e, KeyedMarks) /\ e.value = w.value
  BY FlatEntry
<1> HIDE DEF e, end, o
<1>3. Pass(w, o) = end /\ Pass(FlatJob, o).out = <<>> /\ Pass(RestJob(w), o).out = Pass(RestJob(w), s).out
      /\ ~end.done
  BY DEF FlatSoFar, end, o
<1>4. /\ Pass(w, all) = TakeLine(w, end, e)
      /\ Pass(FlatJob, all).out = Append(Pass(FlatJob, o).out, e)
      /\ Pass(RestJob(w), all).out = Pass(RestJob(w), o).out
  BY <1>1, <1>2, <1>3, FlatMore
<1>5. TakeLine(w, end, e) = [end EXCEPT !.out = all, !.done = TRUE]
  BY <1>1, <1>2, <1>3, FlatLine DEF e, o
<1>6. Append(<<>>, e) # <<>> /\ Append(<<>>, e)[1] = e
  OBVIOUS
<1>7. all \in Seq(IniLines)
  BY <1>1, <1>2, AppendProperties
<1> HIDE DEF all
<1>8. Pass(FlatJob, all).out # <<>> /\ Pass(FlatJob, all).out[1].value = w.value
  BY <1>2, <1>3, <1>4, <1>6
<1> QED
  BY <1>1, <1>3, <1>4, <1>5, <1>7, <1>8 DEF end, o, e, all

\* After any lines of a flat file.
LEMMA AlwaysFlat ==
  ASSUME NEW w \in FlatWrites, NEW s \in Seq(IniLines)
  PROVE  FlatSoFar(w, s)
<1> DEFINE T == {t \in Seq(IniLines) : FlatSoFar(w, t)}
<1>1. <<>> \in T
  <2>1. Pass(w, <<>>) = NotBegun /\ Pass(FlatJob, <<>>) = NotBegun /\ Pass(RestJob(w), <<>>) = NotBegun
    BY FlatJobs, PassNothing
  <2>2. NotBegun.out = <<>> /\ ~NotBegun.done
    BY DEF NotBegun
  <2> QED
    BY <2>1, <2>2 DEF FlatSoFar
<1>2. ASSUME NEW t \in Seq(IniLines), NEW line \in IniLines, t \in T PROVE Append(t, line) \in T
  <2> DEFINE end == Pass(w, t)
             o == end.out
             more == Append(t, line)
             rd == Pass(FlatJob, o).out
  <2>1. more \in Seq(IniLines) /\ FlatSoFar(w, t)
    BY <1>2, AppendProperties
  <2>2. end \in PassStates /\ o \in Seq(IniLines) /\ Pass(w, more) = TakeLine(w, end, line)
    BY FlatMore DEF PassStates
  <2>3. Pass(RestJob(w), more).out =
              IF Marked(line, KeyedMarks) THEN Pass(RestJob(w), t).out
              ELSE Append(Pass(RestJob(w), t).out, line)
    BY FlatMore
  <2>4. CASE ~end.done /\ Marked(line, KeyedMarks)
    <3> DEFINE all == Append(o, Entry("", w.value))
    <3>1. Pass(w, more) = [end EXCEPT !.out = all, !.done = TRUE]
      BY <2>2, <2>4, FlatLine
    <3>2. /\ Pass(w, all) = [end EXCEPT !.out = all, !.done = TRUE]
          /\ Pass(FlatJob, all).out # <<>> /\ Pass(FlatJob, all).out[1].value = w.value
          /\ Pass(RestJob(w), all).out = Pass(RestJob(w), t).out
      BY <2>1, <2>4, FlatPut
    <3> HIDE DEF all, end, more
    <3>3. Pass(w, more).out = all /\ Pass(w, more).done
      BY <2>2, <3>1 DEF PassStates
    <3>4. FlatSoFar(w, more)
      BY <2>3, <2>4, <3>1, <3>2, <3>3 DEF FlatSoFar
    <3> QED
      BY <2>1, <3>4 DEF more
  <2>5. CASE ~(~end.done /\ Marked(line, KeyedMarks))
    <3> DEFINE all == Append(o, line)
    <3>0. TakeLine(w, end, line) = Keep(end, line)
      <4> HIDE DEF end
      <4> QED
        BY <2>2, <2>5, FlatLine
    <3>1. Pass(w, more) = Keep(end, line)
      BY <2>2, <3>0
    <3>2. Keep(end, line).out = all /\ Keep(end, line).done = end.done
      BY <2>2 DEF Keep, PassStates
    <3>3. /\ Pass(w, o) = end /\ Pass(RestJob(w), o).out = Pass(RestJob(w), t).out
          /\ IF end.done THEN rd # <<>> /\ rd[1].value = w.value ELSE rd = <<>>
      BY <2>1 DEF FlatSoFar
    <3> HIDE DEF end, o, rd
    <3>4. Pass(w, all) = Keep(end, line)
      <4>1. Pass(w, all) = TakeLine(w, Pass(w, o), line)
        BY <2>2, FlatMore
      <4> QED
        BY <3>0, <3>3, <4>1
    <3>5. Pass(RestJob(w), all).out = Pass(RestJob(w), more).out
      <4>1. Pass(RestJob(w), all).out =
              IF Marked(line, KeyedMarks) THEN Pass(RestJob(w), o).out
              ELSE Append(Pass(RestJob(w), o).out, line)
        BY <2>2, FlatMore
      <4> QED
        BY <2>3, <3>3, <4>1
    <3>6. /\ Pass(FlatJob, all).out = IF Marked(line, {""}) THEN Append(rd, line) ELSE rd
          /\ rd \in Seq(IniLines)
      BY <2>2, FlatMore DEF rd
    <3>7. Marked(line, {""}) => end.done
      BY <2>5, MarkSets DEF Marked
    <3>8. rd # <<>> => Append(rd, line) # <<>> /\ Append(rd, line)[1] = rd[1]
      <4>0. rd \in Seq(IniLines)
        BY <3>6
      <4>1. Append(rd, line) # <<>> /\ Len(rd) \in Nat
            /\ \A i \in 1..Len(rd) : Append(rd, line)[i] = rd[i]
        BY <4>0, AppendProperties, LenProperties
      <4>3. rd # <<>> => Len(rd) \in Nat \ {0}
        BY <4>0, EmptySeq
      <4>2. rd # <<>> => 1 \in 1..Len(rd)
        BY <4>3
      <4> QED
        BY <4>1, <4>2
    <3>9. IF end.done THEN Pass(FlatJob, all).out # <<>> /\ Pass(FlatJob, all).out[1].value = w.value
          ELSE Pass(FlatJob, all).out = <<>>
      BY <3>3, <3>6, <3>7, <3>8
    <3> HIDE DEF all, more
    <3>10. FlatSoFar(w, more)
      BY <3>1, <3>2, <3>4, <3>5, <3>9 DEF FlatSoFar
    <3> QED
      BY <2>1, <3>10 DEF more
  <2> QED
    BY <2>4, <2>5
<1> HIDE DEF T
<1>3. s \in T
  BY <1>1, <1>2, SequenceInduction
<1> QED
  BY <1>3 DEF T

\* A write to a flat file does what it was asked, for any file.
LEMMA FlatAsAsked ==
  ASSUME NEW w \in FlatWrites, NEW s \in Seq(IniLines)
  PROVE  /\ Apply(s, w) \in Seq(IniLines) /\ Apply(Apply(s, w), w) = Apply(s, w)
         /\ ReadsBack(w, Apply(s, w)) /\ RestKept(w, s, Apply(s, w))
<1> DEFINE end == Pass(w, s)
           o == end.out
           all == Append(o, Entry("", w.value))
           m == IF end.done THEN o ELSE all
<1>1. end \in PassStates /\ o \in Seq(IniLines) /\ FlatSoFar(w, s)
  BY FlatMore, LineKinds, AlwaysFlat DEF PassStates
<1>2. w.how = "flat" /\ New(w) = <<Entry("", w.value)>> /\ Entry("", w.value) \in IniLines
  BY FlatEntry
<1>3. \A t \in Seq(IniLines) :
        Apply(t, w) = IF Pass(w, t).done THEN Pass(w, t).out ELSE Append(Pass(w, t).out, Entry("", w.value))
  <2>1. \A t \in Seq(IniLines) : Pass(w, t).out \in Seq(IniLines)
    BY FlatMore, LineKinds DEF PassStates
  <2>2. \A t \in Seq(IniLines) : Pass(w, t).out \o New(w) = Append(Pass(w, t).out, Entry("", w.value))
    BY <1>2, <2>1, OneOrTwo
  <2> QED
    BY <1>2, <2>2 DEF Apply
<1>4. Apply(s, w) = m
  BY <1>3
<1> HIDE DEF end, o, all
<1>5. /\ m \in Seq(IniLines) /\ Pass(w, m).done /\ Pass(w, m).out = m
      /\ Pass(FlatJob, m).out # <<>> /\ Pass(FlatJob, m).out[1].value = w.value
      /\ Pass(RestJob(w), m).out = Pass(RestJob(w), s).out
  <2>1. CASE end.done
    <3>1. /\ Pass(w, o) = end /\ Pass(RestJob(w), o).out = Pass(RestJob(w), s).out
          /\ Pass(FlatJob, o).out # <<>> /\ Pass(FlatJob, o).out[1].value = w.value
      BY <1>1, <2>1 DEF FlatSoFar, end, o
    <3> QED
      BY <1>1, <2>1, <3>1 DEF o
  <2>2. CASE ~end.done
    <3>1. /\ all \in Seq(IniLines)
          /\ Pass(w, all) = [end EXCEPT !.out = all, !.done = TRUE]
          /\ Pass(FlatJob, all).out # <<>> /\ Pass(FlatJob, all).out[1].value = w.value
          /\ Pass(RestJob(w), all).out = Pass(RestJob(w), s).out
      BY <1>1, <2>2, FlatPut DEF end, o, all
    <3>2. Pass(w, all).out = all /\ Pass(w, all).done
      BY <1>1, <3>1 DEF PassStates
    <3> QED
      BY <2>2, <3>1, <3>2
  <2> QED
    BY <2>1, <2>2
<1> HIDE DEF m
<1>6. Apply(m, w) = m
  BY <1>3, <1>5
<1>7. ReadsBack(w, m)
  BY <1>2, <1>5 DEF ReadsBack, ReadFlat, FlatJob
<1>8. RestKept(w, s, m)
  BY <1>5 DEF RestKept, RestJob
<1> QED
  BY <1>4, <1>5, <1>6, <1>7, <1>8

-----------------------------------------------------------------------------
\* The file is always lines, and each write has done what it was asked.
IniInv ==
  /\ ini \in Seq(IniLines) /\ before \in Seq(IniLines) /\ writes \in 0..MaxWrites
  /\ written # NoWrite =>
       written \in IniWrites /\ ini = Apply(before, written)

\* A write of either kind does what it was asked, for any file.
LEMMA WriteAsAsked ==
  ASSUME NEW w \in IniWrites, NEW s \in Seq(IniLines)
  PROVE  /\ Apply(s, w) \in Seq(IniLines) /\ Apply(Apply(s, w), w) = Apply(s, w)
         /\ ReadsBack(w, Apply(s, w)) /\ RestKept(w, s, Apply(s, w))
BY SectionAsAsked, FlatAsAsked DEF InSections, FlatWrites

\* That is the promise.
LEMMA InvAsked == IniInv => MergedAsAsked /\ IniTypeOK
<1> SUFFICES ASSUME IniInv PROVE MergedAsAsked /\ IniTypeOK
  OBVIOUS
<1>1. MergedAsAsked
  BY WriteAsAsked DEF IniInv, MergedAsAsked
<1>2. \A line \in IniLines : line \in {Header, Elsewhere, Empty, Other}
          \/ (IsEntry(line) /\ line.value \in IniValues \cup {OldValue})
  BY DEF IniLines, AllValues, IsEntry, Entry
<1>3. \A i \in DOMAIN ini : ini[i] \in IniLines
  BY DEF IniInv
<1>4. IniTypeOK
  BY <1>2, <1>3 DEF IniTypeOK, IniInv
<1> QED
  BY <1>1, <1>4

\* Every write of the INI engine does what it was asked, whatever the file holds.
THEOREM FilesAsAsked == IniSpec => [](MergedAsAsked /\ IniTypeOK)
<1>1. IniInit => IniInv
  <2> SUFFICES ASSUME IniInit PROVE IniInv
    OBVIOUS
  <2>1. Lines \subseteq IniLines
    <3>1. \A m \in Marks : Entry(m, OldValue) \in IniLines
      BY EntryKinds DEF AllValues
    <3> QED
      BY <3>1, LineKinds DEF Lines, Marks
  <2>2. PICK n \in 0..MaxLines : ini \in [1..n -> Lines]
    BY IniAssumption DEF IniInit, BoundedSeq, SeqOf
  <2>3. ini \in [1..n -> IniLines] /\ n \in Nat
    BY <2>1, <2>2, IniAssumption
  <2>4. ini \in Seq(IniLines)
    BY <2>3, SeqDef
  <2> QED
    BY <2>4, IniAssumption DEF IniInit, IniInv
<1>2. IniInv /\ [IniNext]_iniVars => IniInv'
  <2> SUFFICES ASSUME IniInv, [IniNext]_iniVars PROVE IniInv'
    OBVIOUS
  <2>1. ASSUME NEW w \in IniWrites, WriteIni(w) PROVE IniInv'
    BY <2>1, WriteAsAsked, IniAssumption DEF WriteIni, IniInv
  <2>2. CASE IniNext
    <3>1. \A v \in IniValues, how \in {"keyed", "flat", "matched", "unmatched"} :
            [how |-> how, value |-> v] \in IniWrites
      BY DEF IniWrites
    <3>2. \A vs \in BoundedSeq(IniValues, 2) : [how |-> "repeated", values |-> vs] \in IniWrites
      <4> SUFFICES ASSUME NEW vs \in BoundedSeq(IniValues, 2) PROVE vs \in Seq(IniValues)
        BY DEF IniWrites
      <4>1. PICK n \in 0..2 : vs \in [1..n -> IniValues]
        BY DEF BoundedSeq, SeqOf
      <4> QED
        BY <4>1, SeqDef
    <3> QED
      BY <2>1, <2>2, <3>1, <3>2 DEF IniNext
  <2>3. CASE UNCHANGED iniVars
    BY <2>3 DEF iniVars, IniInv
  <2> QED
    BY <2>2, <2>3
<1> QED
  BY <1>1, <1>2, InvAsked, PTL DEF IniSpec
=============================================================================
