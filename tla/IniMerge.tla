------------------------------- MODULE IniMerge -------------------------------
(***************************************************************************)
(* The INI engine (src/scripts/admin_ini_merge.py): how a key is set under *)
(* a section, or in a flat file, by rewriting the file's lines in one pass, *)
(* and how it is read back.  The file may hold whatever hands and templates *)
(* have left in it: a section twice or not at all, the key twice, prefixed *)
(* as an element of a UE5 array, commented out.                            *)
(*                                                                         *)
(* A line is what the engine's patterns tell apart: the header of the      *)
(* section asked for or of another, a line of the key asked for with its   *)
(* mark ("" a plain one, ";" commented, "+" and "-" of an array), a blank  *)
(* line, any other.  Each loop over the lines is a pass: what it has come  *)
(* to after a line follows from what it had come to before and the line.   *)
(***************************************************************************)
EXTENDS Integers, SequencesExt

CONSTANTS
  IniValues, \* values written
  OldValue,  \* the value of the lines that are there at first
  MaxLines,  \* bound: lines of the file at first
  MaxWrites  \* bound: writes

ASSUME IniAssumption == OldValue \notin IniValues /\ {MaxLines, MaxWrites} \subseteq Nat

Header == [kind |-> "target"]
Elsewhere == [kind |-> "section"]
Empty == [kind |-> "blank"]
Other == [kind |-> "other"]
Entry(mark, v) == [kind |-> "key", mark |-> mark, value |-> v]

Lines == {Header, Elsewhere, Empty, Other} \cup {Entry(m, OldValue) : m \in {"", ";", "+", "-"}}

IsEntry(line) == line.kind = "key"
\* The marks each pattern of the key accepts.
KeyedMarks == {"", ";"}        \* upsert_keyed, upsert_flat: commented or not
LiveMarks == {"", "+", "-"}    \* upsert_repeated, upsert_matched
ArrayMarks == {"", "+"}        \* read_repeated
Marked(line, marks) == IsEntry(line) /\ line.mark \in marks

HeaderLines == {Header, Elsewhere}

-----------------------------------------------------------------------------
(* Writing                                                                 *)

NotBegun == [out |-> <<>>, inside |-> FALSE, seen |-> FALSE, done |-> FALSE]

\* A line that stays.
Keep(state, line) == [state EXCEPT !.out = Append(@, line)]

\* New lines go before the blank line that ends a section.
AtEndOf(out, new) ==
  IF out # <<>> /\ Last(out) = Empty THEN Append(Front(out) \o new, Empty) ELSE out \o new

\* Broken form for MergedAsAsked: what a section lacks is not put in when another
\* header ends it.
PassHeaderOnly(state, line, new) ==
  [state EXCEPT !.out = Append(@, line),
                !.inside = (line = Header),
                !.seen = @ \/ line = Header]

\* A header: of the section asked for, or of another, at which what the section
\* still lacks is put in.
PassHeader(state, line, new) ==
  LET due == line = Elsewhere /\ state.inside /\ ~state.done /\ new # <<>> IN
  [out |-> Append(IF due THEN AtEndOf(state.out, new) ELSE state.out, line),
   inside |-> line = Header,
   seen |-> state.seen \/ line = Header,
   done |-> state.done \/ due]

\* The end of the file: a section that was never there is made, and one that lacks
\* the key gets it.
Finish(state, new) ==
  CASE ~state.seen /\ new # <<>> -> state.out \o <<Empty, Header>> \o new
    [] state.seen /\ state.inside /\ ~state.done -> state.out \o new
    [] OTHER -> state.out

\* upsert_keyed: the first entry of the section, commented or not, is the one that
\* is replaced.
UpsertKeyed(state, line, new) ==
  IF line \in HeaderLines THEN PassHeader(state, line, new)
  ELSE IF state.inside /\ ~state.done /\ Marked(line, KeyedMarks)
  THEN [state EXCEPT !.out = @ \o new, !.done = TRUE]
  ELSE Keep(state, line)

\* Of every entry of the section that goes, the first leaves its place to the new.
Replace(state, line, goes, new) ==
  IF line \in HeaderLines THEN PassHeader(state, line, new)
  ELSE IF state.inside /\ goes
  THEN [state EXCEPT !.out = IF state.done THEN @ ELSE @ \o new, !.done = TRUE]
  ELSE Keep(state, line)

\* upsert_repeated: every live form of the array goes.
UpsertRepeated(state, line, new) == Replace(state, line, Marked(line, LiveMarks), new)

\* upsert_matched: those whose value is one of the targets, under any live mark.
UpsertMatched(state, line, targets, new) ==
  Replace(state, line, Marked(line, LiveMarks) /\ line.value \in targets, new)

\* upsert_flat: sections do not matter.
UpsertFlat(state, line, new) ==
  IF ~state.done /\ Marked(line, KeyedMarks)
  THEN [state EXCEPT !.out = @ \o new, !.done = TRUE]
  ELSE Keep(state, line)

\* The array pair that apply-config.sh writes: the engine's own entry removed and
\* another in its stead.
Swap(v) == <<Entry("-", OldValue), Entry("+", v)>>
Targets(w) == {OldValue, w.value}

\* The lines that a write puts in.
New(w) ==
  CASE w.how \in {"keyed", "flat"} -> <<Entry("", w.value)>>
    [] w.how = "repeated" -> [i \in DOMAIN w.values |-> Entry("+", w.values[i])]
    [] w.how = "matched" -> Swap(w.value)
    [] w.how = "unmatched" -> <<>>

-----------------------------------------------------------------------------
(* Reading, and passes                                                     *)

\* read_keyed and read_repeated: the entries under the section with one of the marks.
ReadInSection(state, line, marks) ==
  IF line \in HeaderLines THEN [state EXCEPT !.inside = (line = Header)]
  ELSE IF state.inside /\ Marked(line, marks) THEN Keep(state, line) ELSE state

\* read_flat: sections do not matter.
ReadAnywhere(state, line, marks) == IF Marked(line, marks) THEN Keep(state, line) ELSE state

\* What a write leaves alone: every line but the entries it is about.
Spared(w, state, line) ==
  CASE w.how = "keyed" -> ~(state.inside /\ Marked(line, KeyedMarks))
    [] w.how = "flat" -> ~Marked(line, KeyedMarks)
    [] w.how = "repeated" -> ~(state.inside /\ Marked(line, LiveMarks))
    [] OTHER -> ~(state.inside /\ Marked(line, LiveMarks) /\ line.value \in Targets(w))
RestOf(state, line, w) ==
  IF line \in HeaderLines THEN [Keep(state, line) EXCEPT !.inside = (line = Header)]
  ELSE IF Spared(w, state, line) THEN Keep(state, line) ELSE state

\* One line of each loop; a job is a write or a reading.
TakeLine(job, state, line) ==
  CASE job.how = "keyed" -> UpsertKeyed(state, line, New(job))
    [] job.how = "flat" -> UpsertFlat(state, line, New(job))
    [] job.how = "repeated" -> UpsertRepeated(state, line, New(job))
    [] job.how \in {"matched", "unmatched"} ->
         UpsertMatched(state, line, Targets(job), New(job))
    [] job.how = "read" -> ReadInSection(state, line, job.marks)
    [] job.how = "readflat" -> ReadAnywhere(state, line, job.marks)
    [] job.how = "rest" -> RestOf(state, line, job.write)

\* A loop over the lines.
Pass(job, lines) ==
  LET after[n \in 0..Len(lines)] == IF n = 0 THEN NotBegun ELSE TakeLine(job, after[n - 1], lines[n])
  IN after[Len(lines)]

Under(lines, marks) == Pass([how |-> "read", marks |-> marks], lines).out

\* read_keyed takes the first plain one; read_repeated takes them all.
ReadKeyed(lines) == Under(lines, {""})
ReadRepeated(lines) == Under(lines, ArrayMarks)
ReadFlat(lines) == Pass([how |-> "readflat", marks |-> {""}], lines).out

Apply(lines, w) ==
  LET end == Pass(w, lines) IN
  IF w.how # "flat" THEN Finish(end, New(w))
  ELSE IF end.done THEN end.out ELSE end.out \o New(w)

-----------------------------------------------------------------------------
(* A file that is written to                                               *)

VARIABLES
  ini,     \* the file's lines
  before,  \* history: as they were before the last write
  written, \* history: the last write
  writes   \* how many there were

iniVars == <<ini, before, written, writes>>

NoWrite == [how |-> "none"]

IniInit ==
  /\ ini \in BoundedSeq(Lines, MaxLines)
  /\ before = ini /\ written = NoWrite /\ writes = 0

WriteIni(w) ==
  /\ writes < MaxWrites /\ writes' = writes + 1
  /\ written' = w /\ before' = ini /\ ini' = Apply(ini, w)

IniNext ==
  \/ \E v \in IniValues, how \in {"keyed", "flat", "matched", "unmatched"} :
       WriteIni([how |-> how, value |-> v])
  \/ \E vs \in BoundedSeq(IniValues, 2) : WriteIni([how |-> "repeated", values |-> vs])

IniSpec == IniInit /\ [][IniNext]_iniVars

-----------------------------------------------------------------------------
(* Properties                                                              *)

\* Type invariant.
IniTypeOK ==
  /\ \A i \in DOMAIN ini : ini[i] \in {Header, Elsewhere, Empty, Other} \/
       (IsEntry(ini[i]) /\ ini[i].value \in IniValues \cup {OldValue})
  /\ writes \in 0..MaxWrites

\* What was written is what is read back.
ReadsBack(w, lines) ==
  LET live == Under(lines, LiveMarks) IN
  CASE w.how = "keyed" -> ReadKeyed(lines) # <<>> /\ ReadKeyed(lines)[1].value = w.value
    [] w.how = "flat" -> ReadFlat(lines) # <<>> /\ ReadFlat(lines)[1].value = w.value
    [] w.how = "repeated" -> ReadRepeated(lines) = New(w) /\ live = New(w)
    [] w.how = "matched" ->
         /\ \E i \in DOMAIN live : live[i] = Entry("+", w.value)
         /\ \E i \in DOMAIN live : \A j \in DOMAIN live : live[j].value = OldValue <=> j = i
    [] w.how = "unmatched" -> \A i \in DOMAIN live : live[i].value \notin Targets(w)

\* Nothing else is touched: headers, blank lines, other keys, comments, entries of
\* other sections and other elements of the array stay, in their order, and a
\* section is made at the end where there was none.
RestKept(w, lines, merged) ==
  LET rest(file) == Pass([how |-> "rest", write |-> w], file).out
  IN rest(merged) \in {rest(lines), rest(lines) \o <<Empty, Header>>}

\* Every write of the engine does what it was asked, whatever is in the file, and
\* a second time changes nothing: apply-config.sh writes every setting at every
\* boot.
MergedAsAsked ==
  written # NoWrite =>
    ReadsBack(written, ini) /\ RestKept(written, before, ini) /\ Apply(ini, written) = ini
=============================================================================
