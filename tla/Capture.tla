------------------------------ MODULE Capture ------------------------------
(***************************************************************************)
(* How a session becomes the trace the rules read: detect.Capture          *)
(* (internal/detect/store.go) over the spans that telemetry.StartSpan and  *)
(* telemetry.Stamp produce.                                                *)
(*                                                                         *)
(* The code under capture runs in one goroutine and ends its spans in      *)
(* stack order (every caller ends the span it started, most by defer).     *)
(* The recorder lists spans as they END; Capture sorts them by the time    *)
(* they STARTED, as the clock shows it.  The clock may show two starts the *)
(* same time.                                                              *)
(***************************************************************************)
EXTENDS Detect, FiniteSets

CONSTANTS
  SpanNames,   \* names of the spans the captured function starts
  StartAttrs,  \* the sets of attributes a span is started with
  StampAttrs,  \* the sets of attributes stamped on a span later
  MaxSpans,    \* bound on the number of spans, the session span included
  MaxTime      \* bound on the clock

ASSUME CaptureAssumption == MaxSpans \in Nat \ {0} /\ MaxTime \in Nat

VARIABLES
  now,       \* the clock
  open,      \* the spans not ended, innermost last
  ended,     \* the recorder: spans in the order they ended
  trace      \* what Capture returned, <<>> until then

captureVars == <<now, open, ended, trace>>

\* A recorded span.  Three of its fields are history: born numbers the spans
\* in the order they really started, after is how many had ended by then, and
\* depth how many were open.
NewSpan(name, attrs) ==
  [name |-> name, attrs |-> attrs, start |-> now,
   born |-> Len(open) + Len(ended) + 1, after |-> Len(ended), depth |-> Len(open)]

CaptureInit ==
  /\ now = 0
  /\ ended = <<>>
  /\ open = <<[name |-> "session", attrs |-> NoAttrs, start |-> 0,
               born |-> 1, after |-> 0, depth |-> 0]>>
  /\ trace = <<>>

Recording == open # <<>>

Tick ==
  /\ Recording /\ now < MaxTime
  /\ now' = now + 1
  /\ UNCHANGED <<open, ended, trace>>

\* telemetry.StartSpan
StartSpan(name, attrs) ==
  /\ Recording
  /\ Len(open) + Len(ended) < MaxSpans
  /\ open' = Append(open, NewSpan(name, attrs))
  /\ UNCHANGED <<now, ended, trace>>

\* telemetry.Stamp, on the span the context at hand is inside.
Stamp(attrs) ==
  /\ Recording
  /\ open' = [open EXCEPT ![Len(open)] = SetAttributes(@, attrs)]
  /\ UNCHANGED <<now, ended, trace>>

\* Mutant: the oldest child of the session ends before the spans inside it.
EndOuterFirst ==
  /\ Len(open) > 1
  /\ ended' = Append(ended, open[2])
  /\ open' = <<open[1]>> \o SubSeq(open, 3, Len(open))
  /\ UNCHANGED <<now, trace>>

\* span.End
EndSpan ==
  /\ Len(open) > 1
  /\ ended' = Append(ended, open[Len(open)])
  /\ open' = SubSeq(open, 1, Len(open) - 1)
  /\ UNCHANGED <<now, trace>>

\* A sequence put in the order of a relation that totally orders its positions.
SortBy(s, Before(_, _)) ==
  LET Place(i) == Cardinality({j \in DOMAIN s : Before(j, i)}) + 1 IN
  [p \in DOMAIN s |-> s[CHOOSE i \in DOMAIN s : Place(i) = p]]

\* Mutant: sort.Slice, which may reverse equal elements.
SortReversingTies(s) ==
  SortBy(s, LAMBDA i, j : \/ s[i].start < s[j].start
                          \/ s[i].start = s[j].start /\ i > j)

\* Mutant: the spans are left in the order of the recorder.
SortNothing(s) == s

\* sort.SliceStable by start time
SortByStart(s) ==
  SortBy(s, LAMBDA i, j : \/ s[i].start < s[j].start
                          \/ s[i].start = s[j].start /\ i < j)

\* fn has returned: the session span ends, and the recorded spans are sorted.
Finish ==
  /\ Len(open) = 1
  /\ ended' = Append(ended, open[1])
  /\ trace' = SortByStart(ended')
  /\ open' = <<>>
  /\ UNCHANGED now

CaptureNext ==
  \/ Tick
  \/ \E name \in SpanNames, attrs \in StartAttrs : StartSpan(name, attrs)
  \/ \E attrs \in StampAttrs : Stamp(attrs)
  \/ EndSpan
  \/ Finish

CaptureSpec == CaptureInit /\ [][CaptureNext]_captureVars

-----------------------------------------------------------------------------
(* Properties *)

\* Open spans are nested, and the recorder holds them in the order they ended.
CaptureTypeOK ==
  /\ now \in 0 .. MaxTime
  /\ Len(open) + Len(ended) <= MaxSpans
  /\ \A i \in DOMAIN open : open[i].depth = i - 1 /\ open[i].start <= now
  /\ Len(trace) \in {0, Len(ended)}

\* No stretch of equal clock readings puts a span before one that had ended
\* when it started.
CausalOrder ==
  \A p, q \in DOMAIN trace :
    p < q => ~\E e \in 1 .. trace[p].after : ended[e] = trace[q]

\* The spans of a captured trace in the order they really started.
ByBirth == SortBy(trace, LAMBDA i, j : trace[i].born < trace[j].born)

\* The steps are siblings and the session span itself carries nothing.
Flat ==
  \A i \in DOMAIN trace : /\ trace[i].depth <= 1
                          /\ trace[i].depth = 0 => trace[i].attrs = NoAttrs

\* In a flat session, as every OWASP pair is one, what the rules say does not
\* depend on how finely the clock ticks.
VerdictIgnoresClock == Flat => EvaluateAll(trace) = EvaluateAll(ByBirth)

\* The queries of detections/rules/clickhouse.sql on the rows of this session,
\* a set of spans with their start times as Timestamp.
Rows == {ended[i] : i \in DOMAIN ended}

\* Mutant: the two ends of the join must differ, as in the query for GG-DET-01.
SqlTaintOnTwoSpans ==
  \E t, w \in Rows : /\ w.start >= t.start /\ w.born # t.born
                     /\ Tainting(t)
                     /\ Has(w, KeyPrivilegeScope)
                     /\ w.attrs[KeyPrivilegeScope].prefix = "write"

SqlTaint ==
  \E t, w \in Rows : /\ w.start >= t.start
                     /\ Tainting(t)
                     /\ Has(w, KeyPrivilegeScope)
                     /\ w.attrs[KeyPrivilegeScope].prefix = "write"

\* scope_rank: unlike scopeRank in Go, it puts what it does not know below read.
SqlRank(scope) ==
  CASE scope.prefix = "admin" -> 3
    [] scope.prefix = "write" -> 2
    [] scope.prefix = "read"  -> 1
    [] OTHER                  -> 0

\* The rows of ranked: an absent scope reads as the empty one, which is left out.
Ranked == {s \in Rows : Has(s, KeyPrivilegeScope) /\ s.attrs[KeyPrivilegeScope] # NoScope}

\* Mutant: the join takes spans at the same reading too, as that of GG-DET-05.
SqlWideningAtOnce ==
  \E a, b \in Ranked : /\ b.start >= a.start
                       /\ SqlRank(b.attrs[KeyPrivilegeScope])
                            > SqlRank(a.attrs[KeyPrivilegeScope])

SqlWidening ==
  \E a, b \in Ranked : /\ b.start > a.start
                       /\ SqlRank(b.attrs[KeyPrivilegeScope])
                            > SqlRank(a.attrs[KeyPrivilegeScope])

SqlInjection ==
  \E u, e \in Rows : /\ e.start >= u.start /\ e.born # u.born
                     /\ IsTrue(u, KeyUntrusted) /\ IsTrue(e, KeyEgress)

\* An alarm of the Go rules is a row of the ClickHouse query too: always for
\* memory taint, for injection unless one span carries both attributes, and for
\* widening unless the clock showed two scoped spans the same time or a scope is
\* empty, which has a rank in Go and no row here.
QueriesCoverRules ==
  trace # <<>> =>
    /\ MemoryTaint(trace) => SqlTaint
    /\ InjectionExfil(trace) =>
         SqlInjection \/ \E s \in Rows : IsTrue(s, KeyUntrusted) /\ IsTrue(s, KeyEgress)
    /\ PrivilegeWidening(trace) =>
         \/ SqlWidening
         \/ \E a, b \in Rows : /\ a.born # b.born /\ a.start = b.start
                               /\ Has(a, KeyPrivilegeScope) /\ Has(b, KeyPrivilegeScope)
         \/ \E s \in Rows : Has(s, KeyPrivilegeScope) /\ s \notin Ranked

\* A row of a ClickHouse query is an alarm of the Go rules too, unless the clock
\* showed its two spans the same time and, for widening, unless another scope had
\* come by then that is as broad to Go: an earlier one whose rank the running
\* maximum still remembers, or the first of the two itself, unranked before a
\* read, which is broader in the query alone (clickhouse.sql:92-97).
RowsAreAlarms ==
  trace # <<>> =>
    /\ SqlTaint =>
         \/ MemoryTaint(trace)
         \/ \E t, w \in Rows : /\ t.born # w.born /\ t.start = w.start
                               /\ Tainting(t) /\ Has(w, KeyPrivilegeScope)
    /\ SqlInjection =>
         \/ InjectionExfil(trace)
         \/ \E u, e \in Rows : /\ u.born # e.born /\ u.start = e.start
                               /\ IsTrue(u, KeyUntrusted) /\ IsTrue(e, KeyEgress)
    /\ SqlWidening =>
         \/ PrivilegeWidening(trace)
         \/ \E a, b \in Ranked, c \in Rows :
              /\ a.start < b.start
              /\ SqlRank(a.attrs[KeyPrivilegeScope]) < SqlRank(b.attrs[KeyPrivilegeScope])
              /\ Has(c, KeyPrivilegeScope) /\ c.born # b.born /\ c.start <= b.start
              /\ ScopeRank(c.attrs[KeyPrivilegeScope]) >= ScopeRank(b.attrs[KeyPrivilegeScope])
=============================================================================
