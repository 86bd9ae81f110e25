-------------------------- MODULE PairCapture_proof --------------------------
(***************************************************************************)
(* Proofs about the OWASP pairs run inside Capture: whatever the clock     *)
(* does, a captured trace holds the spans of the variant's steps, in an    *)
(* order the rules cannot tell from the program's, and so every pair keeps *)
(* its verdict and its alarms.                                             *)
(***************************************************************************)
EXTENDS Capture_proof

-----------------------------------------------------------------------------
(* A variant as a sequence of steps *)

\* What the span of a step carries once its body has run.
After(step) ==
  [k \in DOMAIN step.attrs \cup DOMAIN step.stamp |->
     IF k \in DOMAIN step.stamp THEN step.stamp[k] ELSE step.attrs[k]]

IsProgram(P) ==
  /\ IsSequence(P) /\ Len(P) \in 1 .. LoopThreshold - 1
  /\ \A i \in DOMAIN P : P[i].harm \in BOOLEAN

Bears(span, attrs) == span.attrs = attrs

\* The outcome c with what a step does added.
Adds(d, c, step) == d = (c \/ step.harm)

\* One of the first k steps is what the attack is after.
Harmed(P, k) == \E i \in 1 .. k : P[i].harm

\* The first k spans of the recorder are those of the first k steps, children of
\* the session.
Recorded(P, e, k) == \A i \in 1 .. k : e[i].attrs = After(P[i]) /\ e[i].depth = 1

\* The open spans o, the recorder e, the step k the program is in, b if its body
\* has run, and the outcome c so far.
Progress(P, o, e, k, b, c) ==
  /\ k \in 1 .. Len(P) + 1 /\ b \in BOOLEAN /\ c \in BOOLEAN
  /\ Len(o) \in 1 .. 2 /\ Len(e) = k - 1
  /\ o[1].attrs = NoAttrs
  /\ Recorded(P, e, k - 1)
  /\ Len(o) = 2 => k <= Len(P) /\ o[2].attrs = IF b THEN After(P[k]) ELSE P[k].attrs
  /\ b => Len(o) = 2
  /\ c <=> Harmed(P, IF b THEN k ELSE k - 1)

\* What is left when the variant has returned.
Outcome(P, e, c) ==
  /\ Len(e) = Len(P) + 1
  /\ Recorded(P, e, Len(P))
  /\ e[Len(P) + 1].attrs = NoAttrs
  /\ c <=> Harmed(P, Len(P))

ProgramInv ==
  /\ pair \in PairIDs \cup {Anything} /\ variant \in Variants
  /\ InPair /\ trace = <<>> => Progress(Program, open, ended, at, acted, compromised)
  /\ InPair /\ trace # <<>> => Outcome(Program, ended, compromised)

LEMMA OpenSequence ==
  ASSUME CaptureInv
  PROVE  /\ IsSequence(open) /\ IsSequence(ended)
         /\ DOMAIN open = 1 .. Len(open) /\ Len(open) \in Nat
         /\ DOMAIN ended = 1 .. Len(ended) /\ Len(ended) \in Nat
BY DEF CaptureInv, SpansInv, BoundInv, IsSequence

LEMMA AnythingIsNoPair == Anything \notin PairIDs
BY DEF Anything, PairIDs

LEMMA ProgramLength ==
  ASSUME NEW P, IsProgram(P)
  PROVE  Len(P) \in Nat /\ Len(P) >= 1 /\ Len(P) <= 4 /\ DOMAIN P = 1 .. Len(P)
<1>1. PICK T : P \in Seq(T)
  BY DEF IsProgram, IsSequence
<1>2. LoopThreshold - 1 = 4
  BY DEF LoopThreshold
<1>3. Len(P) \in 1 .. 4
  BY <1>2 DEF IsProgram
<1>4. DOMAIN P = 1 .. Len(P)
  BY <1>1
<1> DEFINE n == Len(P)
<1>5. n \in 1 .. 4
  BY <1>3
<1> HIDE DEF n
<1>6. n \in Nat /\ n >= 1 /\ n <= 4
  BY <1>5
<1>7. QED
  BY <1>4, <1>6 DEF n

LEMMA InitProgram ==
  ASSUME PairInit, InPair => IsProgram(Program)
  PROVE  ProgramInv
<1>1. pair \in PairIDs \cup {Anything} /\ variant \in Variants
  BY DEF PairInit, Variants
<1>2. trace = <<>>
  BY DEF PairInit, CaptureInit
<1>3. ASSUME InPair
      PROVE  Progress(Program, open, ended, at, acted, compromised)
  <2> DEFINE P == Program
  <2>1. Len(P) \in Nat /\ Len(P) >= 1
    BY <1>3, ProgramLength
  <2>2. Len(open) = 1 /\ Len(ended) = 0 /\ open[1].attrs = NoAttrs
    BY DEF PairInit, CaptureInit
  <2>3. at = 1 /\ acted = FALSE /\ compromised = FALSE
    BY DEF PairInit
  <2> HIDE DEF P
  <2>4. ~Harmed(P, 0) /\ Recorded(P, ended, 0)
    BY DEF Harmed, Recorded
  <2>5. Progress(P, open, ended, 1, FALSE, FALSE)
    <3>1. 1 - 1 = 0 /\ 1 \in 1 .. Len(P) + 1
      BY <2>1
    <3>2. QED
      BY <2>1, <2>2, <2>4, <3>1 DEF Progress
  <2>6. QED
    BY <2>3, <2>5 DEF P
<1>4. QED
  BY <1>1, <1>2, <1>3 DEF ProgramInv

\* The four operations of a pair, on any program.
LEMMA BeginProgress ==
  ASSUME NEW P, IsProgram(P), NEW o, IsSequence(o), NEW e, NEW k, NEW b, NEW c,
         Progress(P, o, e, k, b, c), Len(o) = 1, k <= Len(P),
         NEW span, Bears(span, P[k].attrs)
  PROVE  Progress(P, Append(o, span), e, k, b, c)
<1> DEFINE r == Append(o, span)
<1>1. /\ Len(r) = Len(o) + 1
      /\ \A i \in 1 .. Len(o) : r[i] = o[i]
      /\ r[Len(o) + 1] = span
  BY AppendSequence
<1> HIDE DEF r
<1>2. Len(r) = 2 /\ r[1] = o[1] /\ r[2] = span /\ b = FALSE
  BY <1>1 DEF Progress
<1>3. Progress(P, r, e, k, b, c)
  BY <1>2 DEF Progress, Bears
<1>4. QED
  BY <1>3 DEF r

LEMMA BodyProgress ==
  ASSUME NEW P, IsProgram(P), NEW o, IsSequence(o), NEW e, NEW k, NEW b, NEW c,
         Progress(P, o, e, k, b, c), Len(o) = 2, b = FALSE,
         NEW span, Bears(span, After(P[k])), NEW d, Adds(d, c, P[k])
  PROVE  Progress(P, [o EXCEPT ![Len(o)] = span], e, k, TRUE, d)
<1> DEFINE r == [o EXCEPT ![Len(o)] = span]
<1>1. Len(r) = 2 /\ DOMAIN r = 1 .. 2 /\ \A i \in DOMAIN r : r[i] = IF i = 2 THEN span ELSE o[i]
  BY LastReplaced
<1>2. r[1] = o[1] /\ r[2] = span
  BY <1>1
<1>3. k \in 1 .. Len(P) /\ Len(P) \in Nat /\ P[k].harm \in BOOLEAN
  <2>1. Len(P) \in Nat /\ DOMAIN P = 1 .. Len(P) /\ k \in 1 .. Len(P) + 1 /\ k <= Len(P)
    BY ProgramLength DEF Progress
  <2>2. QED
    BY <2>1 DEF IsProgram
<1>4. d \in BOOLEAN /\ (d <=> Harmed(P, k))
  <2>1. c \in BOOLEAN /\ (c <=> Harmed(P, k - 1))
    BY DEF Progress
  <2>2. \A i \in 1 .. k : i = k \/ i \in 1 .. k - 1
    BY <1>3
  <2>3. Harmed(P, k) <=> Harmed(P, k - 1) \/ P[k].harm
    BY <1>3, <2>2 DEF Harmed
  <2>4. QED
    BY <1>3, <2>1, <2>3 DEF Adds
<1> HIDE DEF r
<1>5. Progress(P, r, e, k, TRUE, d)
  BY <1>1, <1>2, <1>4 DEF Progress, Bears
<1>6. QED
  BY <1>5 DEF r

LEMMA EndProgress ==
  ASSUME NEW P, IsProgram(P), NEW o, IsSequence(o), NEW e, IsSequence(e), NEW k, NEW c,
         Progress(P, o, e, k, TRUE, c), o[2].depth = 1
  PROVE  Progress(P, SubSeq(o, 1, Len(o) - 1), Append(e, o[Len(o)]), k + 1, FALSE, c)
<1> DEFINE r == SubSeq(o, 1, Len(o) - 1)
           d == Append(e, o[Len(o)])
<1>1. /\ Len(o) = 2 /\ k <= Len(P) /\ o[2].attrs = After(P[k])
      /\ Len(e) = k - 1 /\ k \in Nat /\ Len(P) \in Nat /\ k \in 1 .. Len(P)
  BY ProgramLength DEF Progress
<1>2. Len(r) = 1 /\ r[1] = o[1]
  <2>1. Len(r) = Len(o) - 1 /\ DOMAIN r = 1 .. Len(o) - 1 /\ \A i \in DOMAIN r : r[i] = o[i]
    BY <1>1, ButLast
  <2>2. QED
    BY <1>1, <2>1
<1>3. /\ Len(d) = k
      /\ \A i \in 1 .. k - 1 : d[i] = e[i]
      /\ d[k] = o[2]
  <2>1. /\ Len(d) = Len(e) + 1
        /\ \A i \in 1 .. Len(e) : d[i] = e[i]
        /\ d[Len(e) + 1] = o[Len(o)]
    BY AppendSequence
  <2>2. Len(e) + 1 = k
    BY <1>1
  <2>3. QED
    BY <1>1, <2>1, <2>2
<1>4. Recorded(P, d, k)
  <2>1. ASSUME NEW i \in 1 .. k
        PROVE  d[i].attrs = After(P[i]) /\ d[i].depth = 1
    <3>1. CASE i = k
      BY <1>1, <1>3, <3>1
    <3>2. CASE i # k
      <4>1. i \in 1 .. k - 1
        BY <1>1, <3>2
      <4>2. QED
        BY <1>3, <4>1 DEF Progress, Recorded
    <3>3. QED
      BY <3>1, <3>2
  <2>2. QED
    BY <2>1 DEF Recorded
<1>5. (k + 1) - 1 = k /\ k + 1 \in 1 .. Len(P) + 1
  BY <1>1
<1>6. c \in BOOLEAN /\ (c <=> Harmed(P, k)) /\ o[1].attrs = NoAttrs
  BY DEF Progress
<1> HIDE DEF r, d
<1>7. Progress(P, r, d, k + 1, FALSE, c)
  BY <1>2, <1>3, <1>4, <1>5, <1>6 DEF Progress
<1>8. QED
  BY <1>7 DEF r, d

LEMMA ReturnOutcome ==
  ASSUME NEW P, IsProgram(P), NEW o, NEW e, IsSequence(e), NEW k, NEW b, NEW c,
         Progress(P, o, e, k, b, c), Len(o) = 1, k > Len(P)
  PROVE  Outcome(P, Append(e, o[1]), c)
<1> DEFINE d == Append(e, o[1])
<1>1. k = Len(P) + 1 /\ Len(P) \in Nat /\ k - 1 = Len(P) /\ Len(e) = Len(P) /\ b = FALSE
  BY ProgramLength DEF Progress
<1>2. /\ Len(d) = Len(P) + 1
      /\ \A i \in 1 .. Len(P) : d[i] = e[i]
      /\ d[Len(P) + 1] = o[1]
  BY <1>1, AppendSequence
<1>3. /\ Recorded(P, e, Len(P)) /\ o[1].attrs = NoAttrs
      /\ c <=> Harmed(P, Len(P))
  BY <1>1 DEF Progress
<1> HIDE DEF d
<1>4. Recorded(P, d, Len(P))
  BY <1>2, <1>3 DEF Recorded
<1>5. Outcome(P, d, c)
  BY <1>2, <1>3, <1>4 DEF Outcome
<1>6. QED
  BY <1>5 DEF d

LEMMA ProgramStep ==
  ASSUME CaptureInv, ProgramInv, InPair => IsProgram(Program), [PairNext]_pairVars
  PROVE  ProgramInv'
<1>1. pair' = pair /\ variant' = variant
  BY DEF PairNext, Explore, BeginStep, RunBody, EndStep, Return, PairTick, pairVars
<1>2. Program' = Program /\ InPair' = InPair
  BY <1>1 DEF Program, InPair
<1>3. CASE ~InPair
  BY <1>1, <1>2, <1>3 DEF ProgramInv
<1> DEFINE P == Program
<1> SUFFICES ASSUME InPair
             PROVE  ProgramInv'
  BY <1>3
<1>4. IsProgram(P) /\ IsSequence(open) /\ IsSequence(ended)
  BY OpenSequence
<1>5. open # <<>> => trace = <<>>
  BY DEF CaptureInv, TraceInv
<1>6. trace = <<>> => Progress(P, open, ended, at, acted, compromised)
  BY DEF ProgramInv
<1>7. ASSUME trace' = <<>>, Progress(P, open', ended', at', acted', compromised')
      PROVE  ProgramInv'
  BY <1>1, <1>2, <1>7 DEF ProgramInv
<1>8. ASSUME trace' # <<>>, Outcome(P, ended', compromised')
      PROVE  ProgramInv'
  BY <1>1, <1>2, <1>8 DEF ProgramInv
<1>9. ASSUME Len(open) # 0
      PROVE  trace = <<>> /\ Progress(P, open, ended, at, acted, compromised)
  BY <1>5, <1>6, <1>9
<1> HIDE DEF P
<1>10. CASE BeginStep
  <2>1. Len(open) = 1 /\ at <= Len(P) /\ trace' = trace
    BY <1>10 DEF BeginStep, StartSpan, P
  <2> DEFINE span == NewSpan(P[at].name, P[at].attrs)
  <2>2. Bears(span, P[at].attrs)
    BY DEF NewSpan, Bears
  <2>3. open' = Append(open, span) /\ UNCHANGED <<ended, at, acted, compromised>>
    BY <1>10 DEF BeginStep, StartSpan, P
  <2> HIDE DEF span
  <2>4. Progress(P, Append(open, span), ended, at, acted, compromised)
    BY <1>4, <1>9, <2>1, <2>2, BeginProgress
  <2>5. QED
    BY <1>7, <1>9, <2>1, <2>3, <2>4
<1>11. CASE RunBody
  <2>1. Len(open) = 2 /\ acted = FALSE /\ trace' = trace
    <3>1. Len(open) = 2 /\ ~acted /\ trace' = trace
      BY <1>11 DEF RunBody, Stamp
    <3>2. acted \in BOOLEAN
      BY <1>9, <3>1 DEF Progress
    <3>3. QED
      BY <3>1, <3>2
  <2> DEFINE span == SetAttributes(open[2], P[at].stamp)
  <2>2. open[2].attrs = P[at].attrs /\ DOMAIN open[2] = Fields
    <3>1. open[2].attrs = P[at].attrs
      BY <1>9, <2>1 DEF Progress
    <3>2. 2 \in DOMAIN open
      BY <2>1, OpenSequence
    <3>3. QED
      BY <3>1, <3>2 DEF CaptureInv, SpansInv, OpenInv, Started
  <2>3. Bears(span, After(P[at]))
    BY <2>2 DEF SetAttributes, After, Fields, Bears
  <2> DEFINE d == compromised \/ P[at].harm
  <2>4. /\ open' = [open EXCEPT ![Len(open)] = span]
        /\ UNCHANGED <<ended, at>> /\ acted' = TRUE /\ compromised' = d
    BY <1>11, <2>1 DEF RunBody, Stamp, P
  <2>5. Adds(d, compromised, P[at])
    BY DEF Adds
  <2> HIDE DEF span, d
  <2>6. Progress(P, [open EXCEPT ![Len(open)] = span], ended, at, TRUE, d)
    <3>1. Progress(P, open, ended, at, acted, compromised)
      BY <1>9, <2>1
    <3>2. QED
      BY <1>4, <2>1, <2>3, <2>5, <3>1, BodyProgress
  <2>7. QED
    BY <1>7, <1>9, <2>1, <2>4, <2>6
<1>12. CASE EndStep
  <2>1. Len(open) > 1 /\ trace' = trace
    BY <1>12 DEF EndStep, EndSpan
  <2>2. Len(open) # 0 /\ acted = TRUE
    <3>1. Len(open) # 0
      BY <2>1
    <3>2. acted /\ acted \in BOOLEAN
      BY <1>9, <1>12, <3>1 DEF EndStep, Progress
    <3>3. QED
      BY <3>1, <3>2
  <2>3. open[2].depth = 1
    <3>1. 2 \in DOMAIN open
      BY <2>1, OpenSequence
    <3>2. QED
      BY <3>1 DEF CaptureInv, SpansInv, OpenInv
  <2>4. /\ open' = SubSeq(open, 1, Len(open) - 1) /\ ended' = Append(ended, open[Len(open)])
        /\ at' = at + 1 /\ acted' = FALSE /\ compromised' = compromised
    BY <1>12 DEF EndStep, EndSpan
  <2>5. Progress(P, SubSeq(open, 1, Len(open) - 1), Append(ended, open[Len(open)]), at + 1, FALSE, compromised)
    BY <1>4, <1>9, <2>2, <2>3, EndProgress
  <2>6. QED
    BY <1>7, <1>9, <2>1, <2>2, <2>4, <2>5
<1>13. CASE Return
  <2>1. /\ Len(open) = 1 /\ at > Len(P) /\ ended' = Append(ended, open[1])
        /\ trace' = SortByStart(ended') /\ compromised' = compromised
    BY <1>13 DEF Return, Finish, P
  <2>2. Outcome(P, ended', compromised')
    BY <1>4, <1>9, <2>1, ReturnOutcome
  <2>3. trace' # <<>>
    <3>1. DOMAIN ended' = 1 .. Len(ended) + 1 /\ Len(ended) \in Nat
      BY <1>4, <2>1, AppendSequence
    <3>2. DOMAIN trace' = DOMAIN ended'
      BY <2>1 DEF SortByStart, SortBy
    <3>3. 1 \in DOMAIN trace'
      BY <3>1, <3>2
    <3>4. QED
      BY <3>3
  <2>4. QED
    BY <1>8, <2>2, <2>3
<1>14. CASE PairTick \/ UNCHANGED pairVars
  BY <1>1, <1>2, <1>14 DEF PairTick, Tick, pairVars, captureVars, ProgramInv
<1>15. ~Explore
  BY AnythingIsNoPair DEF Explore, InPair
<1>16. QED
  BY <1>10, <1>11, <1>12, <1>13, <1>14, <1>15 DEF PairNext
-----------------------------------------------------------------------------
(* The rules on a captured trace *)

\* They say of the trace what they say of the recorder's list, when only the
\* children of the session carry attributes.
LEMMA VerdictOfEnded ==
  ASSUME CaptureInv, trace # <<>>,
         \A p \in DOMAIN ended : Carries(ended[p]) => ended[p].depth = 1
  PROVE  EvaluateAll(trace) = EvaluateAll(ended)
<1> DEFINE n == Len(ended)
           D == 1 .. n
           R == Stable(ended)
<1>1. n \in Nat /\ DOMAIN ended = D /\ Starts(ended)
  BY EndedSequence
<1>2. trace = SortByStart(ended)
  BY DEF CaptureInv, TraceInv
<1>3. \A p, q \in D : <<p, q>> \in R <=> Earlier(ended, p, q)
  BY <1>1 DEF Stable
<1>4. \A p \in D : ended[p].start \in Nat
  BY <1>1 DEF Starts
<1>5. InOrder(R, n, ended, trace)
  <2>1. PICK T : ended \in Seq(T)
    BY EndedSequence DEF IsSequence
  <2>2. QED
    BY <1>1, <1>2, <2>1, SortIsInOrder
<1> HIDE DEF R
<1>6. PICK f \in [D -> D], pos \in [D -> D] :
        /\ trace = [p \in D |-> ended[f[p]]]
        /\ \A i \in D : f[pos[i]] = i /\ pos[f[i]] = i
        /\ \A i, j \in D : <<i, j>> \in R <=> pos[i] < pos[j]
  BY <1>5 DEF InOrder
<1>7. Moves(ended, trace, n, pos, f)
  <2>1. DOMAIN trace = D /\ Len(trace) = n
    BY <1>1, <1>6
  <2>2. \A p \in D : trace[pos[p]] = ended[p]
    BY <1>6
  <2>3. ASSUME NEW p \in D, NEW q \in D, p < q, Carries(ended[p]), Carries(ended[q])
        PROVE  pos[p] < pos[q]
    <3>1. ended[p].depth = 1 /\ ended[q].depth = 1 /\ p \in DOMAIN ended /\ q \in DOMAIN ended
      BY <1>1, <2>3
    <3>2. ended[p].start <= ended[q].start
      BY <2>3, <3>1, SiblingsInTurn
    <3>3. Earlier(ended, p, q)
      BY <1>4, <2>3, <3>2 DEF Earlier
    <3>4. QED
      BY <1>3, <1>6, <3>3
  <2>4. ASSUME NEW p \in D, NEW q \in D, Carries(ended[p]), Carries(ended[q])
        PROVE  p < q <=> pos[p] < pos[q]
    <3>1. p \in Nat /\ q \in Nat /\ pos[p] \in Nat /\ pos[q] \in Nat
      BY <1>1, <1>6
    <3>2. (p < q => pos[p] < pos[q]) /\ (q < p => pos[q] < pos[p])
      BY <2>3, <2>4
    <3>3. QED
      BY <3>1, <3>2
  <2>5. QED
    BY <1>1, <1>6, <2>1, <2>2, <2>4 DEF Moves
<1>8. QED
  BY <1>7, VerdictMoves

LEMMA VerdictOfOutcome ==
  ASSUME CaptureInv, trace # <<>>, NEW P, IsProgram(P), NEW c, Outcome(P, ended, c)
  PROVE  EvaluateAll(trace) = EvaluateAll(ended)
<1>1. Len(P) \in Nat /\ DOMAIN ended = 1 .. Len(P) + 1
  BY ProgramLength, EndedSequence DEF Outcome
<1>2. ASSUME NEW p \in DOMAIN ended, Carries(ended[p])
      PROVE  ended[p].depth = 1
  <2>1. CASE p \in 1 .. Len(P)
    BY <2>1 DEF Outcome, Recorded
  <2>2. CASE p = Len(P) + 1
    BY <1>2, <2>2 DEF Outcome, Carries, NoAttrs
  <2>3. QED
    BY <1>1, <2>1, <2>2
<1>3. QED
  BY <1>2, VerdictOfEnded

-----------------------------------------------------------------------------
(* Attributes that raise no alarm on the first span of a trace, or on one   *)
(* that others precede                                                      *)

Passive(attrs) ==
  /\ KeyEgress \notin DOMAIN attrs
  /\ KeyHITLRequired \in DOMAIN attrs => attrs[KeyHITLRequired] = FALSE
  /\ KeyMemProvenance \in DOMAIN attrs => KeyPrivilegeScope \notin DOMAIN attrs

ReadsOnly(attrs) ==
  /\ KeyEgress \notin DOMAIN attrs
  /\ KeyHITLRequired \notin DOMAIN attrs
  /\ KeyPrivilegeScope \in DOMAIN attrs => attrs[KeyPrivilegeScope].prefix = "read"

LEMMA QuietTrace ==
  ASSUME NEW e, IsSequence(e), Len(e) \in 1 .. LoopThreshold,
         Passive(e[1].attrs), \A i \in 2 .. Len(e) : ReadsOnly(e[i].attrs)
  PROVE  EvaluateAll(e) = {}
<1> DEFINE n == Len(e)
<1>1. n \in Nat /\ n >= 1 /\ n <= 5 /\ DOMAIN e = 1 .. n
  <2>1. DOMAIN e = 1 .. n
    BY DEF IsSequence
  <2>2. n \in 1 .. 5
    BY DEF LoopThreshold
  <2> HIDE DEF n
  <2>3. n \in Nat /\ n >= 1 /\ n <= 5
    BY <2>2
  <2>4. QED
    BY <2>1, <2>3
<1>2. \A i \in 1 .. n : i = 1 \/ ReadsOnly(e[i].attrs)
  BY <1>1
<1> HIDE DEF n
<1>3. ~InjectionExfil(e)
  <2>1. \A i \in 1 .. n : ~IsTrue(e[i], KeyEgress)
    BY <1>2 DEF Passive, ReadsOnly, IsTrue
  <2>2. QED
    <3>1. ASSUME NEW u \in FirstUntrusted(e), NEW j \in u .. Len(e)
          PROVE  j \in 1 .. n
      <4>1. u \in 1 .. n
        BY <1>1 DEF FirstUntrusted
      <4>2. QED
        BY <1>1, <4>1 DEF n
    <3>2. QED
      BY <2>1, <3>1 DEF InjectionExfil
<1>4. ~HITLBypass(e)
  <2>1. \A i \in 1 .. n : ~IsTrue(e[i], KeyHITLRequired)
    BY <1>2 DEF Passive, ReadsOnly, IsTrue
  <2>2. QED
    BY <1>1, <2>1 DEF HITLBypass
<1>5. ~LoopRunaway(e)
  <2>1. ASSUME NEW name
        PROVE  ~(Cardinality(Named(e, name)) > LoopThreshold)
    <3>1. Named(e, name) \in SUBSET (1 .. n)
      BY <1>1 DEF Named
    <3>2. IsFiniteSet(1 .. n) /\ Cardinality(1 .. n) = n
      BY <1>1, LowerIsFinite
    <3>3. IsFiniteSet(Named(e, name)) /\ Cardinality(Named(e, name)) <= n
      BY <3>1, <3>2, FS_Subset
    <3>4. Cardinality(Named(e, name)) \in Nat
      BY <3>3, FS_CardinalityType
    <3>5. QED
      BY <1>1, <3>3, <3>4 DEF LoopThreshold
  <2>2. QED
    BY <2>1 DEF LoopRunaway
<1>6. ~PrivilegeWidening(e)
  <2>1. SUFFICES ASSUME NEW j \in Scoped(e), NEW i \in Scoped(e), i < j,
                        Rank(e, i) < Rank(e, j)
                 PROVE  FALSE
    BY DEF PrivilegeWidening
  <2>2. j \in 1 .. n /\ i \in 1 .. n /\ j # 1
    BY <1>1, <2>1 DEF Scoped
  <2>3. e[j].attrs[KeyPrivilegeScope].prefix = "read"
    BY <1>2, <2>2 DEF Scoped, Has, ReadsOnly
  <2>4. Rank(e, j) = 1
    BY <2>3 DEF Rank, ScopeRank
  <2>5. Rank(e, i) \in {1, 2, 3}
    BY DEF Rank, ScopeRank
  <2>6. QED
    BY <2>1, <2>4, <2>5
<1>7. ~MemoryTaint(e)
  <2>1. SUFFICES ASSUME NEW i \in 1 .. n, NEW j \in 1 .. n, i <= j, Tainting(e[i]),
                        Has(e[j], KeyPrivilegeScope),
                        e[j].attrs[KeyPrivilegeScope].prefix = "write"
                 PROVE  FALSE
    BY <1>1 DEF MemoryTaint
  <2>2. j = 1
    BY <1>2, <2>1 DEF ReadsOnly, Has
  <2>3. i = 1
    BY <1>1, <2>1, <2>2
  <2>4. QED
    BY <2>1, <2>2, <2>3 DEF Tainting, Has, Passive
<1>8. QED
  BY <1>3, <1>4, <1>5, <1>6, <1>7 DEF EvaluateAll

\* What the evals expect of ASI01: untrusted input, then egress with more
\* privilege.
LEMMA InjectionAlarms ==
  ASSUME NEW e, IsSequence(e), Len(e) \in Nat, Len(e) >= 2,
         IsTrue(e[1], KeyUntrusted), IsTrue(e[2], KeyEgress),
         Has(e[1], KeyPrivilegeScope), Has(e[2], KeyPrivilegeScope),
         e[1].attrs[KeyPrivilegeScope].prefix = "read",
         e[2].attrs[KeyPrivilegeScope].prefix = "write"
  PROVE  {"GG-DET-01", "GG-DET-04"} \subseteq EvaluateAll(e)
<1>1. DOMAIN e = 1 .. Len(e) /\ 1 \in 1 .. Len(e) /\ 2 \in 1 .. Len(e)
  BY DEF IsSequence
<1>2. InjectionExfil(e)
  <2>1. 1 \in FirstUntrusted(e)
    BY <1>1 DEF FirstUntrusted
  <2>2. QED
    BY <1>1, <2>1 DEF InjectionExfil
<1>3. PrivilegeWidening(e)
  <2>1. 1 \in Scoped(e) /\ 2 \in Scoped(e)
    BY <1>1 DEF Scoped
  <2>2. Rank(e, 1) = 1 /\ Rank(e, 2) = 2
    BY DEF Rank, ScopeRank
  <2>3. \A i \in Scoped(e) : i < 2 => i = 1
    BY <1>1 DEF Scoped
  <2>4. QED
    BY <2>1, <2>2, <2>3 DEF PrivilegeWidening
<1>4. QED
  BY <1>2, <1>3 DEF EvaluateAll, RuleIDs

\* What they expect of MEMORY: a mutation decided from a tool's entry.
LEMMA TaintAlarm ==
  ASSUME NEW e, NEW i \in DOMAIN e, DOMAIN e \subseteq Nat, Tainting(e[i]),
         Has(e[i], KeyPrivilegeScope),
         e[i].attrs[KeyPrivilegeScope].prefix = "write"
  PROVE  {"GG-DET-05"} \subseteq EvaluateAll(e)
<1>1. i <= i
  OBVIOUS
<1>2. MemoryTaint(e)
  BY <1>1 DEF MemoryTaint
<1>3. QED
  BY <1>2 DEF EvaluateAll, RuleIDs

-----------------------------------------------------------------------------
(* What a step leaves on its span *)

Leaves(step, attrs, harm) ==
  /\ step.harm = harm
  /\ DOMAIN After(step) = DOMAIN attrs
  /\ \A k \in DOMAIN attrs : After(step)[k] = attrs[k]

\* Attributes with more of them stamped.
Stamped(attrs, stamp) ==
  [k \in DOMAIN attrs \cup DOMAIN stamp |-> IF k \in DOMAIN stamp THEN stamp[k] ELSE attrs[k]]

LEMMA StepLeaves ==
  ASSUME NEW name, NEW attrs, NEW harm
  PROVE  /\ Leaves(Step(name, attrs), attrs, FALSE)
         /\ Leaves(Acting(Step(name, attrs), harm), attrs, harm)
<1> DEFINE step == Step(name, attrs)
           acting == Acting(step, harm)
<1>1. step.attrs = attrs /\ DOMAIN step.stamp = {} /\ step.harm = FALSE
  BY DEF Step, NoAttrs
<1>2. acting.attrs = attrs /\ DOMAIN acting.stamp = {} /\ acting.harm = harm
  BY DEF Acting, Step, NoAttrs
<1> HIDE DEF step, acting
<1>3. Leaves(step, attrs, FALSE)
  BY <1>1 DEF Leaves, After
<1>4. Leaves(acting, attrs, harm)
  BY <1>2 DEF Leaves, After
<1>5. QED
  BY <1>3, <1>4 DEF step, acting

LEMMA SendingLeaves ==
  ASSUME NEW name, NEW attrs
  PROVE  /\ Leaves(Sending(Step(name, attrs), FALSE), attrs, FALSE)
         /\ Leaves(Sending(Step(name, attrs), TRUE),
                   Stamped(attrs, [k \in {KeyEgress} |-> TRUE]), TRUE)
<1> DEFINE step == Step(name, attrs)
           sent == Sending(step, TRUE)
           stamp == [k \in {KeyEgress} |-> TRUE]
<1>1. Sending(step, FALSE) = step
  BY DEF Sending
<1>2. sent.attrs = attrs /\ sent.stamp = stamp /\ sent.harm = TRUE
  BY DEF Sending, Step
<1> HIDE DEF sent, stamp
<1>3. Leaves(sent, Stamped(attrs, stamp), TRUE)
  BY <1>2 DEF Leaves, After, Stamped
<1>4. QED
  BY <1>1, <1>3, StepLeaves DEF sent, stamp

MemoryStamp(entry) ==
  [k \in {KeyMemProvenance, KeyUntrusted} |->
     IF k = KeyUntrusted THEN ~IsTrusted(entry) ELSE entry.provenance]

LEMMA DecidingLeaves ==
  ASSUME NEW name, NEW attrs, NEW entry, NEW acts
  PROVE  Leaves(Deciding(Step(name, attrs), entry, acts),
                Stamped(attrs, MemoryStamp(entry)), acts)
<1> DEFINE decided == Deciding(Step(name, attrs), entry, acts)
           stamp == MemoryStamp(entry)
<1>1. decided.attrs = attrs /\ decided.stamp = stamp /\ decided.harm = acts
  BY DEF Deciding, Step, MemoryStamp
<1> HIDE DEF decided, stamp
<1>2. Leaves(decided, Stamped(attrs, stamp), acts)
  BY <1>1 DEF Leaves, After, Stamped
<1>3. QED
  BY <1>2 DEF decided, stamp

-----------------------------------------------------------------------------
(* Programs *)

\* The hardened variant raises no alarm.
Quiet(P) ==
  /\ Passive(After(P[1]))
  /\ \A i \in 2 .. Len(P) : ReadsOnly(After(P[i]))

\* The vulnerable variant does the harm, the hardened one neither does it nor
\* raises an alarm.
Contrast(P) ==
  /\ IsProgram(P)
  /\ Harmed(P, Len(P)) <=> variant = "vulnerable"
  /\ variant = "hardened" => Quiet(P)

LEMMA PassiveStep ==
  ASSUME NEW step, NEW attrs, NEW harm, Leaves(step, attrs, harm)
  PROVE  /\ Passive(attrs) => Passive(After(step))
         /\ ReadsOnly(attrs) => ReadsOnly(After(step))
BY DEF Leaves, Passive, ReadsOnly

LEMMA OneStep ==
  ASSUME NEW s, NEW a, NEW h \in BOOLEAN, Leaves(s, a, h),
         h <=> variant = "vulnerable",
         variant = "hardened" => Passive(a)
  PROVE  Contrast(<<s>>)
<1> DEFINE P == <<s>>
<1>1. Len(P) = 1 /\ DOMAIN P = {1} /\ P[1] = s
  OBVIOUS
<1>2. IsSequence(P)
  <2>1. P \in Seq({s})
    OBVIOUS
  <2>2. QED
    BY <2>1 DEF IsSequence
<1> HIDE DEF P
<1>3. s.harm = h
  BY DEF Leaves
<1>4. IsProgram(P)
  BY <1>1, <1>2, <1>3 DEF IsProgram, LoopThreshold
<1>5. Harmed(P, Len(P)) <=> h
  BY <1>1, <1>3 DEF Harmed
<1>6. variant = "hardened" => Quiet(P)
  BY <1>1, PassiveStep DEF Quiet
<1>7. QED
  BY <1>4, <1>5, <1>6 DEF Contrast, P

LEMMA TwoSteps ==
  ASSUME NEW s, NEW a, NEW h \in BOOLEAN, Leaves(s, a, h),
         NEW r, NEW b, NEW g \in BOOLEAN, Leaves(r, b, g),
         (h \/ g) <=> variant = "vulnerable",
         variant = "hardened" => Passive(a) /\ ReadsOnly(b)
  PROVE  Contrast(<<s, r>>)
<1> DEFINE P == <<s, r>>
<1>1. Len(P) = 2 /\ DOMAIN P = {1, 2} /\ P[1] = s /\ P[2] = r
  OBVIOUS
<1>2. IsSequence(P)
  <2>1. P \in Seq({s, r})
    OBVIOUS
  <2>2. QED
    BY <2>1 DEF IsSequence
<1> HIDE DEF P
<1>3. s.harm = h /\ r.harm = g
  BY DEF Leaves
<1>4. IsProgram(P)
  BY <1>1, <1>2, <1>3 DEF IsProgram, LoopThreshold
<1>5. Harmed(P, Len(P)) <=> (h \/ g)
  <2>1. \A i : i \in 1 .. 2 <=> i = 1 \/ i = 2
    OBVIOUS
  <2>2. QED
    BY <1>1, <1>3, <2>1 DEF Harmed
<1>6. variant = "hardened" => Quiet(P)
  BY <1>1, PassiveStep DEF Quiet
<1>7. QED
  BY <1>4, <1>5, <1>6 DEF Contrast, P

-----------------------------------------------------------------------------
(* The pairs *)

LEMMA GoalHijack ==
  ASSUME variant \in Variants
  PROVE  Contrast(ASI01(variant = "vulnerable"))
<1> DEFINE read == Step("asi01.read_tool_output", ScopedUntrusted(ReadWeb))
           obey == Step("asi01.act_on_injected_instruction",
                        ScopedUntrusted(Scope("write", "egress")))
           gate == Step("asi01.egress_gate", WithScope(ReadWeb))
<1>1. Leaves(read, ScopedUntrusted(ReadWeb), FALSE)
  BY StepLeaves
<1>2. CASE variant = "vulnerable"
  <2>1. ASI01(variant = "vulnerable") = <<read, Sending(obey, TRUE)>>
    BY <1>2 DEF ASI01
  <2>2. Leaves(Sending(obey, TRUE),
               Stamped(ScopedUntrusted(Scope("write", "egress")), [k \in {KeyEgress} |-> TRUE]), TRUE)
    BY SendingLeaves
  <2> HIDE DEF read, obey
  <2>3. Contrast(<<read, Sending(obey, TRUE)>>)
    BY <1>1, <1>2, <2>2, TwoSteps
  <2>4. QED
    BY <2>1, <2>3
<1>3. CASE variant = "hardened"
  <2>1. ASI01(variant = "vulnerable") = <<read, Sending(gate, FALSE)>>
    BY <1>3 DEF ASI01, EgressAllowedAfterUntrusted
  <2>2. Leaves(Sending(gate, FALSE), WithScope(ReadWeb), FALSE)
    BY SendingLeaves
  <2>3. Passive(ScopedUntrusted(ReadWeb)) /\ ReadsOnly(WithScope(ReadWeb))
    BY DEF Passive, ReadsOnly, ScopedUntrusted, WithScope, ReadWeb, Scope, KeyEgress,
           KeyHITLRequired, KeyMemProvenance, KeyPrivilegeScope, KeyUntrusted
  <2> HIDE DEF read, gate
  <2>4. Contrast(<<read, Sending(gate, FALSE)>>)
    BY <1>1, <1>3, <2>2, <2>3, TwoSteps
  <2>5. QED
    BY <2>1, <2>4
<1>4. QED
  BY <1>2, <1>3 DEF Variants

LEMMA PrivilegeAbuse ==
  ASSUME variant \in Variants
  PROVE  Contrast(ASI03(variant = "vulnerable"))
<1> DEFINE scope == IF variant = "vulnerable" THEN Scope("admin", "*") ELSE ReadDB
           attempts == ScopeAllows(scope, "SELECT") /\ ScopeAllows(scope, "DELETE")
           read == Step("asi03.read_task", WithScope(scope))
           write == Acting(Step("asi03.attempted_write", WithScope(scope)), attempts)
<1>1. ASI03(variant = "vulnerable") = <<read, write>>
  BY DEF ASI03
<1>2. Leaves(read, WithScope(scope), FALSE) /\ Leaves(write, WithScope(scope), attempts)
  BY StepLeaves
<1>3. attempts \in BOOLEAN /\ (attempts <=> variant = "vulnerable")
  BY DEF ScopeAllows, Scope, ReadDB
<1>4. variant = "hardened" => Passive(WithScope(scope)) /\ ReadsOnly(WithScope(scope))
  BY DEF Passive, ReadsOnly, WithScope, ReadDB, Scope, KeyEgress,
         KeyHITLRequired, KeyMemProvenance, KeyPrivilegeScope
<1> HIDE DEF read, write, attempts, scope
<1>5. Contrast(<<read, write>>)
  BY <1>2, <1>3, <1>4, TwoSteps
<1>6. QED
  BY <1>1, <1>5

LEMMA Misuse ==
  ASSUME variant \in Variants
  PROVE  Contrast(ToolMisuse(variant = "vulnerable"))
<1> DEFINE attrs == [k \in {KeyPrivilegeScope, KeyHITLRequired} |->
                       IF k = KeyHITLRequired THEN FALSE ELSE Scope("read", "fs")]
           reads == IF variant = "vulnerable" THEN PathEscapesBoundary(DangerousArg)
                                              ELSE ArgAllowed(DangerousArg)
           invoke == Acting(Step("toolmisuse.invoke", attrs), reads)
<1>1. ToolMisuse(variant = "vulnerable") = <<invoke>>
  BY DEF ToolMisuse
<1>2. Leaves(invoke, attrs, reads)
  BY StepLeaves
<1>3. reads \in BOOLEAN /\ (reads <=> variant = "vulnerable")
  BY DEF PathEscapesBoundary, ArgAllowed, DangerousArg
<1>4. Passive(attrs)
  BY DEF Passive, KeyEgress, KeyHITLRequired, KeyMemProvenance, KeyPrivilegeScope
<1> HIDE DEF invoke, attrs, reads
<1>5. Contrast(<<invoke>>)
  BY <1>2, <1>3, <1>4, OneStep
<1>6. QED
  BY <1>1, <1>5

LEMMA Sandboxed ==
  ASSUME variant \in Variants
  PROVE  Contrast(Sandbox(variant = "vulnerable"))
<1> DEFINE read == Step("sandbox.read_agent_output", Untrusted)
           apply == Acting(Step("sandbox.apply_config_from_output", Untrusted),
                           ConfigAfter("output") # "trusted")
           notTrusted == [k \in {KeyUntrusted} |-> FALSE]
           load == Acting(Step("sandbox.load_trusted_config", notTrusted),
                          ConfigAfter("defaults") # "trusted")
<1>1. Leaves(read, Untrusted, FALSE)
  BY StepLeaves
<1>2. ConfigAfter("output") # "trusted" /\ ConfigAfter("defaults") = "trusted"
  BY DEF ConfigAfter
<1>3. CASE variant = "vulnerable"
  <2>1. Sandbox(variant = "vulnerable") = <<read, apply>>
    BY <1>3 DEF Sandbox
  <2>2. Leaves(apply, Untrusted, TRUE)
    <3>1. apply = Acting(Step("sandbox.apply_config_from_output", Untrusted), TRUE)
      BY <1>2
    <3>2. QED
      BY <3>1, StepLeaves
  <2> HIDE DEF read, apply
  <2>3. Contrast(<<read, apply>>)
    BY <1>1, <1>3, <2>2, TwoSteps
  <2>4. QED
    BY <2>1, <2>3
<1>4. CASE variant = "hardened"
  <2>1. Sandbox(variant = "vulnerable") = <<read, load>>
    BY <1>4 DEF Sandbox
  <2>2. Leaves(load, notTrusted, FALSE)
    <3>1. load = Acting(Step("sandbox.load_trusted_config", notTrusted), FALSE)
      BY <1>2
    <3>2. QED
      BY <3>1, StepLeaves
  <2>3. Passive(Untrusted) /\ ReadsOnly(notTrusted)
    BY DEF Passive, ReadsOnly, Untrusted, KeyEgress, KeyHITLRequired, KeyMemProvenance,
           KeyPrivilegeScope, KeyUntrusted
  <2> HIDE DEF read, load, notTrusted
  <2>4. Contrast(<<read, load>>)
    BY <1>1, <1>4, <2>2, <2>3, TwoSteps
  <2>5. QED
    BY <2>1, <2>4
<1>5. QED
  BY <1>3, <1>4 DEF Variants

LEMMA Poisoning ==
  ASSUME variant \in Variants
  PROVE  Contrast(MemoryPoisoning(variant = "vulnerable"))
<1> DEFINE scope == IF variant = "vulnerable" THEN Scope("write", "order") ELSE Scope("read", "memory")
           first == ScopedUntrusted(Scope("write", "memory"))
           acts == /\ variant = "vulnerable" \/ IsTrusted(PoisonedEntry)
                   /\ PoisonedEntry.value = "poison"
           write == Step("memory.write_untrusted", first)
           decide == Deciding(Step("memory.decide", WithScope(scope)), PoisonedEntry, acts)
           then == Stamped(WithScope(scope), MemoryStamp(PoisonedEntry))
<1>1. MemoryPoisoning(variant = "vulnerable") = <<write, decide>>
  BY DEF MemoryPoisoning
<1>2. Leaves(write, first, FALSE) /\ Leaves(decide, then, acts)
  BY StepLeaves, DecidingLeaves
<1>3. acts \in BOOLEAN /\ (acts <=> variant = "vulnerable")
  BY DEF PoisonedEntry, IsTrusted, Origin
<1>4. variant = "hardened" => Passive(first) /\ ReadsOnly(then)
  BY DEF Passive, ReadsOnly, ScopedUntrusted, WithScope, Scope, Stamped, MemoryStamp, KeyEgress,
         KeyHITLRequired, KeyMemProvenance, KeyPrivilegeScope, KeyUntrusted
<1> HIDE DEF write, decide, first, then, acts, scope
<1>5. Contrast(<<write, decide>>)
  BY <1>2, <1>3, <1>4, TwoSteps
<1>6. QED
  BY <1>1, <1>5

LEMMA InterAgent ==
  ASSUME variant \in Variants
  PROVE  Contrast(InterAgentTrust(variant = "vulnerable"))
<1> DEFINE hop == [k \in {KeyAgentHop, KeyUntrusted} |->
                     IF k = KeyUntrusted THEN TRUE
                                         ELSE Hop("analysis-agent", "utf8-arrow", "coordinator")]
           writes == ScopedUntrusted(Scope("write", "records"))
           reads == ScopedUntrusted(Scope("read", "records"))
           receive == Step("a2a.receive", hop)
           execute == Acting(Step("a2a.execute_instruction", writes), TRUE)
           validate == Acting(Step("a2a.validate_message", reads), A2AInstructionAuthorized("delete"))
<1>1. Leaves(receive, hop, FALSE)
  BY StepLeaves
<1>2. CASE variant = "vulnerable"
  <2>1. InterAgentTrust(variant = "vulnerable") = <<receive, execute>>
    BY <1>2 DEF InterAgentTrust
  <2>2. Leaves(execute, writes, TRUE)
    BY StepLeaves
  <2> HIDE DEF receive, execute, hop, writes
  <2>3. Contrast(<<receive, execute>>)
    BY <1>1, <1>2, <2>2, TwoSteps
  <2>4. QED
    BY <2>1, <2>3
<1>3. CASE variant = "hardened"
  <2>1. InterAgentTrust(variant = "vulnerable") = <<receive, validate>>
    BY <1>3 DEF InterAgentTrust
  <2>2. Leaves(validate, reads, FALSE)
    <3>1. validate = Acting(Step("a2a.validate_message", reads), FALSE)
      BY DEF A2AInstructionAuthorized
    <3>2. QED
      BY <3>1, StepLeaves
  <2>3. Passive(hop) /\ ReadsOnly(reads)
    BY DEF Passive, ReadsOnly, ScopedUntrusted, Scope, KeyEgress, KeyAgentHop, KeyHITLRequired,
           KeyMemProvenance, KeyPrivilegeScope, KeyUntrusted
  <2> HIDE DEF receive, validate, hop, reads
  <2>4. Contrast(<<receive, validate>>)
    BY <1>1, <1>3, <2>2, <2>3, TwoSteps
  <2>5. QED
    BY <2>1, <2>4
<1>4. QED
  BY <1>2, <1>3 DEF Variants

LEMMA ConfigTheft ==
  ASSUME variant \in Variants
  PROVE  Contrast(ConfigVector(variant = "vulnerable"))
<1> DEFINE disk == [k \in {KeyMemProvenance} |-> Origin("config", "disk")]
           env == [k \in {KeyMemProvenance} |-> Origin("env", "runtime")]
           leak == Acting(Step("config.read_artifact", disk), Disclosed("credential"))
           read == Acting(Step("config.read_artifact", disk), Disclosed("reference"))
           resolve == Step("config.resolve_runtime_secret", env)
<1>1. Disclosed("credential") /\ ~Disclosed("reference")
  BY DEF Disclosed
<1>2. CASE variant = "vulnerable"
  <2>1. ConfigVector(variant = "vulnerable") = <<leak>>
    BY <1>2 DEF ConfigVector
  <2>2. Leaves(leak, disk, TRUE)
    <3>1. leak = Acting(Step("config.read_artifact", disk), TRUE)
      BY <1>1 DEF Disclosed
    <3>2. QED
      BY <3>1, StepLeaves
  <2> HIDE DEF leak, disk
  <2>3. Contrast(<<leak>>)
    BY <1>2, <2>2, OneStep
  <2>4. QED
    BY <2>1, <2>3
<1>3. CASE variant = "hardened"
  <2>1. ConfigVector(variant = "vulnerable") = <<read, resolve>>
    BY <1>3 DEF ConfigVector
  <2>2. Leaves(read, disk, FALSE) /\ Leaves(resolve, env, FALSE)
    <3>1. read = Acting(Step("config.read_artifact", disk), FALSE)
      BY <1>1 DEF Disclosed
    <3>2. QED
      BY <3>1, StepLeaves
  <2>3. Passive(disk) /\ ReadsOnly(env)
    BY DEF Passive, ReadsOnly, KeyEgress, KeyHITLRequired, KeyMemProvenance, KeyPrivilegeScope
  <2> HIDE DEF read, resolve, disk, env
  <2>4. Contrast(<<read, resolve>>)
    BY <1>3, <2>2, <2>3, TwoSteps
  <2>5. QED
    BY <2>1, <2>4
<1>4. QED
  BY <1>2, <1>3 DEF Variants

LEMMA Supply ==
  ASSUME variant \in Variants
  PROVE  Contrast(SupplyChain(variant = "vulnerable"))
<1> DEFINE deps == WithScope(Scope("read", "deps"))
           resolve == Step("supplychain.resolve", deps)
           run == Sending(Step("supplychain.load_and_run", deps), TRUE)
           verify == Acting(Step("supplychain.verify", deps), Verified(ResolveLatest))
<1>1. Leaves(resolve, deps, FALSE)
  BY StepLeaves
<1>2. CASE variant = "vulnerable"
  <2>1. SupplyChain(variant = "vulnerable") = <<resolve, run>>
    BY <1>2 DEF SupplyChain
  <2>2. Leaves(run, Stamped(deps, [k \in {KeyEgress} |-> TRUE]), TRUE)
    BY SendingLeaves
  <2> HIDE DEF resolve, run, deps
  <2>3. Contrast(<<resolve, run>>)
    BY <1>1, <1>2, <2>2, TwoSteps
  <2>4. QED
    BY <2>1, <2>3
<1>3. CASE variant = "hardened"
  <2>1. SupplyChain(variant = "vulnerable") = <<resolve, verify>>
    BY <1>3 DEF SupplyChain
  <2>2. Leaves(verify, deps, FALSE)
    <3>1. verify = Acting(Step("supplychain.verify", deps), FALSE)
      BY DEF Verified, ResolveLatest
    <3>2. QED
      BY <3>1, StepLeaves
  <2>3. Passive(deps) /\ ReadsOnly(deps)
    BY DEF Passive, ReadsOnly, WithScope, Scope, KeyEgress, KeyHITLRequired, KeyMemProvenance,
           KeyPrivilegeScope
  <2> HIDE DEF resolve, verify, deps
  <2>4. Contrast(<<resolve, verify>>)
    BY <1>1, <1>3, <2>2, <2>3, TwoSteps
  <2>5. QED
    BY <2>1, <2>4
<1>4. QED
  BY <1>2, <1>3 DEF Variants

LEMMA ProgramContrast ==
  ASSUME InPair, variant \in Variants
  PROVE  Contrast(Program)
<1> DEFINE v == variant = "vulnerable"
<1>1. CASE pair = "ASI01"
  <2>1. Program = ASI01(v)
    BY <1>1 DEF Program, Steps
  <2>2. QED
    BY <2>1, GoalHijack
<1>2. CASE pair = "ASI03"
  <2>1. Program = ASI03(v)
    BY <1>2 DEF Program, Steps
  <2>2. QED
    BY <2>1, PrivilegeAbuse
<1>3. CASE pair = "TOOL-MISUSE"
  <2>1. Program = ToolMisuse(v)
    BY <1>3 DEF Program, Steps
  <2>2. QED
    BY <2>1, Misuse
<1>4. CASE pair = "SANDBOX"
  <2>1. Program = Sandbox(v)
    BY <1>4 DEF Program, Steps
  <2>2. QED
    BY <2>1, Sandboxed
<1>5. CASE pair = "MEMORY"
  <2>1. Program = MemoryPoisoning(v)
    BY <1>5 DEF Program, Steps
  <2>2. QED
    BY <2>1, Poisoning
<1>6. CASE pair = "A2A-TRUST"
  <2>1. Program = InterAgentTrust(v)
    BY <1>6 DEF Program, Steps
  <2>2. QED
    BY <2>1, InterAgent
<1>7. CASE pair = "CONFIG"
  <2>1. Program = ConfigVector(v)
    BY <1>7 DEF Program, Steps
  <2>2. QED
    BY <2>1, ConfigTheft
<1>8. CASE pair = "SUPPLY-CHAIN"
  <2>1. Program = SupplyChain(v)
    BY <1>8 DEF Program, Steps
  <2>2. QED
    BY <2>1, Supply
<1>9. QED
  BY <1>1, <1>2, <1>3, <1>4, <1>5, <1>6, <1>7, <1>8 DEF InPair, PairIDs

-----------------------------------------------------------------------------
(* Theorems *)

LEMMA ProgramInvariant == PairSpec => [](CaptureInv /\ ProgramInv)
<1>1. PairInit => ProgramInv
  <2>1. SUFFICES ASSUME PairInit PROVE ProgramInv
    OBVIOUS
  <2>2. variant \in Variants
    BY <2>1 DEF PairInit, Variants
  <2>3. InPair => IsProgram(Program)
    BY <2>2, ProgramContrast DEF Contrast
  <2>4. QED
    BY <2>1, <2>3, InitProgram
<1>2. CaptureInv /\ ProgramInv /\ [PairNext]_pairVars => ProgramInv'
  <2>1. SUFFICES ASSUME CaptureInv, ProgramInv, [PairNext]_pairVars PROVE ProgramInv'
    OBVIOUS
  <2>2. variant \in Variants
    BY <2>1 DEF ProgramInv
  <2>3. InPair => IsProgram(Program)
    BY <2>2, ProgramContrast DEF Contrast
  <2>4. QED
    BY <2>1, <2>3, ProgramStep
<1>3. QED
  BY <1>1, <1>2, CaptureInvariant, PTL DEF PairSpec

LEMMA CapturedOutcome ==
  ASSUME ProgramInv, Captured
  PROVE  /\ Contrast(Program) /\ IsProgram(Program)
         /\ Outcome(Program, ended, compromised)
<1>1. Contrast(Program)
  BY ProgramContrast DEF Captured, ProgramInv
<1>2. QED
  BY <1>1 DEF Captured, ProgramInv, Contrast

\* Whatever the clock does, a pair's vulnerable variant is compromised when it
\* has been captured, and its hardened variant is not.
THEOREM PairsKeepTheirVerdict == PairSpec => []PairsHold
<1>1. ProgramInv => PairsHold
  <2>1. SUFFICES ASSUME ProgramInv, Captured
                 PROVE  compromised <=> variant = "vulnerable"
    BY DEF PairsHold
  <2>2. QED
    BY <2>1, CapturedOutcome DEF Contrast, Outcome
<1>2. QED
  BY <1>1, ProgramInvariant, PTL

\* The spans of a hardened variant raise no alarm.
LEMMA HardenedIsSilent ==
  ASSUME CaptureInv, ProgramInv, Captured, variant = "hardened"
  PROVE  EvaluateAll(ended) = {}
<1> DEFINE n == Len(Program)
<1>1. Quiet(Program) /\ IsProgram(Program) /\ Outcome(Program, ended, compromised)
  BY CapturedOutcome DEF Contrast
<1>2. n \in Nat /\ n >= 1 /\ n <= 4
  BY <1>1, ProgramLength
<1>3. Len(ended) = n + 1 /\ IsSequence(ended)
  BY <1>1, EndedSequence DEF Outcome
<1>4. \A i \in 1 .. n : ended[i].attrs = After(Program[i])
  BY <1>1 DEF Outcome, Recorded
<1>5. ended[n + 1].attrs = NoAttrs
  BY <1>1 DEF Outcome
<1>6. ReadsOnly(NoAttrs)
  BY DEF ReadsOnly, NoAttrs
<1>7. Passive(ended[1].attrs)
  BY <1>1, <1>2, <1>4 DEF Quiet
<1>8. ASSUME NEW i \in 2 .. n + 1
      PROVE  ReadsOnly(ended[i].attrs)
  <2>1. CASE i = n + 1
    BY <1>5, <1>6, <2>1
  <2>2. CASE i # n + 1
    <3>1. i \in 2 .. n /\ i \in 1 .. n
      BY <1>2, <2>2
    <3>2. QED
      BY <1>1, <1>4, <3>1 DEF Quiet
  <2>3. QED
    BY <2>1, <2>2
<1> HIDE DEF n
<1>9. Len(ended) \in 1 .. LoopThreshold
  BY <1>2, <1>3 DEF LoopThreshold
<1>10. QED
  BY <1>3, <1>7, <1>8, <1>9, QuietTrace

\* The spans of the vulnerable variants raise the alarms the evals expect.
LEMMA HijackIsSeen ==
  ASSUME CaptureInv, ProgramInv, Captured, variant = "vulnerable", pair = "ASI01"
  PROVE  {"GG-DET-01", "GG-DET-04"} \subseteq EvaluateAll(ended)
<1> DEFINE read == Step("asi01.read_tool_output", ScopedUntrusted(ReadWeb))
           obey == Sending(Step("asi01.act_on_injected_instruction",
                                ScopedUntrusted(Scope("write", "egress"))), TRUE)
           sent == Stamped(ScopedUntrusted(Scope("write", "egress")), [k \in {KeyEgress} |-> TRUE])
<1>1. Program = <<read, obey>>
  BY DEF Program, Steps, ASI01
<1>2. Leaves(read, ScopedUntrusted(ReadWeb), FALSE) /\ Leaves(obey, sent, TRUE)
  BY StepLeaves, SendingLeaves
<1> HIDE DEF read, obey
<1>3. Len(Program) = 2 /\ Program[1] = read /\ Program[2] = obey
  BY <1>1
<1>4. /\ Len(ended) = 3 /\ IsSequence(ended)
      /\ ended[1].attrs = After(read) /\ ended[2].attrs = After(obey)
  BY <1>3, CapturedOutcome, EndedSequence DEF Outcome, Recorded
<1> DEFINE first == ScopedUntrusted(ReadWeb)
<1>5. /\ IsTrue(ended[1], KeyUntrusted) /\ Has(ended[1], KeyPrivilegeScope)
      /\ ended[1].attrs[KeyPrivilegeScope].prefix = "read"
  <2>1. /\ KeyUntrusted \in DOMAIN first /\ KeyPrivilegeScope \in DOMAIN first
        /\ first[KeyUntrusted] = TRUE /\ first[KeyPrivilegeScope].prefix = "read"
    BY DEF ScopedUntrusted, ReadWeb, Scope, KeyPrivilegeScope, KeyUntrusted
  <2> HIDE DEF first
  <2>2. /\ DOMAIN ended[1].attrs = DOMAIN first
        /\ \A k \in DOMAIN first : ended[1].attrs[k] = first[k]
    BY <1>2, <1>4 DEF Leaves, first
  <2>3. QED
    BY <2>1, <2>2 DEF IsTrue, Has
<1>6. /\ IsTrue(ended[2], KeyEgress) /\ Has(ended[2], KeyPrivilegeScope)
      /\ ended[2].attrs[KeyPrivilegeScope].prefix = "write"
  <2>1. /\ KeyEgress \in DOMAIN sent /\ KeyPrivilegeScope \in DOMAIN sent
        /\ sent[KeyEgress] = TRUE /\ sent[KeyPrivilegeScope].prefix = "write"
    BY DEF ScopedUntrusted, Stamped, Scope, KeyEgress, KeyPrivilegeScope, KeyUntrusted
  <2> HIDE DEF sent
  <2>2. /\ DOMAIN ended[2].attrs = DOMAIN sent
        /\ \A k \in DOMAIN sent : ended[2].attrs[k] = sent[k]
    BY <1>2, <1>4 DEF Leaves
  <2>3. QED
    BY <2>1, <2>2 DEF IsTrue, Has
<1>7. QED
  BY <1>4, <1>5, <1>6, InjectionAlarms

LEMMA PoisonIsSeen ==
  ASSUME CaptureInv, ProgramInv, Captured, variant = "vulnerable", pair = "MEMORY"
  PROVE  {"GG-DET-05"} \subseteq EvaluateAll(ended)
<1> DEFINE acts == /\ variant = "vulnerable" \/ IsTrusted(PoisonedEntry)
                   /\ PoisonedEntry.value = "poison"
           write == Step("memory.write_untrusted", ScopedUntrusted(Scope("write", "memory")))
           decide == Deciding(Step("memory.decide", WithScope(Scope("write", "order"))),
                              PoisonedEntry, acts)
           then == Stamped(WithScope(Scope("write", "order")), MemoryStamp(PoisonedEntry))
<1>1. Program = <<write, decide>>
  BY DEF Program, Steps, MemoryPoisoning
<1>2. Leaves(decide, then, acts)
  BY DecidingLeaves
<1> HIDE DEF write, decide
<1>3. Len(Program) = 2 /\ Program[2] = decide
  BY <1>1
<1>4. Len(ended) = 3 /\ ended[2].attrs = After(decide)
  BY <1>3, CapturedOutcome DEF Outcome, Recorded
<1>5. 2 \in DOMAIN ended /\ DOMAIN ended \subseteq Nat
  BY <1>4, EndedSequence
<1>6. /\ Tainting(ended[2]) /\ Has(ended[2], KeyPrivilegeScope)
      /\ ended[2].attrs[KeyPrivilegeScope].prefix = "write"
  <2>1. /\ KeyMemProvenance \in DOMAIN then /\ KeyPrivilegeScope \in DOMAIN then
        /\ IsUntrustedProvenance(then[KeyMemProvenance])
        /\ then[KeyPrivilegeScope].prefix = "write"
    BY DEF IsUntrustedProvenance, PoisonedEntry, Origin, Stamped, MemoryStamp, WithScope, Scope,
           KeyMemProvenance, KeyPrivilegeScope, KeyUntrusted
  <2> HIDE DEF then
  <2>2. /\ DOMAIN ended[2].attrs = DOMAIN then
        /\ \A k \in DOMAIN then : ended[2].attrs[k] = then[k]
    BY <1>2, <1>4 DEF Leaves
  <2>3. QED
    BY <2>1, <2>2 DEF Tainting, Has
<1>7. QED
  BY <1>5, <1>6, TaintAlarm

\* Whatever the clock does, the rules that name a pair fire on the trace of its
\* vulnerable variant, and none fires on that of a hardened one.
THEOREM RegressionHolds == PairSpec => []RegressionMatrix
<1>1. CaptureInv /\ ProgramInv => RegressionMatrix
  <2>1. SUFFICES ASSUME CaptureInv, ProgramInv, Captured
                 PROVE  IF variant = "vulnerable"
                        THEN ExpectedFirings[pair] \subseteq EvaluateAll(trace)
                        ELSE EvaluateAll(trace) = {}
    BY DEF RegressionMatrix
  <2>2. EvaluateAll(trace) = EvaluateAll(ended)
    BY <2>1, CapturedOutcome, VerdictOfOutcome DEF Captured
  <2>3. variant = "vulnerable" \/ variant = "hardened"
    BY <2>1 DEF ProgramInv, Variants
  <2>4. CASE variant = "hardened"
    BY <2>1, <2>2, <2>4, HardenedIsSilent
  <2>5. CASE variant = "vulnerable"
    <3>1. CASE pair = "ASI01"
      <4>1. ExpectedFirings[pair] = {"GG-DET-01", "GG-DET-04"}
        BY <3>1 DEF ExpectedFirings, PairIDs
      <4>2. QED
        BY <2>1, <2>2, <2>5, <3>1, <4>1, HijackIsSeen
    <3>2. CASE pair = "MEMORY"
      <4>1. ExpectedFirings[pair] = {"GG-DET-05"}
        BY <3>2 DEF ExpectedFirings, PairIDs
      <4>2. QED
        BY <2>1, <2>2, <2>5, <3>2, <4>1, PoisonIsSeen
    <3>3. CASE pair # "ASI01" /\ pair # "MEMORY"
      <4>1. ExpectedFirings[pair] = {}
        BY <2>1, <3>3 DEF ExpectedFirings, Captured, InPair
      <4>2. QED
        BY <2>5, <4>1
    <3>4. QED
      BY <3>1, <3>2, <3>3
  <2>6. QED
    BY <2>3, <2>4, <2>5
<1>2. QED
  BY <1>1, ProgramInvariant, PTL
=============================================================================
