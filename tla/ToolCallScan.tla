---------------------------- MODULE ToolCallScan ----------------------------
(***************************************************************************)
(* extractJSONObject of internal/model/toolbridge.go: one pass over the    *)
(* text of a reply that tracks depth, strings and escapes by hand and cuts *)
(* out the first object.  It is compared with the grammar json.Unmarshal   *)
(* holds the cut to, reduced to what decides where an object ends: braces, *)
(* strings and escapes.  A reply comes one character at a time; code       *)
(* fences, which hold no brace, are characters like others.                *)
(***************************************************************************)
EXTENDS Integers, Sequences

CONSTANT MaxLength  \* bound on the length of a reply

ASSUME LengthAssumption == MaxLength \in Nat

Open      == "{"
Close     == "}"
Quote     == "quote"
Backslash == "backslash"
Other     == "other"
Chars     == {Open, Close, Quote, Backslash, Other}

VARIABLES
  text,  \* the reply as far as it has been read
  from,  \* where the first open brace is, 0 before one was met
  loc,   \* the locals of the loop: depth, inString, escaped
  cut    \* what is returned, <<>> until then

vars == <<text, from, loc, cut>>

Init ==
  /\ text = <<>>
  /\ from = 0
  /\ loc = [depth |-> 0, inString |-> FALSE, escaped |-> FALSE]
  /\ cut = <<>>

\* strings.IndexByte: the loop starts at the first open brace.
Started(c) == from # 0 \/ c = Open

\* Mutant: only quotes and braces are looked at.
StepWithoutEscapes(l, c) ==
  IF c = Quote  THEN [l EXCEPT !.inString = ~@] ELSE
  IF l.inString THEN l ELSE
  IF c = Open   THEN [l EXCEPT !.depth = @ + 1] ELSE
  IF c = Close  THEN [l EXCEPT !.depth = @ - 1] ELSE l

\* Mutant: braces count inside strings too.
StepThroughStrings(l, c) ==
  IF l.escaped     THEN [l EXCEPT !.escaped = FALSE] ELSE
  IF c = Backslash THEN [l EXCEPT !.escaped = TRUE] ELSE
  IF c = Quote     THEN [l EXCEPT !.inString = ~@] ELSE
  IF c = Open      THEN [l EXCEPT !.depth = @ + 1] ELSE
  IF c = Close     THEN [l EXCEPT !.depth = @ - 1] ELSE l

\* The switch of the loop; the first case that applies wins.
Step(l, c) ==
  IF l.escaped     THEN [l EXCEPT !.escaped = FALSE] ELSE
  IF c = Backslash THEN [l EXCEPT !.escaped = TRUE] ELSE
  IF c = Quote     THEN [l EXCEPT !.inString = ~@] ELSE
  IF l.inString    THEN l ELSE
  IF c = Open      THEN [l EXCEPT !.depth = @ + 1] ELSE
  IF c = Close     THEN [l EXCEPT !.depth = @ - 1] ELSE l

\* Mutant: the depth is compared before it is brought down.
ReturnsEarly(l, c) ==
  c = Close /\ ~l.escaped /\ ~l.inString /\ Step(l, c).depth <= 1

\* The return inside the loop: this character is a structural close brace that
\* brings the depth to 0.
Returns(l, c) ==
  c = Close /\ ~l.escaped /\ ~l.inString /\ Step(l, c).depth = 0

Skip(c) ==
  /\ ~Started(c)
  /\ text' = Append(text, c)
  /\ UNCHANGED <<from, loc, cut>>

Scan(c) ==
  /\ Started(c)
  /\ text' = Append(text, c)
  /\ from' = IF from = 0 THEN Len(text') ELSE from
  /\ loc' = Step(loc, c)
  /\ cut' = IF Returns(loc, c) THEN SubSeq(text', from', Len(text')) ELSE cut

Next ==
  /\ cut = <<>> /\ Len(text) < MaxLength
  /\ \E c \in Chars : Skip(c) \/ Scan(c)

Spec == Init /\ [][Next]_vars

-----------------------------------------------------------------------------
(* The grammar.  G says which words of each shorter length are contents of *)
(* a string and which are sequences of items between braces.               *)

Concat(S, T) == {s \o t : s \in S, t \in T}

\* The contents of strings: characters but quotes and backslashes, and pairs of
\* a backslash and any character.
Contents(G, n) ==
  IF n = 0 THEN {<<>>} ELSE
  Concat({<<Open>>, <<Close>>, <<Other>>}, G[n - 1].contents)
    \cup IF n = 1 THEN {} ELSE
         Concat({<<Backslash, c>> : c \in Chars}, G[n - 2].contents)

StringsOf(G, n) ==
  IF n < 2 THEN {} ELSE Concat(Concat({<<Quote>>}, G[n - 2].contents), {<<Quote>>})

ObjectsOf(G, n) ==
  IF n < 2 THEN {} ELSE Concat(Concat({<<Open>>}, G[n - 2].items), {<<Close>>})

\* What else stands between braces (numbers, colons, brackets) is one character.
ItemsOf(G, n) ==
  (IF n = 1 THEN {<<Other>>} ELSE {}) \cup StringsOf(G, n) \cup ObjectsOf(G, n)

\* Sequences of items.
Items(G, n) ==
  IF n = 0 THEN {<<>>} ELSE
  UNION {Concat(ItemsOf(G, k), G[n - k].items) : k \in 1 .. n}

Grammar[n \in 0 .. MaxLength] ==
  [contents |-> Contents(Grammar, n), items |-> Items(Grammar, n)]

Objects == UNION {ObjectsOf(Grammar, n) : n \in 0 .. MaxLength}

-----------------------------------------------------------------------------
(* Properties *)

\* The locals: a depth above 0 exactly from the first brace to the cut, and no
\* string or escape outside.
ScanTypeOK ==
  /\ from \in 0 .. Len(text)
  /\ loc.depth > 0 <=> from # 0 /\ cut = <<>>
  /\ loc.inString \/ loc.escaped => loc.depth > 0

\* The prefixes of what was read from the first brace on that are objects.
ObjectsRead ==
  {n \in 1 .. Len(text) - from + 1 :
     from # 0 /\ SubSeq(text, from, from + n - 1) \in Objects}

\* The scanner cuts out an object exactly when one begins at the first brace,
\* and then the whole of it and nothing else (extractJSONObject): no brace in a
\* string and no escaped quote ends it early or late.
CutsTheObject ==
  IF cut \in Objects
  THEN ObjectsRead = {Len(cut)}
  ELSE ObjectsRead = {}

\* Whatever is cut out of a text without escapes is an object: no two halves, no
\* inner object, and no string closed by the end (extractJSONObject).
PlainCutsAreObjects ==
  cut # <<>> /\ (\A i \in DOMAIN cut : cut[i] # Backslash) => cut \in Objects
=============================================================================
