------------------------- MODULE MkhConfigFileProofs -------------------------
(***************************************************************************)
(* Proofs about MkhConfigFile, for every number of ports, set of bindings   *)
(* and cap: every file parses to a table, every table is written to a file, *)
(* and parsing what was written gives the table back, in its order, with    *)
(* nothing skipped.                                                         *)
(*                                                                         *)
(* Both directions are folds.  The induction is over the number of lines    *)
(* folded so far.                                                           *)
(***************************************************************************)
EXTENDS MkhConfigFile, FoldFacts, SequenceTheorems, TLAPS

-----------------------------------------------------------------------------
\* Lists of bindings

LEMMA ListFacts ==
    /\ \A s : s \in Lists <=> s \in Seq(Bindings) /\ Len(s) <= MaxBindings
    /\ <<>> \in Lists
    /\ MaxBindings \in Nat /\ MaxBindings >= 1
<1>1. MaxBindings \in Nat /\ MaxBindings >= 1
  BY TableAssumption
<1>2. ASSUME NEW s, s \in Lists PROVE s \in Seq(Bindings) /\ Len(s) <= MaxBindings
  <2>1. PICK n \in 0 .. MaxBindings : s \in [1 .. n -> Bindings]
    BY <1>2 DEF Lists, BoundedSeq, SeqOf
  <2>2. s \in Seq(Bindings)
    BY <1>1, <2>1, SeqDef
  <2>3. Len(s) = n
    BY <1>1, <2>1, <2>2, LenProperties
  <2> QED
    BY <1>1, <2>1, <2>2, <2>3
<1>3. ASSUME NEW s, s \in Seq(Bindings), Len(s) <= MaxBindings PROVE s \in Lists
  <2>1. Len(s) \in 0 .. MaxBindings /\ s \in [1 .. Len(s) -> Bindings]
    BY <1>1, <1>3, LenProperties
  <2> QED
    BY <2>1 DEF Lists, BoundedSeq, SeqOf
<1>4. <<>> \in Lists
  <2>1. <<>> \in [1 .. 0 -> Bindings] /\ 0 \in 0 .. MaxBindings
    BY <1>1
  <2> QED
    BY <2>1 DEF Lists, BoundedSeq, SeqOf
<1> QED
  BY <1>1, <1>2, <1>3, <1>4

\* A binding added.
LEMMA AppendList ==
    ASSUME NEW s \in Lists, NEW b \in Bindings, Len(s) < MaxBindings
    PROVE  /\ Append(s, b) \in Lists /\ Len(Append(s, b)) = Len(s) + 1
           /\ Append(s, b)[Len(s) + 1] = b
<1>1. s \in Seq(Bindings) /\ Len(s) \in Nat
  BY ListFacts, LenProperties
<1> DEFINE longer == Append(s, b)
<1>2. longer \in Seq(Bindings) /\ Len(longer) = Len(s) + 1 /\ longer[Len(s) + 1] = b
  BY <1>1, AppendProperties
<1> HIDE DEF longer
<1>3. longer \in Lists
  BY <1>1, <1>2, ListFacts
<1> QED
  BY <1>2, <1>3 DEF longer

-----------------------------------------------------------------------------
\* mkh_config_parse_line, once per line

Nothing == [table |-> Blank, skipped |-> FALSE]
Resolved == [table : Tables, skipped : BOOLEAN]

\* The fold of the first n lines, by the set of their positions.
Folded(lines, n, g) ==
    g = [s \in SUBSET (1 .. n) |->
            IF s = {} THEN Nothing ELSE ParseLine(g[s \ {Max(s)}], lines[Max(s)])]

LEMMA FoldExists ==
    ASSUME NEW lines, NEW n \in Nat
    PROVE  \E g : Folded(lines, n, g)
<1> DEFINE T == {k \in Nat : \E g : Folded(lines, k, g)}
<1>1. 0 \in T
  <2> DEFINE g == [s \in SUBSET (1 .. 0) |-> Nothing]
  <2>1. \A s \in SUBSET (1 .. 0) : s = {}
    OBVIOUS
  <2>2. Folded(lines, 0, g)
    BY <2>1 DEF Folded
  <2>3. 0 \in Nat
    OBVIOUS
  <2> QED
    BY <2>2, <2>3
<1>2. ASSUME NEW k \in T PROVE k + 1 \in T
  <2>1. k \in Nat /\ k + 1 \in Nat
    OBVIOUS
  <2>2. PICK g : Folded(lines, k, g)
    OBVIOUS
  <2> DEFINE h == [s \in SUBSET (1 .. k + 1) |->
                     IF k + 1 \in s THEN ParseLine(g[s \ {k + 1}], lines[k + 1]) ELSE g[s]]
             next(s) == IF s = {} THEN Nothing ELSE ParseLine(h[s \ {Max(s)}], lines[Max(s)])
  <2>3. ASSUME NEW s \in SUBSET (1 .. k + 1) PROVE h[s] = next(s)
    <3>1. CASE k + 1 \in s
      <4>1. Max(s) = k + 1
        <5>1. \A y \in s : k + 1 >= y
          BY <2>1
        <5>2. \A x \in s : (\A y \in s : x >= y) => x = k + 1
          BY <2>1, <3>1
        <5> QED
          BY <3>1, <5>1, <5>2 DEF Max
      <4>2. s \ {k + 1} \in SUBSET (1 .. k + 1) /\ k + 1 \notin s \ {k + 1}
        OBVIOUS
      <4>3. h[s \ {k + 1}] = g[s \ {k + 1}]
        BY <4>2
      <4> QED
        BY <3>1, <4>1, <4>3
    <3>2. CASE k + 1 \notin s
      <4>1. s \in SUBSET (1 .. k)
        <5>1. ASSUME NEW x \in s PROVE x \in 1 .. k
          BY <2>1, <3>2
        <5> QED
          BY <5>1
      <4>2. s \ {Max(s)} \in SUBSET (1 .. k + 1) /\ k + 1 \notin s \ {Max(s)}
        BY <3>2
      <4>3. h[s] = g[s] /\ h[s \ {Max(s)}] = g[s \ {Max(s)}]
        BY <3>2, <4>2
      <4>4. g[s] = IF s = {} THEN Nothing ELSE ParseLine(g[s \ {Max(s)}], lines[Max(s)])
        BY <2>2, <4>1 DEF Folded
      <4> QED
        BY <4>3, <4>4
    <3> QED
      BY <3>1, <3>2
  <2>4. h = [s \in SUBSET (1 .. k + 1) |-> next(s)]
    BY <2>3
  <2>5. Folded(lines, k + 1, h)
    BY <2>4 DEF Folded
  <2> QED
    BY <2>1, <2>5
<1>3. T \in SUBSET Nat
  OBVIOUS
<1>4. T = Nat
  <2> HIDE DEF T
  <2> QED
    BY <1>1, <1>2, <1>3, SetInduction
<1> QED
  BY <1>4

\* What the lines parse to, on an empty table.
Parsed(lines) == FoldLeft(ParseLine, Nothing, lines)

LEMMA ParsedRun ==
    ASSUME NEW lines \in Seq(Line)
    PROVE  \E run : /\ run[0] = Nothing
                    /\ \A n \in 1 .. Len(lines) : run[n] = ParseLine(run[n - 1], lines[n])
                    /\ Parsed(lines) = run[Len(lines)]
<1> DEFINE N == Len(lines)
           G == CHOOSE g : g = [s \in SUBSET DOMAIN lines |->
                    IF s = {} THEN Nothing ELSE ParseLine(g[s \ {Max(s)}], lines[Max(s)])]
<1>1. N \in Nat /\ DOMAIN lines = 1 .. N
  BY LenProperties
<1>2. Parsed(lines) = G[DOMAIN lines]
  BY Zenon DEF Parsed, FoldLeft, MapThenFoldSet
<1>3. Folded(lines, N, G)
  <2>1. \E g : Folded(lines, N, g)
    BY <1>1, FoldExists
  <2>2. G = CHOOSE g : Folded(lines, N, g)
    BY <1>1, Zenon DEF Folded
  <2> QED
    BY <2>1, <2>2, Zenon
<1> HIDE DEF G, N
<1> DEFINE run == [n \in 0 .. N |-> G[1 .. n]]
<1>4. \A s \in SUBSET (1 .. N) : G[s] = IF s = {} THEN Nothing
                                        ELSE ParseLine(G[s \ {Max(s)}], lines[Max(s)])
  BY <1>3 DEF Folded
<1>5. run[0] = Nothing
  <2>1. 1 .. 0 = {} /\ 0 \in 0 .. N
    BY <1>1
  <2>2. run[0] = G[1 .. 0]
    BY <2>1
  <2> QED
    BY <1>4, <2>1, <2>2
<1>6. ASSUME NEW n \in 1 .. N PROVE run[n] = ParseLine(run[n - 1], lines[n])
  <2>1. n \in 0 .. N /\ n - 1 \in 0 .. N /\ 1 .. n \in SUBSET (1 .. N) /\ n \in 1 .. n
    BY <1>1
  <2>2. (1 .. n) \ {n} = 1 .. n - 1
    BY <1>1
  <2>3. Max(1 .. n) = n
    <3>1. \A y \in 1 .. n : n >= y
      BY <1>1
    <3>2. \A x \in 1 .. n : (\A y \in 1 .. n : x >= y) => x = n
      BY <1>1
    <3> QED
      BY <2>1, <3>1, <3>2 DEF Max
  <2>4. G[1 .. n] = ParseLine(G[1 .. n - 1], lines[n])
    BY <1>4, <2>1, <2>2, <2>3
  <2> QED
    BY <2>1, <2>4
<1>7. Parsed(lines) = run[N]
  BY <1>1, <1>2
<1> HIDE DEF run
<1> QED
  BY <1>5, <1>6, <1>7 DEF N

LEMMA ParsedEmpty == Parsed(<<>>) = Nothing
<1>1. <<>> \in Seq(Line) /\ Len(<<>>) = 0
  BY EmptySeq
<1> QED
  BY <1>1, ParsedRun

LEMMA ParsedAppend ==
    ASSUME NEW lines \in Seq(Line), NEW line \in Line
    PROVE  Parsed(Append(lines, line)) = ParseLine(Parsed(lines), line)
<1> DEFINE longer == Append(lines, line)
<1>1. Len(lines) \in Nat
  BY LenProperties
<1>2. /\ longer \in Seq(Line) /\ Len(longer) = Len(lines) + 1
      /\ longer[Len(lines) + 1] = line
      /\ \A n \in 1 .. Len(lines) : longer[n] = lines[n]
  BY AppendProperties
<1> HIDE DEF longer
<1>3. PICK f : /\ f[0] = Nothing
               /\ \A n \in 1 .. Len(lines) : f[n] = ParseLine(f[n - 1], lines[n])
               /\ Parsed(lines) = f[Len(lines)]
  BY ParsedRun
<1>4. PICK g : /\ g[0] = Nothing
               /\ \A n \in 1 .. Len(longer) : g[n] = ParseLine(g[n - 1], longer[n])
               /\ Parsed(longer) = g[Len(longer)]
  BY <1>2, ParsedRun
<1> DEFINE T == {n \in Nat : n <= Len(lines) => f[n] = g[n]}
<1>5. T = Nat
  <2>1. 0 \in T
    BY <1>3, <1>4
  <2>2. ASSUME NEW n \in T PROVE n + 1 \in T
    <3> SUFFICES ASSUME n + 1 <= Len(lines) PROVE f[n + 1] = g[n + 1]
      OBVIOUS
    <3>1. n + 1 \in 1 .. Len(lines) /\ n + 1 \in 1 .. Len(longer) /\ (n + 1) - 1 = n /\ n <= Len(lines)
      BY <1>1, <1>2
    <3>2. f[n] = g[n] /\ longer[n + 1] = lines[n + 1]
      BY <1>2, <3>1
    <3>3. f[n + 1] = ParseLine(f[n], lines[n + 1]) /\ g[n + 1] = ParseLine(g[n], longer[n + 1])
      BY <1>3, <1>4, <3>1
    <3> QED
      BY <3>2, <3>3
  <2>3. T \in SUBSET Nat
    OBVIOUS
  <2> HIDE DEF T
  <2> QED
    BY <2>1, <2>2, <2>3, SetInduction
<1>6. f[Len(lines)] = g[Len(lines)]
  BY <1>1, <1>5
<1>7. Len(longer) \in 1 .. Len(longer) /\ Len(longer) - 1 = Len(lines)
  BY <1>1, <1>2
<1>8. g[Len(longer)] = ParseLine(g[Len(lines)], line)
  BY <1>2, <1>4, <1>7
<1> QED
  BY <1>3, <1>4, <1>6, <1>8 DEF longer

\* A line, whatever it is, leaves a table.
LEMMA ParseLineType ==
    ASSUME NEW parsed \in Resolved, NEW line \in Line
    PROVE  ParseLine(parsed, line) \in Resolved
<1> DEFINE list == parsed.table[line.port]
<1>1. parsed.table \in [TablePorts -> Lists] /\ line.port \in TablePorts /\ list \in Lists
  BY DEF Resolved, Tables, Line
<1>2. CASE line.binding = Malformed \/ Len(list) >= MaxBindings
  BY <1>1, <1>2 DEF ParseLine, Resolved
<1>3. CASE ~(line.binding = Malformed \/ Len(list) >= MaxBindings)
  <2>1. line.binding \in Bindings
    BY <1>3 DEF Line
  <2>2. Append(list, line.binding) \in Lists
    <3>1. Len(list) \in Nat
      BY <1>1, ListFacts, LenProperties
    <3>2. Len(list) < MaxBindings
      BY <1>3, <3>1, ListFacts
    <3> QED
      BY <1>1, <2>1, <3>2, AppendList
  <2> QED
    BY <1>1, <1>3, <2>2 DEF ParseLine, Resolved, Tables
<1> QED
  BY <1>2, <1>3

LEMMA NothingType == Nothing \in Resolved
BY ListFacts DEF Nothing, Resolved, Blank, Tables

LEMMA ParsedType ==
    ASSUME NEW lines \in Seq(Line)
    PROVE  Parsed(lines) \in Resolved
<1>1. PICK f : /\ f[0] = Nothing
               /\ \A n \in 1 .. Len(lines) : f[n] = ParseLine(f[n - 1], lines[n])
               /\ Parsed(lines) = f[Len(lines)]
  BY ParsedRun
<1>2. Len(lines) \in Nat
  BY LenProperties
<1> DEFINE T == {n \in Nat : n <= Len(lines) => f[n] \in Resolved}
<1>3. T = Nat
  <2>1. 0 \in T
    BY <1>1, NothingType
  <2>2. ASSUME NEW n \in T PROVE n + 1 \in T
    <3> SUFFICES ASSUME n + 1 <= Len(lines) PROVE f[n + 1] \in Resolved
      OBVIOUS
    <3>1. n + 1 \in 1 .. Len(lines) /\ (n + 1) - 1 = n /\ n <= Len(lines)
      BY <1>2
    <3>2. f[n] \in Resolved /\ lines[n + 1] \in Line
      BY <3>1, ElementOfSeq
    <3> QED
      BY <1>1, <3>1, <3>2, ParseLineType
  <2>3. T \in SUBSET Nat
    OBVIOUS
  <2> HIDE DEF T
  <2> QED
    BY <2>1, <2>2, <2>3, SetInduction
<1> QED
  BY <1>1, <1>2, <1>3

\* The bindings a table gets where it has none.
LEMMA WithFallbacksType ==
    ASSUME NEW t \in Tables
    PROVE  WithFallbacks(t) \in Tables
<1>1. ASSUME NEW b \in Bindings PROVE <<b>> \in Lists
  <2>1. <<b>> \in Seq(Bindings) /\ Len(<<b>>) = 1
    OBVIOUS
  <2> QED
    BY <2>1, ListFacts
<1>2. \A p \in DOMAIN Fallback : Fallback[p] \in Bindings
  BY TableAssumption
<1> QED
  BY <1>1, <1>2 DEF WithFallbacks, Tables

LEMMA BlankType == Blank \in Tables
BY ListFacts DEF Blank, Tables

\* Every file a boot or a reload finds resolves to a table.
THEOREM LoadIsATable ==
    ASSUME NEW file \in File
    PROVE  Load(file) \in Tables /\ Parse(file) \in Resolved
<1>1. Parse(file) = Parsed(file.lines) /\ file.lines \in Seq(Line)
  BY DEF Parse, Parsed, Nothing, File
<1>2. Parse(file) \in Resolved
  BY <1>1, ParsedType
<1>3. Parse(file).table \in Tables
  BY <1>2 DEF Resolved
<1> QED
  BY <1>2, <1>3, WithFallbacksType DEF Load

-----------------------------------------------------------------------------
\* mkh_config_serialize, port by port

LEMMA FlattenRun ==
    ASSUME NEW seqs, NEW N \in Nat \ {0}, Len(seqs) = N
    PROVE  \E run : /\ run[1] = seqs[1]
                    /\ \A n \in 2 .. N : run[n] = run[n - 1] \o seqs[n]
                    /\ FlattenSeq(seqs) = run[N]
<1> DEFINE step(n, g) == g = [i \in 1 .. n |-> IF i = 1 THEN seqs[i] ELSE g[i - 1] \o seqs[i]]
           G == CHOOSE g : step(N, g)
           T == {n \in Nat : \E g : step(n, g)}
<1>1. T = Nat
  <2>1. 0 \in T
    <3>1. step(0, [i \in 1 .. 0 |-> seqs[i]])
      OBVIOUS
    <3>2. 0 \in Nat
      OBVIOUS
    <3> HIDE DEF step
    <3> QED
      BY <3>1, <3>2
  <2>2. ASSUME NEW n \in T PROVE n + 1 \in T
    <3>1. n \in Nat /\ n + 1 \in Nat
      OBVIOUS
    <3>2. PICK g : step(n, g)
      OBVIOUS
    <3> DEFINE h == [i \in 1 .. n + 1 |-> IF i = 1 THEN seqs[i] ELSE g[i - 1] \o seqs[i]]
               body(i) == IF i = 1 THEN seqs[i] ELSE h[i - 1] \o seqs[i]
    <3>3. ASSUME NEW i \in 1 .. n + 1 PROVE h[i] = body(i)
      <4>1. CASE i = 1
        BY <4>1
      <4>2. CASE i # 1
        <5>1. i - 1 \in 1 .. n /\ i - 1 \in 1 .. n + 1
          BY <3>1, <4>2
        <5>2. g[i - 1] = IF i - 1 = 1 THEN seqs[i - 1] ELSE g[(i - 1) - 1] \o seqs[i - 1]
          BY <3>2, <5>1
        <5>3. h[i - 1] = IF i - 1 = 1 THEN seqs[i - 1] ELSE g[(i - 1) - 1] \o seqs[i - 1]
          BY <5>1
        <5> QED
          BY <4>2, <5>2, <5>3
      <4> QED
        BY <4>1, <4>2
    <3>4. h = [i \in 1 .. n + 1 |-> body(i)]
      BY <3>3
    <3>5. step(n + 1, h)
      BY <3>4
    <3> HIDE DEF step, h
    <3> QED
      BY <3>1, <3>5
  <2>3. T \in SUBSET Nat
    OBVIOUS
  <2> HIDE DEF T
  <2> QED
    BY <2>1, <2>2, <2>3, SetInduction
<1>2. FlattenSeq(seqs) = G[N]
  <2>1. Len(seqs) # 0
    OBVIOUS
  <2> QED
    BY <2>1, Zenon DEF FlattenSeq
<1>3. step(N, G)
  <2>1. N \in T
    BY <1>1
  <2>2. \E g : step(N, g)
    BY <2>1
  <2> HIDE DEF step
  <2> QED
    BY <2>2
<1> HIDE DEF G, T
<1>4. G[1] = seqs[1]
  BY <1>3
<1>5. ASSUME NEW n \in 2 .. N PROVE G[n] = G[n - 1] \o seqs[n]
  <2>1. n \in 1 .. N /\ n # 1
    OBVIOUS
  <2> QED
    BY <1>3, <2>1
<1> QED
  BY <1>2, <1>4, <1>5

\* The line of a binding, and what is stored of it.
LineOf(t, p, i) == [port |-> p, binding |-> AsWritten[t[p][i]]]
FirstLines(t, p, k) == [i \in 1 .. k |-> LineOf(t, p, i)]
FirstStored(t, p, k) == [i \in 1 .. k |-> AsWritten[t[p][i]]]

\* The stored bindings of the first ports only.
UpTo(t, n) == [p \in TablePorts |-> IF p <= n THEN Stored(t)[p] ELSE <<>>]

LEMMA PortFacts ==
    ASSUME NEW t \in Tables, NEW p \in TablePorts
    PROVE  /\ t[p] \in Seq(Bindings) /\ Len(t[p]) \in Nat /\ Len(t[p]) <= MaxBindings
           /\ DOMAIN t[p] = 1 .. Len(t[p])
           /\ \A i \in 1 .. Len(t[p]) : AsWritten[t[p][i]] \in Bindings /\ LineOf(t, p, i) \in Line
<1>1. t[p] \in Lists
  BY DEF Tables
<1>2. t[p] \in Seq(Bindings) /\ Len(t[p]) <= MaxBindings
  BY <1>1, ListFacts
<1>3. Len(t[p]) \in Nat /\ DOMAIN t[p] = 1 .. Len(t[p])
  BY <1>2, LenProperties
<1>4. \A i \in 1 .. Len(t[p]) : t[p][i] \in Bindings
  BY <1>2, ElementOfSeq
<1>5. \A b \in Bindings : AsWritten[b] \in Bindings
  BY TableAssumption
<1> QED
  BY <1>2, <1>3, <1>4, <1>5 DEF LineOf, Line

LEMMA FirstFacts ==
    ASSUME NEW t \in Tables, NEW p \in TablePorts, NEW k \in 0 .. Len(t[p])
    PROVE  /\ FirstLines(t, p, k) \in Seq(Line) /\ Len(FirstLines(t, p, k)) = k
           /\ FirstStored(t, p, k) \in Lists /\ Len(FirstStored(t, p, k)) = k
<1>1. k \in Nat /\ k <= MaxBindings /\ \A i \in 1 .. k : i \in 1 .. Len(t[p])
  BY PortFacts, ListFacts
<1>2. FirstLines(t, p, k) \in [1 .. k -> Line] /\ FirstStored(t, p, k) \in [1 .. k -> Bindings]
  BY <1>1, PortFacts DEF FirstLines, FirstStored
<1>3. FirstLines(t, p, k) \in Seq(Line) /\ FirstStored(t, p, k) \in Seq(Bindings)
  BY <1>1, <1>2, SeqDef
<1>4. Len(FirstLines(t, p, k)) = k /\ Len(FirstStored(t, p, k)) = k
  BY <1>1, <1>2, <1>3, LenProperties
<1> QED
  BY <1>1, <1>3, <1>4, ListFacts

LEMMA StoredType ==
    ASSUME NEW t \in Tables
    PROVE  /\ Stored(t) \in Tables
           /\ \A p \in TablePorts : /\ Stored(t)[p] = FirstStored(t, p, Len(t[p]))
                                    /\ Len(Stored(t)[p]) = Len(t[p])
<1>1. ASSUME NEW p \in TablePorts PROVE Stored(t)[p] = FirstStored(t, p, Len(t[p]))
  BY PortFacts DEF Stored, FirstStored
<1>2. ASSUME NEW p \in TablePorts
      PROVE  FirstStored(t, p, Len(t[p])) \in Lists /\ Len(FirstStored(t, p, Len(t[p]))) = Len(t[p])
  <2>1. Len(t[p]) \in 0 .. Len(t[p])
    BY PortFacts
  <2> QED
    BY <2>1, FirstFacts
<1>3. \A p \in TablePorts : Stored(t)[p] \in Lists
  BY <1>1, <1>2
<1>4. Stored(t) = [p \in TablePorts |-> Stored(t)[p]]
  BY DEF Stored
<1>5. Stored(t) \in Tables
  BY <1>3, <1>4, Zenon DEF Tables
<1> QED
  BY <1>1, <1>2, <1>5

\* Parsing one more line of a port adds its binding: there is room for it.
LEMMA ParsedLine ==
    ASSUME NEW t \in Tables, NEW p \in TablePorts, NEW a \in Seq(Line), NEW k \in Nat,
           k + 1 \in 1 .. Len(t[p]), NEW base \in Tables,
           Parsed(a \o FirstLines(t, p, k)) =
               [table |-> [base EXCEPT ![p] = FirstStored(t, p, k)], skipped |-> FALSE]
    PROVE  Parsed(a \o FirstLines(t, p, k + 1)) =
               [table |-> [base EXCEPT ![p] = FirstStored(t, p, k + 1)], skipped |-> FALSE]
<1> DEFINE line == LineOf(t, p, k + 1)
           lines == FirstLines(t, p, k)
           more == FirstLines(t, p, k + 1)
           some == FirstStored(t, p, k)
           parsed == [table |-> [base EXCEPT ![p] = some], skipped |-> FALSE]
<1>1. k \in 0 .. Len(t[p]) /\ k + 1 \in 0 .. Len(t[p]) /\ k < MaxBindings
  BY PortFacts, ListFacts
<1>2. /\ lines \in Seq(Line) /\ Len(lines) = k
      /\ some \in Lists /\ Len(some) = k /\ some \in Seq(Bindings)
  BY <1>1, FirstFacts, ListFacts
<1>3. more \in Seq(Line) /\ Len(more) = k + 1
  BY <1>1, FirstFacts
<1>4. line \in Line /\ line.port = p /\ line.binding = AsWritten[t[p][k + 1]] /\ line.binding \in Bindings
  BY PortFacts DEF LineOf
<1>5. a \o more = Append(a \o lines, line)
  <2>1. more = Append(lines, line)
    <3> DEFINE app == Append(lines, line)
    <3>1. /\ app \in Seq(Line) /\ Len(app) = k + 1 /\ app[k + 1] = line
          /\ \A i \in 1 .. k : app[i] = lines[i]
      BY <1>2, <1>4, AppendProperties
    <3>2. \A i \in 1 .. k : more[i] = lines[i]
      BY DEF FirstLines
    <3>3. more[k + 1] = line
      BY DEF FirstLines
    <3> HIDE DEF app, more, lines, line
    <3>4. \A i \in 1 .. k + 1 : more[i] = app[i]
      BY <3>1, <3>2, <3>3
    <3>5. more = app
      BY <1>3, <3>1, <3>4, SeqEqual
    <3> QED
      BY <3>5 DEF app
  <2> HIDE DEF more, lines, line
  <2>2. more = lines \o <<line>> /\ <<line>> \in Seq(Line)
    BY <1>2, <1>4, <2>1, AppendIsConcat
  <2>3. a \o (lines \o <<line>>) = (a \o lines) \o <<line>>
    BY <1>2, <2>2, ConcatAssociative
  <2>4. a \o lines \in Seq(Line)
    BY <1>2, ConcatProperties
  <2>5. (a \o lines) \o <<line>> = Append(a \o lines, line)
    BY <1>4, <2>4, AppendIsConcat
  <2> QED
    BY <2>2, <2>3, <2>5
<1>6. Parsed(Append(a \o lines, line)) = ParseLine(parsed, line)
  <2>1. a \o lines \in Seq(Line)
    BY <1>2, ConcatProperties
  <2> QED
    BY <1>4, <2>1, ParsedAppend
<1>7. Append(some, line.binding) = FirstStored(t, p, k + 1)
  <2> DEFINE app == Append(some, line.binding)
             all == FirstStored(t, p, k + 1)
  <2>1. /\ app \in Seq(Bindings) /\ Len(app) = k + 1 /\ app[k + 1] = line.binding
        /\ \A i \in 1 .. k : app[i] = some[i]
    BY <1>2, <1>4, AppendProperties
  <2>2. all \in Seq(Bindings) /\ Len(all) = k + 1
    BY <1>1, FirstFacts, ListFacts
  <2>3. (\A i \in 1 .. k : all[i] = some[i]) /\ all[k + 1] = line.binding
    BY <1>4 DEF FirstStored
  <2> HIDE DEF app, all, some, line
  <2>4. \A i \in 1 .. k + 1 : all[i] = app[i]
    BY <2>1, <2>3
  <2>5. all = app
    BY <2>1, <2>2, <2>4, SeqEqual
  <2> QED
    BY <2>5 DEF app, all
<1>8. parsed.table[p] = some /\ DOMAIN base = TablePorts
  BY DEF Tables
<1>9. line.binding # Malformed /\ ~(Len(parsed.table[line.port]) >= MaxBindings)
  <2>1. line.binding # Malformed
    BY <1>4, TableAssumption
  <2>2. ~(k >= MaxBindings)
    BY <1>1, ListFacts
  <2> QED
    BY <1>2, <1>4, <1>8, <2>1, <2>2
<1>10. ParseLine(parsed, line) = [parsed EXCEPT !.table[p] = Append(some, line.binding)]
  BY <1>4, <1>8, <1>9 DEF ParseLine
<1>11. [parsed EXCEPT !.table[p] = Append(some, line.binding)] =
            [table |-> [base EXCEPT ![p] = Append(some, line.binding)], skipped |-> FALSE]
  BY <1>8
<1> QED
  BY <1>5, <1>6, <1>7, <1>10, <1>11

LEMMA ParsedPort ==
    ASSUME NEW t \in Tables, NEW p \in TablePorts, NEW a \in Seq(Line),
           Parsed(a) = [table |-> UpTo(t, p - 1), skipped |-> FALSE]
    PROVE  LET lines == FirstLines(t, p, Len(t[p])) IN
           a \o lines \in Seq(Line) /\ Parsed(a \o lines) = [table |-> UpTo(t, p), skipped |-> FALSE]
<1> DEFINE base == UpTo(t, p - 1)
           N == Len(t[p])
           T == {k \in Nat : k <= N =>
                    Parsed(a \o FirstLines(t, p, k)) =
                        [table |-> [base EXCEPT ![p] = FirstStored(t, p, k)], skipped |-> FALSE]}
<1>1. N \in Nat /\ 0 \in 0 .. N /\ N \in 0 .. N
  BY PortFacts
<1>2. p \in Int /\ base \in Tables /\ base[p] = <<>>
  <2>1. p \in Int
    BY TableAssumption DEF TablePorts
  <2>2. \A q \in TablePorts : Stored(t)[q] \in Lists
    BY StoredType DEF Tables
  <2>3. base \in Tables
    BY <2>2, ListFacts DEF UpTo, Tables
  <2> QED
    BY <2>1, <2>3 DEF UpTo
<1>3. T = Nat
  <2>1. 0 \in T
    <3>1. FirstLines(t, p, 0) \in Seq(Line) /\ Len(FirstLines(t, p, 0)) = 0
      BY <1>1, FirstFacts
    <3>2. FirstLines(t, p, 0) = <<>>
      BY <3>1, EmptySeq
    <3>3. a \o FirstLines(t, p, 0) = a
      BY <3>2, ConcatEmptySeq
    <3>4. FirstStored(t, p, 0) \in Seq(Bindings) /\ Len(FirstStored(t, p, 0)) = 0
      BY <1>1, FirstFacts, ListFacts
    <3>5. FirstStored(t, p, 0) = <<>>
      BY <3>4, EmptySeq
    <3>6. [base EXCEPT ![p] = FirstStored(t, p, 0)] = base
      BY <1>2, <3>5 DEF Tables
    <3> HIDE DEF base
    <3>7. Parsed(a \o FirstLines(t, p, 0)) =
              [table |-> [base EXCEPT ![p] = FirstStored(t, p, 0)], skipped |-> FALSE]
      BY <3>3, <3>6 DEF base
    <3> QED
      BY <3>7
  <2>2. ASSUME NEW k \in T PROVE k + 1 \in T
    <3> SUFFICES ASSUME k + 1 <= N
                 PROVE  Parsed(a \o FirstLines(t, p, k + 1)) =
                            [table |-> [base EXCEPT ![p] = FirstStored(t, p, k + 1)], skipped |-> FALSE]
      OBVIOUS
    <3>1. k \in Nat /\ k + 1 \in 1 .. N /\ k <= N
      BY <1>1
    <3>2. Parsed(a \o FirstLines(t, p, k)) =
              [table |-> [base EXCEPT ![p] = FirstStored(t, p, k)], skipped |-> FALSE]
      BY <3>1
    <3> HIDE DEF base, T
    <3> QED
      BY <1>2, <3>1, <3>2, ParsedLine
  <2>3. T \in SUBSET Nat
    OBVIOUS
  <2> HIDE DEF T
  <2> QED
    BY <2>1, <2>2, <2>3, SetInduction
<1>4. Parsed(a \o FirstLines(t, p, N)) =
          [table |-> [base EXCEPT ![p] = FirstStored(t, p, N)], skipped |-> FALSE]
  <2>1. N \in T /\ N <= N
    BY <1>1, <1>3
  <2> HIDE DEF base, N
  <2> QED
    BY <2>1
<1>5. [base EXCEPT ![p] = FirstStored(t, p, N)] = UpTo(t, p)
  <2>1. Stored(t)[p] = FirstStored(t, p, N)
    BY StoredType
  <2>2. \A q \in TablePorts : q \in Int /\ (q <= p <=> q = p \/ q <= p - 1)
    BY <1>2, TableAssumption DEF TablePorts
  <2> QED
    BY <2>1, <2>2 DEF UpTo
<1>6. a \o FirstLines(t, p, N) \in Seq(Line)
  BY <1>1, FirstFacts, ConcatProperties
<1> HIDE DEF base, T
<1> QED
  BY <1>4, <1>5, <1>6

\* What mkh_config_serialize writes parses to the stored table, line by line.
LEMMA SerializedParses ==
    ASSUME NEW t \in Tables
    PROVE  /\ Serialize(t) \in Seq(Line)
           /\ Parsed(Serialize(t)) = [table |-> Stored(t), skipped |-> FALSE]
<1> DEFINE rows == [p \in TablePorts |-> FirstLines(t, p, Len(t[p]))]
           N == NumPorts
<1>1. N \in Nat \ {0} /\ TablePorts = 1 .. N
  BY TableAssumption DEF TablePorts
<1>2. Serialize(t) = FlattenSeq(rows)
  <2>1. [p \in TablePorts |-> [i \in DOMAIN t[p] |-> [port |-> p, binding |-> AsWritten[t[p][i]]]]] = rows
    BY PortFacts DEF FirstLines, LineOf
  <2> HIDE DEF rows
  <2> QED
    BY <2>1 DEF Serialize
<1>3. ASSUME NEW p \in 1 .. N PROVE rows[p] = FirstLines(t, p, Len(t[p])) /\ rows[p] \in Seq(Line)
  <2>1. p \in TablePorts /\ Len(t[p]) \in 0 .. Len(t[p])
    BY <1>1, <1>3, PortFacts
  <2> QED
    BY <2>1, FirstFacts
<1>4. Len(rows) = N
  <2>1. rows \in [1 .. N -> Seq(Line)]
    BY <1>1, <1>3
  <2> HIDE DEF rows, N
  <2>2. rows \in Seq(Seq(Line))
    BY <1>1, <2>1, SeqDef
  <2>3. Len(rows) \in Nat /\ DOMAIN rows = 1 .. Len(rows) /\ DOMAIN rows = 1 .. N
    BY <2>1, <2>2, LenProperties
  <2>4. N \in 1 .. Len(rows)
    BY <1>1, <2>3
  <2>5. Len(rows) \in 1 .. N
    BY <2>3, <2>4
  <2> DEFINE len == Len(rows)
  <2>6. len \in Nat /\ N \in Nat /\ N \in 1 .. len /\ len \in 1 .. N
    BY <1>1, <2>3, <2>4, <2>5
  <2> HIDE DEF len
  <2>7. len = N
    BY <2>6
  <2> QED
    BY <2>7 DEF len
<1> HIDE DEF rows, N
<1>5. PICK run : /\ run[1] = rows[1]
                 /\ \A n \in 2 .. N : run[n] = run[n - 1] \o rows[n]
                 /\ FlattenSeq(rows) = run[N]
  BY <1>1, <1>4, FlattenRun
<1> DEFINE good(n) == run[n] \in Seq(Line) /\ Parsed(run[n]) = [table |-> UpTo(t, n), skipped |-> FALSE]
           T == {n \in Nat : n + 1 <= N => good(n + 1)}
<1>6. T = Nat
  <2>1. 0 \in T
    <3>1. 1 \in TablePorts /\ 1 \in 1 .. N
      BY <1>1
    <3>2. UpTo(t, 0) = Blank
      BY <1>1 DEF UpTo, Blank
    <3>3. <<>> \in Seq(Line) /\ Parsed(<<>>) = [table |-> UpTo(t, 1 - 1), skipped |-> FALSE]
      BY <3>2, ParsedEmpty, EmptySeq DEF Nothing
    <3>4. <<>> \o rows[1] = rows[1]
      BY <1>3, <3>1, ConcatEmptySeq
    <3> DEFINE lines == FirstLines(t, 1, Len(t[1]))
    <3>5. <<>> \o lines \in Seq(Line) /\ Parsed(<<>> \o lines) = [table |-> UpTo(t, 1), skipped |-> FALSE]
      BY <3>1, <3>3, ParsedPort
    <3>6. lines = rows[1]
      BY <1>3, <3>1
    <3>7. good(1)
      BY <1>5, <3>4, <3>5, <3>6
    <3>8. 0 \in Nat /\ 0 + 1 = 1
      OBVIOUS
    <3> HIDE DEF good
    <3> QED
      BY <3>7, <3>8
  <2>2. ASSUME NEW n \in T PROVE n + 1 \in T
    <3> DEFINE m == n + 1
               p == m + 1
    <3> SUFFICES ASSUME p <= N PROVE good(p)
      OBVIOUS
    <3>1. n \in Nat /\ p \in 2 .. N /\ p \in 1 .. N /\ p \in TablePorts /\ p - 1 = m /\ m <= N
      BY <1>1
    <3>2. good(m)
      BY <3>1
    <3> HIDE DEF m, p, T
    <3>3. run[m] \in Seq(Line) /\ Parsed(run[m]) = [table |-> UpTo(t, p - 1), skipped |-> FALSE]
      BY <3>1, <3>2
    <3> DEFINE lines == FirstLines(t, p, Len(t[p]))
    <3>4. run[m] \o lines \in Seq(Line) /\ Parsed(run[m] \o lines) = [table |-> UpTo(t, p), skipped |-> FALSE]
      BY <3>1, <3>3, ParsedPort
    <3>5. lines = rows[p] /\ run[p] = run[m] \o rows[p]
      BY <1>3, <1>5, <3>1
    <3> QED
      BY <3>4, <3>5
  <2>3. T \in SUBSET Nat
    OBVIOUS
  <2> HIDE DEF T
  <2> QED
    BY <2>1, <2>2, <2>3, SetInduction
<1>7. good(N)
  <2>1. N - 1 \in Nat /\ (N - 1) + 1 = N
    BY <1>1
  <2>2. N - 1 \in T /\ (N - 1) + 1 <= N
    <3> HIDE DEF T
    <3>1. N - 1 \in T
      BY <1>6, <2>1
    <3> QED
      BY <1>1, <2>1, <3>1
  <2> HIDE DEF good
  <2>3. good((N - 1) + 1)
    BY <2>2
  <2> QED
    BY <2>1, <2>3
<1>8. UpTo(t, N) = Stored(t)
  <2>1. \A p \in TablePorts : p <= N
    BY <1>1
  <2>2. Stored(t) = [p \in TablePorts |-> Stored(t)[p]]
    BY DEF Stored
  <2>3. UpTo(t, N) = [p \in TablePorts |-> Stored(t)[p]]
    BY <2>1 DEF UpTo
  <2> QED
    BY <2>2, <2>3
<1> QED
  BY <1>2, <1>5, <1>7, <1>8

\* A save of any table writes a file that parses to that table without its axis modes, in
\* its order, with no line skipped.
THEOREM RoundTrip ==
    ASSUME NEW t \in Tables
    PROVE  /\ FileOf(t) \in File
           /\ Parse(FileOf(t)) = [table |-> Stored(t), skipped |-> FALSE]
           /\ Load(FileOf(t)) = WithFallbacks(Stored(t))
<1>1. /\ Serialize(t) \in Seq(Line)
      /\ Parsed(Serialize(t)) = [table |-> Stored(t), skipped |-> FALSE]
  BY SerializedParses
<1>2. Current \in -2 .. Current /\ ~(Current < 0)
  BY FileAssumption
<1>3. FileOf(t) \in File
  BY <1>1, <1>2 DEF FileOf, File
<1>4. Parse(FileOf(t)) = Parsed(Serialize(t))
  BY DEF Parse, Parsed, Nothing, FileOf
<1> QED
  BY <1>1, <1>3, <1>4 DEF Load

\* A table that came from a file, fallbacks and all, needs no fallback when it comes back.
THEOREM LoadedComesBack ==
    ASSUME NEW file \in File
    PROVE  Load(FileOf(Load(file))) = Stored(Load(file))
<1> DEFINE t == Load(file)
<1>1. t \in Tables
  BY LoadIsATable
<1>2. Load(FileOf(t)) = WithFallbacks(Stored(t))
  BY <1>1, RoundTrip
<1>3. ASSUME NEW p \in TablePorts, Stored(t)[p] = <<>> PROVE p \notin DOMAIN Fallback
  <2>1. t[p] \in Seq(Bindings) /\ Len(t[p]) = Len(Stored(t)[p])
    BY <1>1, <1>3, PortFacts, StoredType
  <2>2. t[p] = <<>>
    BY <1>3, <2>1, EmptySeq
  <2>3. t = WithFallbacks(Parse(file).table)
    BY DEF Load
  <2>4. <<Fallback[p]>> # <<>>
    OBVIOUS
  <2> QED
    BY <2>2, <2>3, <2>4 DEF WithFallbacks
<1>4. Stored(t) = [p \in TablePorts |-> Stored(t)[p]]
  BY DEF Stored
<1> HIDE DEF t
<1>5. WithFallbacks(Stored(t)) = [p \in TablePorts |-> Stored(t)[p]]
  BY <1>3 DEF WithFallbacks
<1> QED
  BY <1>2, <1>4, <1>5 DEF t

\* A second save changes nothing more.
THEOREM StoredIsStable ==
    ASSUME NEW t \in Tables
    PROVE  Stored(Stored(t)) = Stored(t) /\ FileOf(Stored(t)) = FileOf(t)
<1> DEFINE u == Stored(t)
<1>1. u \in Tables /\ \A p \in TablePorts : u[p] = FirstStored(t, p, Len(t[p])) /\ Len(u[p]) = Len(t[p])
  BY StoredType
<1>2. ASSUME NEW p \in TablePorts
      PROVE  /\ DOMAIN u[p] = 1 .. Len(t[p]) /\ DOMAIN t[p] = 1 .. Len(t[p])
             /\ \A i \in 1 .. Len(t[p]) : AsWritten[u[p][i]] = u[p][i] /\ u[p][i] = AsWritten[t[p][i]]
  <2>1. DOMAIN u[p] = 1 .. Len(t[p]) /\ DOMAIN t[p] = 1 .. Len(t[p])
    BY <1>1, PortFacts
  <2>2. ASSUME NEW i \in 1 .. Len(t[p])
        PROVE  AsWritten[u[p][i]] = u[p][i] /\ u[p][i] = AsWritten[t[p][i]]
    <3>1. u[p][i] = AsWritten[t[p][i]]
      <4>1. u[p] = FirstStored(t, p, Len(t[p]))
        BY <1>1
      <4> HIDE DEF u
      <4> QED
        BY <4>1 DEF FirstStored
    <3>2. t[p][i] \in Bindings
      BY PortFacts, ElementOfSeq
    <3> QED
      BY <3>1, <3>2, TableAssumption
  <2> QED
    BY <2>1, <2>2
<1>3. Stored(u) = [p \in TablePorts |-> [i \in 1 .. Len(t[p]) |-> u[p][i]]]
  BY <1>2 DEF Stored
<1>4. Stored(t) = [p \in TablePorts |-> [i \in 1 .. Len(t[p]) |-> u[p][i]]]
  BY <1>2 DEF Stored
<1>5. \A p \in TablePorts : [i \in DOMAIN u[p] |-> [port |-> p, binding |-> AsWritten[u[p][i]]]]
                          = [i \in DOMAIN t[p] |-> [port |-> p, binding |-> AsWritten[t[p][i]]]]
  BY <1>2
<1>6. Serialize(u) = Serialize(t)
  <2> DEFINE rows(x) == [p \in TablePorts |->
                           [i \in DOMAIN x[p] |-> [port |-> p, binding |-> AsWritten[x[p][i]]]]]
  <2>1. rows(u) = rows(t)
    BY <1>5
  <2>2. Serialize(u) = FlattenSeq(rows(u)) /\ Serialize(t) = FlattenSeq(rows(t))
    BY DEF Serialize
  <2> HIDE DEF rows
  <2> QED
    BY <2>1, <2>2
<1> QED
  BY <1>3, <1>4, <1>6 DEF FileOf

===============================================================================
