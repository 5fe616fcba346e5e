---------------------------- MODULE Mouse_proofs ----------------------------
(***************************************************************************)
(* The mouse, for every size of the screen and of the terminal's buffer,   *)
(* every text and every movement: the pointer stays on the screen, nothing *)
(* is lit but the pointer and the selection, what was selected is what is  *)
(* pasted, and the paste, which keys, readers and runC interrupt, gets     *)
(* into the buffer in order, with no gap but what a full buffer ignored.   *)
(***************************************************************************)
EXTENDS Mouse, Terminal_proofs, FiniteSetTheorems

-----------------------------------------------------------------------------
(***************************************************************************)
(* Positions, spans and what is copied of them.                            *)
(***************************************************************************)

\* A place on the screen is a position.
LEMMA PositionFacts ==
    ASSUME NEW c \in Columns, NEW r \in Rows
    PROVE  Position(c, r) \in Cells
<1>1. /\ c \in Nat /\ r \in Nat /\ WIDTH \in Nat /\ HEIGHT \in Nat
      /\ c < WIDTH /\ r < HEIGHT
  BY MouseAssumption DEF Columns, Rows
<1>2. ((HEIGHT - 1) - r) * WIDTH \in Nat
  <2>1. ASSUME NEW m \in Nat, NEW n \in Nat PROVE m * n \in Nat
    BY <2>1
  <2>2. (HEIGHT - 1) - r \in Nat
    BY <1>1
  <2> QED BY <1>1, <2>1, <2>2
<1>3. r * WIDTH \in Nat /\ HEIGHT * WIDTH \in Nat
  BY <1>1
<1>4. ((HEIGHT - 1) - r) * WIDTH = ((HEIGHT * WIDTH) - WIDTH) - (r * WIDTH)
  BY <1>1
<1>5. WIDTH * HEIGHT = HEIGHT * WIDTH
  BY <1>1
<1>6. (r * WIDTH) + c \in 0..((WIDTH * HEIGHT) - 1)
  <2> DEFINE a == r * WIDTH
             b == HEIGHT * WIDTH
  <2>1. a \in Nat /\ b \in Nat /\ (b - WIDTH) - a \in Nat /\ WIDTH * HEIGHT = b
    BY <1>2, <1>3, <1>4, <1>5
  <2> HIDE DEF a, b
  <2>2. a + c \in 0..(b - 1)
    BY <1>1, <2>1
  <2> QED BY <2>1, <2>2 DEF a
<1> QED BY <1>6 DEF Position, Cells

\* The positions are numbers, and the screen has one.
LEMMA CellsFacts ==
    /\ Cells \subseteq Nat
    /\ 0 \in Cells
    /\ \A a, b \in Cells : Span(a, b) \subseteq Cells /\ a \in Span(a, b) /\ b \in Span(a, b)
<1>1. WIDTH \in Nat \ {0} /\ HEIGHT \in Nat \ {0}
  BY MouseAssumption
<1>2. 0 \in Cells
  <2>1. 0 \in Columns /\ 0 \in Rows
    BY <1>1 DEF Columns, Rows
  <2>2. Position(0, 0) = 0
    BY <1>1 DEF Position
  <2> QED BY <2>1, <2>2, PositionFacts
<1> DEFINE n == WIDTH * HEIGHT
<1>3. n \in Int /\ Cells = 0..(n - 1)
  BY <1>1 DEF Cells
<1> HIDE DEF n
<1>4. ASSUME NEW a \in Cells, NEW b \in Cells
      PROVE  Span(a, b) \subseteq Cells /\ a \in Span(a, b) /\ b \in Span(a, b)
  BY <1>3 DEF Span
<1> QED BY <1>2, <1>3, <1>4

\* The end of a span that comes first, and how long it is.
LEMMA SpanFacts ==
    ASSUME NEW a \in Cells, NEW b \in Cells
    PROVE  \E first \in Cells, last \in Cells :
              /\ first = (IF a <= b THEN a ELSE b)
              /\ first <= last
              /\ Span(a, b) = first..last
              /\ Cardinality(Span(a, b)) = (last - first) + 1
<1> DEFINE first == IF a <= b THEN a ELSE b
           last == IF a <= b THEN b ELSE a
<1>1. a \in Int /\ b \in Int
  BY CellsFacts
<1>2. first \in Cells /\ last \in Cells /\ first \in Int /\ last \in Int /\ first <= last
  BY <1>1
<1>3. Span(a, b) = first..last
  BY <1>1 DEF Span
<1> HIDE DEF last
<1>4. Cardinality(first..last) = (last - first) + 1
  <2> HIDE DEF first
  <2>1. Cardinality(first..last) = IF first > last THEN 0 ELSE last - first + 1
    BY <1>2, FS_Interval
  <2> QED BY <1>2, <2>1
<1> QED BY <1>2, <1>3, <1>4

\* copyMouse gives the characters of the span, each at its place.
LEMMA CopyFacts ==
    ASSUME NEW a \in Cells, NEW b \in Cells
    PROVE  /\ copyMouse(a, b) \in Seq(Char)
           /\ Len(copyMouse(a, b)) = Cardinality(Span(a, b))
           /\ \A p \in Span(a, b) :
                 copyMouse(a, b)[1 + Cardinality({ q \in Span(a, b) : q < p })] = Text[p]
<1>1. PICK first \in Cells, last \in Cells :
              /\ first = (IF a <= b THEN a ELSE b)
              /\ first <= last
              /\ Span(a, b) = first..last
              /\ Cardinality(Span(a, b)) = (last - first) + 1
  BY SpanFacts
<1> DEFINE n == (last - first) + 1
<1>2. first \in Nat /\ last \in Nat /\ n \in Nat
  BY <1>1, CellsFacts
<1>3. copyMouse(a, b) = [i \in 1..n |-> Text[first + i - 1]]
  BY <1>1 DEF copyMouse
<1>4. \A i \in 1..n : first + i - 1 \in Cells
  <2>1. first..last \subseteq Cells
    BY <1>1, CellsFacts
  <2>2. ASSUME NEW i \in 1..n PROVE first + i - 1 \in first..last
    BY <1>2
  <2> QED BY <2>1, <2>2
<1>5. Text \in [Cells -> Char]
  BY MouseAssumption
<1>6. copyMouse(a, b) \in Seq(Char) /\ Len(copyMouse(a, b)) = n
  <2>1. copyMouse(a, b) \in [1..n -> Char]
    BY <1>3, <1>4, <1>5
  <2> HIDE DEF n
  <2> QED BY <1>2, <2>1
<1>7. ASSUME NEW p \in first..last
      PROVE  copyMouse(a, b)[1 + Cardinality({ q \in first..last : q < p })] = Text[p]
  <2>1. p \in Int /\ first <= p /\ p <= last /\ p - 1 \in Int
    BY <1>2
  <2>2. { q \in first..last : q < p } = first..(p - 1)
    BY <1>2, <2>1
  <2>3. Cardinality(first..(p - 1)) = p - first
    <3> DEFINE e == p - 1
    <3>1. e \in Int
      BY <2>1
    <3> HIDE DEF e
    <3>2. Cardinality(first..e) = IF first > e THEN 0 ELSE e - first + 1
      BY <1>2, <3>1, FS_Interval
    <3> QED BY <1>2, <2>1, <3>1, <3>2 DEF e
  <2>4. 1 + (p - first) \in 1..n /\ first + (1 + (p - first)) - 1 = p
    BY <1>2, <2>1
  <2> QED BY <1>3, <2>2, <2>3, <2>4
<1> QED BY <1>1, <1>6, <1>7

-----------------------------------------------------------------------------
(***************************************************************************)
(* The invariant.  In all of a packet, not only between two, what is lit   *)
(* is the selection and the pointer; after the buttons were looked at the  *)
(* selection ends at the pointer, which is why the pointer, when it moves  *)
(* away, leaves a gap in no more than the selection's end.                 *)
(***************************************************************************)

Selected == IF selecting THEN Span(init, fin) ELSE {}

LitCells ==
    /\ lit \subseteq Selected \cup {Pointer}
    /\ Selected \ {fin} \subseteq lit
    /\ mouse_cycle = 3 /\ selecting => fin = Pointer

Copied ==
    /\ mouseSelect \in Seq(Char)
    /\ h \in 0..Len(mouseSelect)
    /\ selecting \/ mouseSelect # <<>> => mouseSelect = copyMouse(init, fin)

\* What the history o of the characters u, of a paste of s of which i were
\* taken and those in d ignored, says: later characters have later numbers, and
\* every number from any of them on is that of a character after it, or ignored.
Tracks(o, u, s, i, d) ==
    \A n \in 1..Len(o) : o[n] # 0 =>
        /\ o[n] <= i /\ u[n] = s[o[n]]
        /\ \A m \in 1..Len(o) : n < m /\ o[m] # 0 => o[n] < o[m]
        /\ \A k \in o[n]..i : k \in d \/ \E m \in n..Len(o) : o[m] = k

Tracked ==
    /\ origin \in Seq(Nat) /\ Len(origin) = Len(unread)
    /\ mouse_cycle # 3 => \A n \in 1..Len(origin) : origin[n] = 0
    /\ Tracks(origin, unread, mouseSelect, h, dropped)

MouseInv == Inv /\ MouseTypeOK /\ LitCells /\ Copied /\ Tracked

\* A history of nothing but keys.
LEMMA TracksKeys ==
    ASSUME NEW o, \A n \in 1..Len(o) : o[n] = 0, NEW u, NEW s, NEW i, NEW d
    PROVE  Tracks(o, u, s, i, d)
BY DEF Tracks

\* What reading leaves.
LEMMA TracksLast ==
    ASSUME NEW o \in Seq(Nat), NEW u \in Seq(Char), Len(o) = Len(u),
           NEW s, NEW i \in Nat, NEW d, NEW c \in 0..Len(u),
           Tracks(o, u, s, i, d)
    PROVE  /\ LastOf(o, c) \in Seq(Nat) /\ Len(LastOf(o, c)) = c
           /\ Tracks(LastOf(o, c), LastOf(u, c), s, i, d)
<1> DEFINE p == LastOf(o, c)
           v == LastOf(u, c)
           e == Len(o) - c
<1>1. /\ p \in Seq(Nat) /\ Len(p) = c
      /\ \A n \in 1..c : p[n] = o[e + n]
  BY LastOfFacts
<1>2. \A n \in 1..c : v[n] = u[e + n]
  <2>1. \A n \in 1..c : v[n] = u[(Len(u) - c) + n]
    BY LastOfFacts
  <2> QED BY <2>1
<1>3. Len(o) \in Nat /\ c \in Nat /\ e \in Nat /\ e + c = Len(o)
  BY LenProperties
<1> HIDE DEF p, v, e
<1>4. SUFFICES ASSUME NEW n \in 1..c, p[n] # 0
               PROVE  /\ p[n] <= i /\ v[n] = s[p[n]]
                      /\ \A m \in 1..c : n < m /\ p[m] # 0 => p[n] < p[m]
                      /\ \A k \in p[n]..i : k \in d \/ \E m \in n..c : p[m] = k
  BY <1>1 DEF Tracks, p, v
<1>5. /\ e + n \in 1..Len(o) /\ p[n] = o[e + n] /\ v[n] = u[e + n]
  BY <1>1, <1>2, <1>3
<1>6. /\ o[e + n] <= i /\ u[e + n] = s[o[e + n]]
      /\ \A m \in 1..Len(o) : e + n < m /\ o[m] # 0 => o[e + n] < o[m]
      /\ \A k \in o[e + n]..i : k \in d \/ \E m \in (e + n)..Len(o) : o[m] = k
  BY <1>4, <1>5 DEF Tracks
<1>7. ASSUME NEW m \in 1..c, n < m, p[m] # 0 PROVE p[n] < p[m]
  <2>1. e + m \in 1..Len(o) /\ e + n < e + m /\ o[e + m] = p[m]
    BY <1>1, <1>3, <1>7
  <2> QED BY <1>5, <1>6, <1>7, <2>1
<1>8. ASSUME NEW k \in p[n]..i PROVE k \in d \/ \E m \in n..c : p[m] = k
  <2>1. CASE k \notin d
    <3>1. PICK m \in (e + n)..Len(o) : o[m] = k
      BY <1>5, <1>6, <1>8, <2>1
    <3>2. m - e \in n..c /\ m - e \in 1..c /\ e + (m - e) = m
      BY <1>3
    <3>3. p[m - e] = o[e + (m - e)]
      BY <1>1, <3>2
    <3> QED BY <3>1, <3>2, <3>3
  <2> QED BY <2>1
<1> QED BY <1>5, <1>6, <1>7, <1>8

\* A character of a key (j = 0) or the next one of the paste is accepted.
LEMMA TracksMore ==
    ASSUME NEW o \in Seq(Nat), NEW u \in Seq(Char), Len(o) = Len(u),
           NEW s, NEW i \in Nat, NEW d, NEW c \in Char, NEW j \in Nat, NEW i1 \in Nat,
           \/ j = 0 /\ i1 = i
           \/ j = i + 1 /\ i1 = i + 1 /\ c = s[j],
           Tracks(o, u, s, i, d)
    PROVE  /\ Append(o, j) \in Seq(Nat)
           /\ Len(Append(o, j)) = Len(Append(u, c))
           /\ Tracks(Append(o, j), Append(u, c), s, i1, d)
<1> DEFINE p == Append(o, j)
           v == Append(u, c)
           l == Len(o)
<1>1. /\ p \in Seq(Nat) /\ Len(p) = l + 1 /\ p[l + 1] = j
      /\ \A n \in 1..l : p[n] = o[n]
  BY AppendProperties
<1>2. /\ Len(v) = l + 1 /\ v[l + 1] = c
      /\ \A n \in 1..l : v[n] = u[n]
  BY AppendProperties
<1>3. l \in Nat /\ \A n \in 1..l : o[n] \in Nat
  BY LenProperties, ElementOfSeq
<1> HIDE DEF p, v, l
<1> SUFFICES Tracks(p, v, s, i1, d)
  <2>1. p \in Seq(Nat) /\ Len(p) = Len(v)
    BY <1>1, <1>2
  <2> QED BY <2>1 DEF p, v
<1>4. SUFFICES ASSUME NEW n \in 1..(l + 1), p[n] # 0
               PROVE  /\ p[n] <= i1 /\ v[n] = s[p[n]]
                      /\ \A m \in 1..(l + 1) : n < m /\ p[m] # 0 => p[n] < p[m]
                      /\ \A k \in p[n]..i1 : k \in d \/ \E m \in n..(l + 1) : p[m] = k
  BY <1>1 DEF Tracks
<1>5. CASE n = l + 1
  <2>1. j # 0 /\ p[n] = j /\ v[n] = c /\ j = i + 1 /\ i1 = i + 1 /\ c = s[j]
    BY <1>1, <1>2, <1>4, <1>5
  <2>2. \A m \in 1..(l + 1) : ~(n < m)
    BY <1>3, <1>5
  <2>3. \A k \in p[n]..i1 : k = j
    BY <2>1
  <2>4. n \in n..(l + 1)
    BY <1>3, <1>5
  <2> QED BY <2>1, <2>2, <2>3, <2>4
<1>6. CASE n # l + 1
  <2>1. n \in 1..l /\ p[n] = o[n] /\ v[n] = u[n] /\ o[n] \in Nat
    BY <1>1, <1>2, <1>3, <1>6
  <2>2. /\ o[n] <= i /\ u[n] = s[o[n]]
        /\ \A m \in 1..l : n < m /\ o[m] # 0 => o[n] < o[m]
        /\ \A k \in o[n]..i : k \in d \/ \E m \in n..l : o[m] = k
    BY <1>4, <2>1 DEF Tracks, l
  <2>3. ASSUME NEW m \in 1..(l + 1), n < m, p[m] # 0 PROVE p[n] < p[m]
    <3>1. CASE m = l + 1
      BY <1>1, <2>1, <2>2, <2>3, <3>1
    <3>2. CASE m # l + 1
      <4>1. m \in 1..l
        BY <1>3, <3>2
      <4> QED BY <1>1, <2>1, <2>2, <2>3, <4>1
    <3> QED BY <3>1, <3>2
  <2>4. ASSUME NEW k \in p[n]..i1 PROVE k \in d \/ \E m \in n..(l + 1) : p[m] = k
    <3>1. CASE k \in o[n]..i
      <4>1. CASE k \notin d
        <5>1. PICK m \in n..l : o[m] = k
          BY <2>2, <3>1, <4>1
        <5>2. m \in 1..l /\ m \in n..(l + 1)
          BY <1>3, <2>1
        <5> QED BY <1>1, <5>1, <5>2
      <4> QED BY <4>1
    <3>2. CASE k \notin o[n]..i
      <4>1. k = i + 1 /\ j = i + 1
        BY <2>1, <2>4, <3>2
      <4>2. l + 1 \in n..(l + 1)
        BY <1>3, <2>1
      <4> QED BY <1>1, <4>1, <4>2
    <3> QED BY <3>1, <3>2
  <2>5. p[n] <= i1
    BY <2>1, <2>2
  <2> QED BY <2>1, <2>2, <2>3, <2>4, <2>5
<1> QED BY <1>5, <1>6

\* The next character of the paste is ignored.
LEMMA TracksDropped ==
    ASSUME NEW o \in Seq(Nat), NEW u, NEW s, NEW i \in Nat, NEW d,
           Tracks(o, u, s, i, d)
    PROVE  Tracks(o, u, s, i + 1, d \cup {i + 1})
<1> SUFFICES ASSUME NEW n \in 1..Len(o), o[n] # 0
             PROVE  /\ o[n] <= i + 1 /\ u[n] = s[o[n]]
                    /\ \A m \in 1..Len(o) : n < m /\ o[m] # 0 => o[n] < o[m]
                    /\ \A k \in o[n]..(i + 1) :
                          k \in d \cup {i + 1} \/ \E m \in n..Len(o) : o[m] = k
  BY DEF Tracks
<1>1. /\ o[n] <= i /\ u[n] = s[o[n]]
      /\ \A m \in 1..Len(o) : n < m /\ o[m] # 0 => o[n] < o[m]
      /\ \A k \in o[n]..i : k \in d \/ \E m \in n..Len(o) : o[m] = k
  BY DEF Tracks
<1>2. o[n] \in Nat
  BY ElementOfSeq
<1>3. \A k \in o[n]..(i + 1) : k = i + 1 \/ k \in o[n]..i
  BY <1>2
<1>4. o[n] <= i + 1
  BY <1>1, <1>2
<1> QED BY <1>1, <1>3, <1>4

\* The history has the buffer's length, and so can be cut where it is.
LEMMA InvFacts ==
    ASSUME Inv
    PROVE  /\ unread \in Seq(Char)
           /\ Len(Contents) \in 0..Len(unread)
           /\ Contents = LastOf(unread, Len(Contents))
<1>1. ContentsInOrder /\ TypeOK
  BY InvContents DEF Inv
<1>2. Len(Contents) \in Nat
  <2>1. Count \in Nat
    BY <1>1, CountFacts, SizeFacts
  <2> QED BY <1>1, <2>1, ContentsFacts
<1>3. unread \in Seq(Char) /\ Len(unread) \in Nat
  BY <1>1, LenProperties DEF TypeOK
<1> QED BY <1>1, <1>2, <1>3 DEF ContentsInOrder

LEMMA PointerFacts == MouseTypeOK => Pointer \in Cells
BY PositionFacts DEF MouseTypeOK, Pointer

LEMMA MouseInitInv == MouseInit => MouseInv
<1> SUFFICES ASSUME MouseInit PROVE MouseInv
  OBVIOUS
<1>1. Inv
  BY InitInv DEF MouseInit
<1>2. MouseTypeOK
  BY CellsFacts DEF MouseInit, MouseTypeOK
<1>3. LitCells
  BY DEF MouseInit, LitCells, Selected
<1>4. Copied
  <2>1. mouseSelect \in Seq(Char) /\ Len(mouseSelect) = 0
    BY EmptySeq DEF MouseInit
  <2> QED BY <2>1 DEF MouseInit, Copied
<1>5. Tracked
  <2>1. origin \in Seq(Nat) /\ Len(origin) = 0 /\ Len(unread) = 0
    BY EmptySeq DEF MouseInit, Init
  <2> QED BY <2>1, TracksKeys DEF Tracked
<1> QED BY <1>1, <1>2, <1>3, <1>4, <1>5 DEF MouseInv

\* The buffer does not change.
LEMMA SameBuffer ==
    ASSUME Inv, UNCHANGED vars
    PROVE  Inv'
BY NextInv

\* The first two bytes, and the third of a packet that is thrown away.
LEMMA ByteInv ==
    ASSUME MouseInv, NEW c \in 0..2, mouse_cycle # 3, mouse_cycle' = c,
           UNCHANGED <<vars, x, y, selecting, init, fin, flag, lit, mouseSelect,
                       h, origin, dropped>>
    PROVE  MouseInv'
<1>1. Inv'
  BY SameBuffer DEF MouseInv
<1>2. MouseTypeOK'
  BY DEF MouseInv, MouseTypeOK
<1>3. LitCells'
  BY DEF MouseInv, LitCells, Selected, Pointer, Position
<1>4. Copied'
  BY DEF MouseInv, Copied, copyMouse
<1>5. Tracked'
  BY DEF MouseInv, Tracked, Tracks, vars
<1> QED BY <1>1, <1>2, <1>3, <1>4, <1>5 DEF MouseInv

\* The third byte: the buttons.
LEMMA ButtonsInv ==
    ASSUME MouseInv, NEW dy \in Moves, Byte2(dy)
    PROVE  MouseInv'
<1> USE DEF MouseInv
<1>1. /\ mouse_cycle' = 3 /\ UNCHANGED <<vars, x, y>>
      /\ LeftDown \/ LeftUp
      /\ h' = 0 \/ h' = Len(mouseSelect')
      /\ mouse_cycle = 2 /\ UNCHANGED origin
  BY DEF Byte2
<1>2. Inv'
  BY <1>1, SameBuffer
<1>3. Pointer \in Cells /\ Pointer' = Pointer
  BY <1>1, PointerFacts DEF Pointer, Position
<1>4. Unselected \subseteq {Pointer}
  BY DEF LitCells, Selected, Unselected
<1>7. Tracked'
  BY <1>1, TracksKeys DEF Tracked, vars
<1>8. ASSUME mouseSelect' \in Seq(Char) PROVE h' \in 0..Len(mouseSelect')
  BY <1>1, <1>8, LenProperties
<1>5. CASE LeftDown
  <2>1. /\ selecting' = TRUE /\ fin' = Pointer
        /\ init' \in Cells /\ fin' \in Cells
        /\ mouseSelect' = copyMouse(init', fin')
        /\ lit' = Unselected \cup Span(init', fin')
    BY <1>3, <1>5 DEF LeftDown, MouseTypeOK
  <2>2. Span(init', fin') \subseteq Cells /\ fin' \in Span(init', fin')
    BY <2>1, CellsFacts
  <2>3. MouseTypeOK'
    BY <1>1, <1>3, <1>4, <2>1, <2>2 DEF MouseTypeOK
  <2>4. Selected' = Span(init', fin')
    BY <2>1 DEF Selected, Span
  <2>5. LitCells'
    BY <1>3, <1>4, <2>1, <2>2, <2>4 DEF LitCells
  <2>6. mouseSelect' \in Seq(Char)
    BY <2>1, CopyFacts
  <2>7. Copied'
    BY <1>8, <2>1, <2>6 DEF Copied, copyMouse, Span
  <2> QED BY <1>2, <1>7, <2>3, <2>5, <2>7
<1>6. CASE LeftUp
  <2>1. selecting' = FALSE /\ lit' = Unselected /\ UNCHANGED <<init, fin, mouseSelect>>
    BY <1>6 DEF LeftUp
  <2>2. MouseTypeOK'
    BY <1>1, <1>3, <1>4, <2>1 DEF MouseTypeOK
  <2>3. LitCells'
    BY <1>3, <1>4, <2>1 DEF LitCells, Selected
  <2>4. Copied'
    BY <1>8, <2>1 DEF Copied, copyMouse, Span
  <2> QED BY <1>2, <1>7, <2>2, <2>3, <2>4
<1> QED BY <1>1, <1>5, <1>6

\* One character of the paste.
LEMMA PasteInv ==
    ASSUME MouseInv, Paste
    PROVE  MouseInv'
<1> USE DEF MouseInv
<1>1. /\ h < Len(mouseSelect) /\ Put(mouseSelect[h + 1]) /\ h' = h + 1
      /\ origin' = Entered(h + 1)
      /\ dropped' = IF isBufferFull THEN dropped \cup {h + 1} ELSE dropped
      /\ mouse_cycle = 3
      /\ UNCHANGED <<mouse_cycle, x, y, selecting, init, fin, lit, mouseSelect>>
  BY DEF Paste
<1> DEFINE c == mouseSelect[h + 1]
<1>2. c \in Char /\ h \in Nat /\ h + 1 \in 0..Len(mouseSelect)
  <2>1. mouseSelect \in Seq(Char) /\ Len(mouseSelect) \in Nat /\ h \in 0..Len(mouseSelect)
    BY LenProperties DEF Copied
  <2>2. h \in Nat /\ h + 1 \in 1..Len(mouseSelect)
    BY <1>1, <2>1
  <2> QED BY <2>1, <2>2, ElementOfSeq
<1>3. Inv'
  <2> HIDE DEF c
  <2>1. Put(c)
    BY <1>1 DEF c
  <2> QED BY <1>2, <2>1, PutAnyInv
<1>4. MouseTypeOK' /\ LitCells'
  BY <1>1 DEF MouseTypeOK, LitCells, Selected, Pointer, Position
<1>5. Copied'
  BY <1>1, <1>2 DEF Copied, copyMouse
<1>6. Tracked'
  <2>1. /\ origin \in Seq(Nat) /\ unread \in Seq(Char) /\ Len(origin) = Len(unread)
        /\ Tracks(origin, unread, mouseSelect, h, dropped)
    BY DEF Tracked, Inv, TypeOK
  <2>2. CASE isBufferFull
    <3>1. origin' = origin /\ unread' = unread /\ dropped' = dropped \cup {h + 1}
      BY <1>1, <2>2 DEF Put, Entered
    <3>2. Tracks(origin, unread, mouseSelect, h + 1, dropped \cup {h + 1})
      BY <1>2, <2>1, TracksDropped
    <3> QED BY <1>1, <2>1, <3>1, <3>2 DEF Tracked
  <2>3. CASE ~isBufferFull
    <3>1. origin' = Append(origin, h + 1) /\ unread' = Append(unread, c) /\ dropped' = dropped
      BY <1>1, <2>3 DEF Put, Entered
    <3>2. h + 1 \in Nat
      BY <1>2
    <3>3. /\ Append(origin, h + 1) \in Seq(Nat)
          /\ Len(Append(origin, h + 1)) = Len(Append(unread, c))
          /\ Tracks(Append(origin, h + 1), Append(unread, c), mouseSelect, h + 1, dropped)
      <4> DEFINE g == h + 1
      <4>1. g \in Nat /\ g = h + 1 /\ c = mouseSelect[g]
        BY <3>2
      <4> HIDE DEF c, g
      <4>2. /\ Append(origin, g) \in Seq(Nat)
            /\ Len(Append(origin, g)) = Len(Append(unread, c))
            /\ Tracks(Append(origin, g), Append(unread, c), mouseSelect, g, dropped)
        BY <1>2, <2>1, <4>1, TracksMore
      <4> QED BY <4>2 DEF g
    <3> QED BY <1>1, <3>1, <3>3 DEF Tracked
  <2> QED BY <2>2, <2>3
<1> QED BY <1>3, <1>4, <1>5, <1>6

\* The pointer moves.
LEMMA MoveInv ==
    ASSUME MouseInv, Move
    PROVE  MouseInv'
<1> USE DEF MouseInv
<1>1. /\ mouse_cycle = 3 /\ mouse_cycle' = 0
      /\ x' = Moved(x, mouse_byte.dx, WIDTH)
      /\ y' = Moved(y, -mouse_byte.dy, HEIGHT)
      /\ lit' = (lit \ {Pointer}) \cup {Pointer'}
      /\ origin' = [n \in 1..Len(unread) |-> 0]
      /\ UNCHANGED <<vars, selecting, init, fin, mouseSelect, h>>
  BY DEF Move, Pointer, Position
<1>2. Inv'
  BY <1>1, SameBuffer
<1>3. x' \in Columns /\ y' \in Rows
  BY <1>1 DEF Moved, Columns, Rows, MouseTypeOK
<1>4. Pointer' \in Cells
  BY <1>3, PositionFacts DEF Pointer
<1>5. MouseTypeOK'
  BY <1>1, <1>3, <1>4 DEF MouseTypeOK
<1>6. Selected' = Selected
  BY <1>1 DEF Selected
<1>7. Selected \ {fin} \subseteq lit \ {Pointer}
  BY <1>1 DEF LitCells, Selected
<1>8. LitCells'
  BY <1>1, <1>6, <1>7 DEF LitCells
<1>9. Copied'
  BY <1>1 DEF Copied, copyMouse
<1>10. Tracked'
  <2>1. unread' = unread /\ Len(unread) \in Nat
    BY <1>1, LenProperties DEF vars, Inv, TypeOK
  <2>2. /\ origin' \in Seq(Nat) /\ Len(origin') = Len(unread)
        /\ \A n \in 1..Len(unread) : origin'[n] = 0
    BY <1>1, <2>1
  <2> QED BY <2>1, <2>2, TracksKeys DEF Tracked
<1> QED BY <1>2, <1>5, <1>8, <1>9, <1>10

\* A key, a read or runC, in the middle of whatever the mouse does.
LEMMA OthersInv ==
    ASSUME MouseInv, UNCHANGED handlerVars, Inv',
           origin' \in Seq(Nat), Len(origin') = Len(unread'),
           mouse_cycle # 3 => \A n \in 1..Len(origin') : origin'[n] = 0,
           Tracks(origin', unread', mouseSelect, h, dropped)
    PROVE  MouseInv'
<1> USE DEF MouseInv, handlerVars
<1>1. MouseTypeOK' /\ LitCells'
  BY DEF MouseTypeOK, LitCells, Selected, Pointer, Position
<1>2. Copied'
  BY DEF Copied, copyMouse
<1>3. Tracked'
  BY DEF Tracked
<1> QED BY <1>1, <1>2, <1>3

LEMMA KeyTracked ==
    ASSUME MouseInv, NEW k \in Keys, Key(k), origin' = Entered(0), UNCHANGED handlerVars
    PROVE  MouseInv'
<1> DEFINE c == <<k, Column>>
<1>1. c \in Char /\ Put(c)
  BY DEF MouseInv, Char, Column, Inv, TypeOK, Key
<1> HIDE DEF c
<1>2. Inv'
  BY KeyInv DEF MouseInv
<1>3. /\ origin \in Seq(Nat) /\ unread \in Seq(Char) /\ Len(origin) = Len(unread)
      /\ mouse_cycle # 3 => \A n \in 1..Len(origin) : origin[n] = 0
      /\ Tracks(origin, unread, mouseSelect, h, dropped)
  BY DEF MouseInv, Tracked, Inv, TypeOK
<1>4. CASE isBufferFull
  <2>1. origin' = origin /\ unread' = unread
    BY <1>1, <1>4 DEF Put, Entered
  <2> QED BY <1>2, <1>3, <2>1, OthersInv
<1>5. CASE ~isBufferFull
  <2>1. origin' = Append(origin, 0) /\ unread' = Append(unread, c)
    BY <1>1, <1>5 DEF Put, Entered
  <2>2. h \in Nat
    BY LenProperties DEF MouseInv, Copied
  <2>3. /\ Append(origin, 0) \in Seq(Nat)
        /\ Len(Append(origin, 0)) = Len(Append(unread, c))
        /\ Tracks(Append(origin, 0), Append(unread, c), mouseSelect, h, dropped)
    BY <1>1, <1>3, <2>2, TracksMore
  <2>4. \A n \in 1..Len(Append(origin, 0)) :
            Append(origin, 0)[n] = 0 \/ (n \in 1..Len(origin) /\ Append(origin, 0)[n] = origin[n])
    BY <1>3, AppendProperties, LenProperties
  <2>5. mouse_cycle # 3 => \A n \in 1..Len(origin') : origin'[n] = 0
    BY <1>3, <2>1, <2>4
  <2> QED BY <1>2, <2>1, <2>3, <2>5, OthersInv
<1> QED BY <1>4, <1>5

LEMMA ReadTracked ==
    ASSUME MouseInv, NEW length \in 0..MaxRead, Read(length),
           origin' = LastOf(origin, Len(unread')), UNCHANGED handlerVars
    PROVE  MouseInv'
<1>1. Inv'
  BY ReadInv DEF MouseInv
<1>2. /\ origin \in Seq(Nat) /\ unread \in Seq(Char) /\ Len(origin) = Len(unread)
      /\ mouse_cycle # 3 => \A n \in 1..Len(origin) : origin[n] = 0
      /\ Tracks(origin, unread, mouseSelect, h, dropped) /\ h \in Nat
  BY LenProperties DEF MouseInv, Tracked, Inv, TypeOK, Copied
<1>3. PICK c \in 0..Len(unread) : unread' = LastOf(unread, c)
  <2> DEFINE l == Len(Contents)
             m == IF length < l THEN length ELSE l
  <2>1. l \in 0..Len(unread) /\ Len(unread) \in Nat
    BY <1>2, InvFacts, LenProperties DEF MouseInv
  <2>2. l - m \in 0..Len(unread)
    BY <2>1, BufferAssumption
  <2>3. unread' = LastOf(unread, l - m)
    BY DEF Read
  <2> HIDE DEF l, m
  <2> QED BY <2>2, <2>3
<1>4. /\ LastOf(origin, c) \in Seq(Nat) /\ Len(LastOf(origin, c)) = c
      /\ Tracks(LastOf(origin, c), LastOf(unread, c), mouseSelect, h, dropped)
  BY <1>2, TracksLast
<1>5. Len(unread') = c /\ \A n \in 1..c : LastOf(origin, c)[n] = origin[(Len(origin) - c) + n]
  BY <1>2, <1>3, LastOfFacts
<1>6. \A n \in 1..c : (Len(origin) - c) + n \in 1..Len(origin)
  BY <1>2, LenProperties
<1>7. mouse_cycle # 3 => \A n \in 1..Len(origin') : origin'[n] = 0
  BY <1>2, <1>4, <1>5, <1>6
<1> QED BY <1>1, <1>3, <1>4, <1>5, <1>7, OthersInv

LEMMA ResetTracked ==
    ASSUME MouseInv, Reset, origin' = <<>>, UNCHANGED handlerVars
    PROVE  MouseInv'
<1>1. Inv'
  BY NextInv DEF MouseInv, Next
<1>2. origin' \in Seq(Nat) /\ Len(origin') = 0 /\ Len(unread') = 0
  BY EmptySeq DEF Reset
<1>3. Tracks(origin', unread', mouseSelect, h, dropped)
  BY <1>2, TracksKeys
<1> QED BY <1>1, <1>2, <1>3, OthersInv

LEMMA MouseNextInv == MouseInv /\ [MouseNext]_allVars => MouseInv'
<1> SUFFICES ASSUME MouseInv, [MouseNext]_allVars PROVE MouseInv'
  OBVIOUS
<1>1. CASE UNCHANGED allVars
  <2>1. UNCHANGED vars /\ UNCHANGED handlerVars /\ UNCHANGED origin
    BY <1>1 DEF allVars, mouseVars
  <2>2. Inv' /\ UNCHANGED unread
    BY <2>1, SameBuffer DEF MouseInv, vars
  <2> QED BY <2>1, <2>2, OthersInv DEF MouseInv, Tracked
<1>2. CASE mouse_handlerC
  <2>1. ASSUME NEW left \in BOOLEAN, NEW right \in BOOLEAN, NEW over \in BOOLEAN,
               Byte0(left, right, over)
        PROVE  MouseInv'
    BY <2>1, ByteInv DEF Byte0
  <2>2. ASSUME NEW m \in Moves, Byte1(m) PROVE MouseInv'
    BY <2>2, ByteInv DEF Byte1
  <2>3. CASE Byte2Overflow
    BY <2>3, ByteInv DEF Byte2Overflow
  <2> QED BY <1>2, <2>1, <2>2, <2>3, ButtonsInv, PasteInv, MoveInv
         DEF mouse_handlerC
<1>3. CASE Others
  <2>1. ASSUME NEW length \in 1..MaxRead PROVE length \in 0..MaxRead
    BY BufferAssumption
  <2> QED BY <1>3, <2>1, KeyTracked, ReadTracked, ResetTracked DEF Others
<1> QED BY <1>1, <1>2, <1>3 DEF MouseNext

-----------------------------------------------------------------------------
\* mouse_handlerC keeps the pointer, the selection and what is lit on the screen,
\* whatever the packets say: for every size of the screen.
THEOREM PointerOnScreen == MouseSpec => []MouseTypeOK
<1>1. MouseInv => MouseTypeOK
  BY DEF MouseInv
<1> QED BY <1>1, MouseInitInv, MouseNextInv, PTL DEF MouseSpec

\* Between two packets nothing is lit but the pointer and the selection, and the
\* selection is, except for the place the pointer was taken away from.
THEOREM NothingElseLit == MouseSpec => []OnlySelectionLit
<1>1. MouseInv => OnlySelectionLit
  BY DEF MouseInv, LitCells, Selected, OnlySelectionLit
<1> QED BY <1>1, MouseInitInv, MouseNextInv, PTL DEF MouseSpec

\* What a paste would put into the terminal's buffer is the text selected last,
\* each character once and in the order of the screen, whichever end of the
\* selection was set first.
THEOREM SelectionCopied == MouseSpec => []CopyIsSelection
<1>1. MouseInv => CopyIsSelection
  <2> SUFFICES ASSUME MouseInv, selecting \/ mouseSelect # <<>>
               PROVE  /\ Len(mouseSelect) = Cardinality(Span(init, fin))
                      /\ \A p \in Span(init, fin) :
                            mouseSelect[1 + Cardinality({ q \in Span(init, fin) : q < p })]
                                = Text[p]
    BY DEF CopyIsSelection
  <2>1. mouseSelect = copyMouse(init, fin) /\ init \in Cells /\ fin \in Cells
    BY DEF MouseInv, Copied, MouseTypeOK
  <2> QED BY <2>1, CopyFacts
<1> QED BY <1>1, MouseInitInv, MouseNextInv, PTL DEF MouseSpec

\* In the middle of a paste, a call of putTerminalBuffer for each character with
\* keys, reads and runC in between, what the buffer holds of it is the selected
\* text in the order of the screen, from the oldest on without a gap, but for
\* what a full buffer ignored: for every screen, text and size of the buffer.
THEOREM PasteKeepsOrder == MouseSpec => []PasteInOrder
<1>1. MouseInv => PasteInOrder
  <2> SUFFICES ASSUME MouseInv PROVE PasteInOrder
    OBVIOUS
  <2> DEFINE c == Len(Contents)
             from == LastOf(origin, c)
             mine == { n \in 1..c : from[n] # 0 }
  <2>1. unread \in Seq(Char) /\ c \in 0..Len(unread) /\ Contents = LastOf(unread, c)
    BY InvFacts DEF MouseInv
  <2>2. /\ origin \in Seq(Nat) /\ Len(origin) = Len(unread) /\ h \in Nat
        /\ Tracks(origin, unread, mouseSelect, h, dropped)
    BY LenProperties DEF MouseInv, Tracked, Copied
  <2>3. from \in Seq(Nat) /\ Len(from) = c /\ Tracks(from, Contents, mouseSelect, h, dropped)
    <3> HIDE DEF c
    <3> QED BY <2>1, <2>2, TracksLast
  <2> HIDE DEF c, from
  <2>4. ASSUME NEW n \in mine
        PROVE  /\ from[n] <= h /\ Contents[n] = mouseSelect[from[n]]
               /\ \A m \in mine : n < m => from[n] < from[m]
               /\ (from[n]..h) \ dropped \subseteq { from[m] : m \in mine }
    <3>1. n \in 1..Len(from) /\ from[n] # 0 /\ c \in Nat
      BY <2>1, <2>3, LenProperties
    <3>2. /\ from[n] <= h /\ Contents[n] = mouseSelect[from[n]]
          /\ \A m \in 1..c : n < m /\ from[m] # 0 => from[n] < from[m]
          /\ \A k \in from[n]..h : k \in dropped \/ \E m \in n..c : from[m] = k
      BY <2>3, <3>1 DEF Tracks
    <3>3. from[n] \in Nat \ {0}
      BY <2>3, <3>1, ElementOfSeq
    <3>4. ASSUME NEW k \in from[n]..h, k \notin dropped
          PROVE  k \in { from[m] : m \in mine }
      <4>1. PICK m \in n..c : from[m] = k
        BY <3>2, <3>4
      <4>2. m \in 1..c /\ k # 0
        BY <3>1, <3>3
      <4> QED BY <4>1, <4>2
    <3> QED BY <3>2, <3>4
  <2> QED BY <2>4 DEF PasteInOrder, c, from
<1> QED BY <1>1, MouseInitInv, MouseNextInv, PTL DEF MouseSpec

=============================================================================
