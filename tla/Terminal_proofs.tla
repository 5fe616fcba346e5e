-------------------------- MODULE Terminal_proofs --------------------------
(***************************************************************************)
(* The terminal's circular buffer, for every size of it, every keyboard    *)
(* and reads of every length: what a program reads is what was typed last, *)
(* in order.                                                               *)
(***************************************************************************)
EXTENDS Terminal, SequenceTheorems, TLAPS

-----------------------------------------------------------------------------
(***************************************************************************)
(* Arithmetic modulo the size of the buffer.                               *)
(***************************************************************************)

LEMMA ModWraps ==
    ASSUME NEW N \in Nat \ {0}, NEW x \in 0..(2 * N - 1)
    PROVE  x % N = IF x < N THEN x ELSE x - N
OBVIOUS

LEMMA ModNegative ==
    ASSUME NEW N \in Nat \ {0}, NEW x \in (-(N - 1))..(N - 1)
    PROVE  x % N = IF x < 0 THEN x + N ELSE x
OBVIOUS

LEMMA ModZero == ASSUME NEW N \in Nat \ {0} PROVE 0 % N = 0
OBVIOUS

\* A multiple of N and N more is one too.
LEMMA ModMore ==
    ASSUME NEW N \in Nat \ {0}, NEW x \in Nat, x % N = 0
    PROVE  (x + N) % N = 0
<1>1. x = N * (x \div N) + (x % N) /\ x \div N \in Int
  OBVIOUS
<1>2. x + N = N * ((x + N) \div N) + ((x + N) % N) /\ (x + N) \div N \in Int
      /\ (x + N) % N \in 0..(N - 1)
  OBVIOUS
<1> DEFINE p == x \div N
           q == (x + N) \div N
           r == (x + N) % N
<1>3. p \in Int /\ q \in Int /\ r \in 0..(N - 1) /\ N * p + N = N * q + r
  BY <1>1, <1>2
<1> HIDE DEF p, q, r
<1>4. N * ((q - p) - 1) = -r
  BY <1>3
<1>5. CASE (q - p) - 1 = 0
  BY <1>3, <1>4, <1>5 DEF r
<1>6. CASE (q - p) - 1 >= 1
  BY <1>3, <1>4, <1>6
<1>7. CASE (q - p) - 1 <= -1
  BY <1>3, <1>4, <1>7
<1> QED BY <1>3, <1>5, <1>6, <1>7

-----------------------------------------------------------------------------
(***************************************************************************)
(* The buffer as numbers.                                                  *)
(***************************************************************************)

\* How many characters getTerminalBuffer would find, and where the i-th is.
Count == (bufferPosition - bufferConsume) % BUFFERSIZE
Place(i) == (bufferConsume + i - 1) % BUFFERSIZE

LEMMA SizeFacts ==
    ASSUME TypeOK
    PROVE  /\ BUFFERSIZE \in Nat \ {0}
           /\ bufferConsume \in Nat /\ bufferConsume < BUFFERSIZE
           /\ bufferPosition \in Nat /\ bufferPosition < BUFFERSIZE
           /\ Len(unread) \in Nat
BY BufferAssumption, LenProperties DEF TypeOK, Offset

LEMMA CountFacts ==
    ASSUME TypeOK
    PROVE  /\ Count \in 0..(BUFFERSIZE - 1)
           /\ Count = IF bufferConsume <= bufferPosition
                      THEN bufferPosition - bufferConsume
                      ELSE (bufferPosition - bufferConsume) + BUFFERSIZE
<1> DEFINE x == bufferPosition - bufferConsume
<1>1. /\ BUFFERSIZE \in Nat \ {0}
      /\ bufferConsume \in Nat /\ bufferConsume < BUFFERSIZE
      /\ bufferPosition \in Nat /\ bufferPosition < BUFFERSIZE
  BY SizeFacts
<1>2. x \in (-(BUFFERSIZE - 1))..(BUFFERSIZE - 1)
  BY <1>1
<1>3. Count = x % BUFFERSIZE
  BY DEF Count
<1>4. x < 0 <=> ~(bufferConsume <= bufferPosition)
  BY <1>1
<1>5. Count = IF x < 0 THEN x + BUFFERSIZE ELSE x
  <2> HIDE DEF x
  <2> QED BY <1>1, <1>2, <1>3, ModNegative
<1> QED BY <1>1, <1>4, <1>5

LEMMA PlaceFacts ==
    ASSUME TypeOK, NEW i \in 1..BUFFERSIZE
    PROVE  /\ Place(i) \in Offset
           /\ Place(i) = IF (bufferConsume + i) - 1 < BUFFERSIZE
                         THEN (bufferConsume + i) - 1
                         ELSE ((bufferConsume + i) - 1) - BUFFERSIZE
<1> DEFINE x == (bufferConsume + i) - 1
<1>1. /\ BUFFERSIZE \in Nat \ {0}
      /\ bufferConsume \in Nat /\ bufferConsume < BUFFERSIZE
  BY SizeFacts
<1>2. x \in 0..(2 * BUFFERSIZE - 1)
  BY <1>1
<1>3. Place(i) = x % BUFFERSIZE
  <2>1. bufferConsume + (i - 1) = x
    BY <1>1
  <2> QED BY <2>1 DEF Place
<1>4. Place(i) = IF x < BUFFERSIZE THEN x ELSE x - BUFFERSIZE
  <2> HIDE DEF x
  <2> QED BY <1>1, <1>2, <1>3, ModWraps
<1> QED BY <1>1, <1>2, <1>4 DEF Offset

LEMMA PlaceFactsNext ==
    ASSUME NEW i \in 1..BUFFERSIZE
    PROVE  (TypeOK => Place(i) = IF (bufferConsume + i) - 1 < BUFFERSIZE
                                 THEN (bufferConsume + i) - 1
                                 ELSE ((bufferConsume + i) - 1) - BUFFERSIZE)'
<1>1. TypeOK => Place(i) = IF (bufferConsume + i) - 1 < BUFFERSIZE
                           THEN (bufferConsume + i) - 1
                           ELSE ((bufferConsume + i) - 1) - BUFFERSIZE
  BY PlaceFacts
<1> QED BY <1>1, PTL

\* Contents, element by element.
LEMMA ContentsFacts ==
    ASSUME TypeOK
    PROVE  /\ Len(Contents) = Count
           /\ \A i \in 1..Count : Contents[i] = Buffer[Place(i)]
           /\ Contents = [i \in 1..Count |-> Buffer[Place(i)]]
<1>1. Contents = [i \in 1..Count |-> Buffer[Place(i)]]
  BY DEF Contents, Count, Place
<1>2. Count \in Nat
  BY CountFacts, SizeFacts
<1> QED BY <1>1, <1>2

\* The end of a sequence.
LEMMA LastOfFacts ==
    ASSUME NEW S, NEW s \in Seq(S), NEW n \in 0..Len(s)
    PROVE  /\ LastOf(s, n) \in Seq(S)
           /\ Len(LastOf(s, n)) = n
           /\ \A i \in 1..n : LastOf(s, n)[i] = s[(Len(s) - n) + i]
<1> DEFINE m == (Len(s) - n) + 1
           l == Len(s)
<1>1. l \in Nat /\ m \in Int /\ m >= 1 /\ (l - m) + 1 = n /\ n \in Nat
  BY LenProperties
<1>2. \A i \in m..l : s[i] \in S
  BY <1>1, ElementOfSeq
<1>3. LastOf(s, n) = SubSeq(s, m, l)
  BY DEF LastOf
<1>4. \A i \in 1..n : (m + i) - 1 = (l - n) + i
  BY <1>1
<1> HIDE DEF m, l
<1>5. /\ SubSeq(s, m, l) \in Seq(S)
      /\ Len(SubSeq(s, m, l)) = IF m <= l THEN (l - m) + 1 ELSE 0
      /\ \A i \in 1..((l - m) + 1) : SubSeq(s, m, l)[i] = s[(m + i) - 1]
  BY <1>1, <1>2, SubSeqProperties
<1>6. Len(SubSeq(s, m, l)) = n /\ \A i \in 1..n : SubSeq(s, m, l)[i] = s[(l - n) + i]
  BY <1>1, <1>4, <1>5
<1> QED BY <1>3, <1>5, <1>6 DEF l

-----------------------------------------------------------------------------
(***************************************************************************)
(* The invariant: the buffer holds the last Count of the unread characters,*)
(* and a number of whole buffers before them is lost (isBufferFull does    *)
(* not see a full buffer whose oldest character is the array's first).     *)
(***************************************************************************)

LostBuffers ==
    /\ Count <= Len(unread)
    /\ (Len(unread) - Count) % BUFFERSIZE = 0

Stored ==
    \A i \in 1..Count : Buffer[Place(i)] = unread[(Len(unread) - Count) + i]

Inv == TypeOK /\ LostBuffers /\ Stored

LEMMA InitInv == Init => Inv
<1> SUFFICES ASSUME Init PROVE Inv
  OBVIOUS
<1>1. TypeOK
  <2>1. unread \in Seq(Char)
    BY EmptySeq DEF Init
  <2>2. 0 \in Offset
    BY BufferAssumption DEF Offset
  <2>3. Buffer \in [Offset -> Char \cup {Zero}]
    BY DEF Init
  <2> QED BY <2>1, <2>2, <2>3 DEF Init, TypeOK
<1>2. Count = 0 /\ BUFFERSIZE \in Nat \ {0}
  BY <1>1, CountFacts, SizeFacts DEF Init
<1>3. Len(unread) = 0
  BY EmptySeq DEF Init
<1>4. 0 % BUFFERSIZE = 0
  BY <1>2, ModZero
<1> QED BY <1>1, <1>2, <1>3, <1>4 DEF Inv, LostBuffers, Stored

\* Steps that leave the buffer alone.
LEMMA BufferKept ==
    ASSUME Inv, UNCHANGED <<Buffer, bufferConsume, bufferPosition, unread>>, TypeOK'
    PROVE  Inv'
BY DEF Inv, LostBuffers, Stored, Count, Place

\* A key: the character goes to the place after the last one.
LEMMA PutInv ==
    ASSUME Inv, NEW c \in Char, Put(c), ~isBufferFull
    PROVE  Inv'
<1> DEFINE l == Len(unread)
           n == Count
           B == BUFFERSIZE
<1>1. /\ Buffer' = [Buffer EXCEPT ![bufferPosition] = c]
      /\ bufferPosition' = After(bufferPosition)
      /\ unread' = Append(unread, c)
      /\ UNCHANGED <<bufferConsume, shift, caps>>
  BY DEF Put
<1>2. TypeOK
  BY DEF Inv
<1>3. /\ B \in Nat \ {0}
      /\ bufferConsume \in Nat /\ bufferConsume < B
      /\ bufferPosition \in Nat /\ bufferPosition < B
      /\ l \in Nat /\ n \in 0..(B - 1)
  BY <1>2, SizeFacts, CountFacts
<1>4. /\ unread' \in Seq(Char) /\ Len(unread') = l + 1
      /\ \A i \in 1..l : unread'[i] = unread[i]
      /\ unread'[l + 1] = c
  BY <1>1, <1>2, AppendProperties DEF TypeOK
<1>5. TypeOK'
  <2>1. bufferPosition' \in Offset
    BY <1>1, <1>3 DEF After, Offset
  <2> QED BY <1>1, <1>2, <1>4, <2>1 DEF TypeOK
<1>6. Count' = IF n + 1 = B THEN 0 ELSE n + 1
  <2>1. Count' = IF bufferConsume' <= bufferPosition'
                 THEN bufferPosition' - bufferConsume'
                 ELSE (bufferPosition' - bufferConsume') + B
    <3>1. (TypeOK => /\ Count \in 0..(BUFFERSIZE - 1)
                     /\ Count = IF bufferConsume <= bufferPosition
                                THEN bufferPosition - bufferConsume
                                ELSE (bufferPosition - bufferConsume) + BUFFERSIZE)'
      BY CountFacts, PTL
    <3> QED BY <1>5, <3>1
  <2>2. n = IF bufferConsume <= bufferPosition
            THEN bufferPosition - bufferConsume
            ELSE (bufferPosition - bufferConsume) + B
    BY <1>2, CountFacts
  <2> HIDE DEF n
  <2> QED BY <1>1, <1>3, <2>1, <2>2 DEF After
<1>7. LostBuffers'
  <2>1. n <= l /\ (l - n) % B = 0
    BY DEF Inv, LostBuffers
  <2>2. CASE n + 1 = B
    <3> DEFINE x == l - n
    <3>1. x \in Nat /\ (l + 1) - 0 = x + B
      BY <1>3, <2>1, <2>2
    <3>2. (x + B) % B = 0
      <4>1. x % B = 0
        BY <2>1
      <4> HIDE DEF x
      <4> QED BY <1>3, <3>1, <4>1, ModMore
    <3> QED BY <1>3, <1>4, <1>6, <2>2, <3>1, <3>2 DEF LostBuffers
  <2>3. CASE n + 1 # B
    <3>1. (l + 1) - (n + 1) = l - n /\ n + 1 <= l + 1
      BY <1>3, <2>1
    <3> QED BY <1>4, <1>6, <2>1, <2>3, <3>1 DEF LostBuffers
  <2> QED BY <2>2, <2>3
<1>8. Stored'
  <2>1. CASE n + 1 = B
    <3>1. 1..Count' = {}
      BY <1>6, <2>1
    <3> QED BY <3>1 DEF Stored
  <2>2. CASE n + 1 # B
    <3> SUFFICES ASSUME NEW i \in 1..(n + 1)
                 PROVE  Buffer'[Place(i)] = unread'[((l + 1) - (n + 1)) + i]
      BY <1>1, <1>4, <1>6, <2>2 DEF Stored, Place
    <3>1. n <= l
      BY DEF Inv, LostBuffers
    <3>2. i \in 1..B /\ ((l + 1) - (n + 1)) + i = (l - n) + i
      BY <1>3
    <3>3. /\ Place(i) \in Offset
          /\ Place(i) = IF (bufferConsume + i) - 1 < B
                        THEN (bufferConsume + i) - 1
                        ELSE ((bufferConsume + i) - 1) - B
      BY <1>2, <3>2, PlaceFacts
    <3>4. n = IF bufferConsume <= bufferPosition
              THEN bufferPosition - bufferConsume
              ELSE (bufferPosition - bufferConsume) + B
      BY <1>2, CountFacts
    <3>5. Place(i) = bufferPosition <=> i = n + 1
      <4> DEFINE pl == Place(i)
      <4> HIDE DEF n, pl
      <4>1. pl = IF (bufferConsume + i) - 1 < B
                 THEN (bufferConsume + i) - 1
                 ELSE ((bufferConsume + i) - 1) - B
        BY <3>3 DEF pl
      <4>2. pl = bufferPosition <=> i = n + 1
        BY <1>3, <2>2, <3>2, <3>4, <4>1
      <4> QED BY <4>2 DEF pl
    <3>6. CASE i = n + 1
      <4>1. Buffer'[Place(i)] = c
        BY <1>1, <1>2, <3>3, <3>5, <3>6 DEF TypeOK
      <4>2. (l - n) + i = l + 1
        BY <1>3, <3>6
      <4> QED BY <1>4, <3>2, <4>1, <4>2
    <3>7. CASE i # n + 1
      <4>1. i \in 1..n /\ (l - n) + i \in 1..l
        BY <1>3, <3>1, <3>7
      <4>2. Buffer'[Place(i)] = Buffer[Place(i)]
        BY <1>1, <1>2, <3>3, <3>5, <3>7 DEF TypeOK
      <4>3. Buffer[Place(i)] = unread[(l - n) + i]
        BY <4>1 DEF Inv, Stored
      <4> QED BY <1>4, <3>2, <4>1, <4>2, <4>3
    <3> QED BY <3>6, <3>7
  <2> QED BY <2>1, <2>2
<1> QED BY <1>5, <1>7, <1>8 DEF Inv

\* read: what is left are the characters after those returned.
LEMMA ReadInv ==
    ASSUME Inv, NEW length \in 0..MaxRead, Read(length)
    PROVE  Inv'
<1> DEFINE l == Len(unread)
           n == Count
           B == BUFFERSIZE
           k == IF length < n THEN length ELSE n
<1>1. TypeOK
  BY DEF Inv
<1>2. /\ B \in Nat \ {0}
      /\ bufferConsume \in Nat /\ bufferConsume < B
      /\ bufferPosition \in Nat /\ bufferPosition < B
      /\ l \in Nat /\ n \in 0..(B - 1)
  BY <1>1, SizeFacts, CountFacts
<1>3. k \in 0..n
  BY <1>2, BufferAssumption
<1>4. /\ bufferConsume' = (bufferConsume + k) % B
      /\ unread' = LastOf(unread, n - k)
      /\ UNCHANGED <<Buffer, bufferPosition, shift, caps>>
  BY <1>1, ContentsFacts DEF Read
<1> HIDE DEF k
<1>5. n <= l
  BY DEF Inv, LostBuffers
<1>6. /\ unread' \in Seq(Char) /\ Len(unread') = n - k
      /\ \A i \in 1..(n - k) : unread'[i] = unread[(l - (n - k)) + i]
  <2>1. n - k \in 0..l
    BY <1>2, <1>3, <1>5
  <2>2. unread \in Seq(Char)
    BY <1>1 DEF TypeOK
  <2> HIDE DEF n
  <2> QED BY <1>4, <2>1, <2>2, LastOfFacts
<1>7. bufferConsume' = IF bufferConsume + k < B THEN bufferConsume + k
                                                ELSE (bufferConsume + k) - B
  <2> DEFINE x == bufferConsume + k
  <2>1. x \in 0..(2 * B - 1)
    BY <1>2, <1>3
  <2>2. bufferConsume' = x % B
    BY <1>4
  <2> HIDE DEF x
  <2>3. bufferConsume' = IF x < B THEN x ELSE x - B
    BY <1>2, <2>1, <2>2, ModWraps
  <2> QED BY <2>3 DEF x
<1>8. TypeOK'
  <2>1. bufferConsume' \in Offset
    BY <1>2, <1>3, <1>7 DEF Offset
  <2> QED BY <1>1, <1>4, <1>6, <2>1 DEF TypeOK
<1>9. Count' = n - k
  <2>1. Count' = IF bufferConsume' <= bufferPosition'
                 THEN bufferPosition' - bufferConsume'
                 ELSE (bufferPosition' - bufferConsume') + B
    <3>1. (TypeOK => /\ Count \in 0..(BUFFERSIZE - 1)
                     /\ Count = IF bufferConsume <= bufferPosition
                                THEN bufferPosition - bufferConsume
                                ELSE (bufferPosition - bufferConsume) + BUFFERSIZE)'
      BY CountFacts, PTL
    <3> QED BY <1>8, <3>1
  <2>2. n = IF bufferConsume <= bufferPosition
            THEN bufferPosition - bufferConsume
            ELSE (bufferPosition - bufferConsume) + B
    BY <1>1, CountFacts
  <2>3. bufferPosition' = bufferPosition
    BY <1>4
  <2> HIDE DEF n
  <2> QED BY <1>2, <1>3, <1>7, <2>1, <2>2, <2>3
<1>10. LostBuffers'
  <2>1. (n - k) - (n - k) = 0 /\ n - k <= n - k
    BY <1>2, <1>3
  <2>2. 0 % B = 0
    BY <1>2, ModZero
  <2> QED BY <1>6, <1>9, <2>1, <2>2 DEF LostBuffers
<1>11. Stored'
  <2> SUFFICES ASSUME NEW i \in 1..(n - k)
               PROVE  Buffer[Place(i)'] = unread'[((n - k) - (n - k)) + i]
    BY <1>4, <1>6, <1>9 DEF Stored
  <2>1. ((n - k) - (n - k)) + i = i /\ i + k \in 1..n /\ i + k \in 1..B /\ i \in 1..B
    BY <1>2, <1>3
  <2>2. Place(i)' = Place(i + k)
    <3> DEFINE y == (i + k)
    <3>2. Place(i)' = IF (bufferConsume' + i) - 1 < B
                      THEN (bufferConsume' + i) - 1
                      ELSE ((bufferConsume' + i) - 1) - B
      BY <1>8, <2>1, PlaceFactsNext
    <3>3. y \in 1..B
      BY <2>1
    <3> HIDE DEF y
    <3>4. Place(y) = IF (bufferConsume + y) - 1 < B
                     THEN (bufferConsume + y) - 1
                     ELSE ((bufferConsume + y) - 1) - B
      BY <1>1, <3>3, PlaceFacts
    <3>5. Place(i)' = Place(y)
      <4>1. i \in Nat /\ k \in Nat /\ k < B /\ y = i + k /\ i <= B
        BY <1>2, <1>3, <2>1 DEF y
      <4> QED BY <1>2, <1>7, <3>2, <3>3, <3>4, <4>1
    <3> QED BY <3>5 DEF y
  <2>3. Buffer[Place(i + k)] = unread[(l - n) + (i + k)]
    BY <2>1 DEF Inv, Stored
  <2>4. (l - n) + (i + k) = (l - (n - k)) + i
    BY <1>2, <1>3
  <2> QED BY <1>6, <2>1, <2>2, <2>3, <2>4
<1> QED BY <1>8, <1>10, <1>11 DEF Inv

\* putTerminalBuffer, with room or without, and the key that calls it.
LEMMA PutAnyInv ==
    ASSUME Inv, NEW c \in Char, Put(c)
    PROVE  Inv'
<1>1. CASE isBufferFull
  <2>1. TypeOK' /\ UNCHANGED <<Buffer, bufferConsume, bufferPosition, unread>>
    BY <1>1 DEF Inv, Put, TypeOK
  <2> QED BY <2>1, BufferKept
<1>2. CASE ~isBufferFull
  BY <1>2, PutInv
<1> QED BY <1>1, <1>2

LEMMA KeyInv ==
    ASSUME Inv, NEW k \in Keys, Key(k)
    PROVE  Inv'
<1> DEFINE c == <<k, Column>>
<1>1. c \in Char
  BY DEF Char, Column, Inv, TypeOK
<1>2. Put(c)
  BY DEF Key
<1> HIDE DEF c
<1> QED BY <1>1, <1>2, PutAnyInv

LEMMA NextInv ==
    ASSUME Inv, [Next]_vars
    PROVE  Inv'
<1>1. TypeOK
  BY DEF Inv
<1>2. CASE CapsLock \/ (\E on \in BOOLEAN : Shift(on)) \/ UNCHANGED vars
  <2>1. TypeOK' /\ UNCHANGED <<Buffer, bufferConsume, bufferPosition, unread>>
    BY <1>1, <1>2 DEF CapsLock, Shift, vars, TypeOK
  <2> QED BY <2>1, BufferKept
<1>3. ASSUME NEW k \in Keys, Key(k) PROVE Inv'
  BY <1>3, KeyInv
<1>4. CASE Reset
  <2>1. TypeOK'
    BY <1>1, <1>4, BufferAssumption, EmptySeq DEF Reset, TypeOK, Offset
  <2>2. BUFFERSIZE \in Nat \ {0}
    BY BufferAssumption
  <2>3. Count' = 0
    <3>1. Count' = (0 - 0) % BUFFERSIZE
      BY <1>4 DEF Reset, Count
    <3> QED BY <2>2, <3>1, ModZero
  <2>4. Len(unread') = 0 /\ 0 % BUFFERSIZE = 0
    BY <1>4, <2>2, EmptySeq, ModZero DEF Reset
  <2> QED BY <2>1, <2>3, <2>4 DEF Inv, LostBuffers, Stored
<1>5. ASSUME NEW length \in 0..MaxRead, Read(length) PROVE Inv'
  BY <1>5, ReadInv
<1> QED BY <1>2, <1>3, <1>4, <1>5 DEF Next

\* The invariant says what a program reads.
LEMMA InvContents == Inv => ContentsInOrder
<1> SUFFICES ASSUME Inv PROVE ContentsInOrder
  OBVIOUS
<1>1. /\ TypeOK /\ unread \in Seq(Char) /\ Len(unread) \in Nat
      /\ Count \in Nat /\ Count <= Len(unread)
  BY SizeFacts, CountFacts DEF Inv, TypeOK, LostBuffers
<1>2. /\ Len(Contents) = Count
      /\ \A i \in 1..Count : Contents[i] = Buffer[Place(i)]
      /\ Contents = [i \in 1..Count |-> Buffer[Place(i)]]
  BY <1>1, ContentsFacts
<1>3. /\ LastOf(unread, Count) \in Seq(Char)
      /\ Len(LastOf(unread, Count)) = Count
      /\ \A i \in 1..Count : LastOf(unread, Count)[i] = unread[(Len(unread) - Count) + i]
  <2> DEFINE n == Count
  <2>1. n \in 0..Len(unread)
    BY <1>1
  <2> HIDE DEF n
  <2>2. /\ LastOf(unread, n) \in Seq(Char)
        /\ Len(LastOf(unread, n)) = n
        /\ \A i \in 1..n : LastOf(unread, n)[i] = unread[(Len(unread) - n) + i]
    BY <1>1, <2>1, LastOfFacts
  <2> QED BY <2>2 DEF n
<1>4. \A i \in 1..Count : Contents[i] = LastOf(unread, Count)[i]
  BY <1>2, <1>3 DEF Inv, Stored
<1>5. \A i \in 1..Count : Contents[i] \in Char
  BY <1>3, <1>4, ElementOfSeq
<1>6. Contents \in Seq(Char)
  BY <1>1, <1>2, <1>5
<1>7. Contents = LastOf(unread, Count)
  BY <1>2, <1>3, <1>4, <1>6, SeqEqual
<1>8. ASSUME Len(unread) < BUFFERSIZE PROVE Contents = unread
  <2> DEFINE lost == Len(unread) - Count
  <2>1. BUFFERSIZE \in Nat \ {0} /\ lost \in 0..(2 * BUFFERSIZE - 1) /\ lost < BUFFERSIZE
    BY <1>1, <1>8, SizeFacts
  <2>2. lost % BUFFERSIZE = 0
    BY DEF Inv, LostBuffers
  <2>3. lost = 0
    <3> HIDE DEF lost
    <3> QED BY <2>1, <2>2, ModWraps
  <2>4. Count = Len(unread) /\ \A i \in 1..Count : (Len(unread) - Count) + i = i
    BY <1>1, <2>3
  <2>5. \A i \in 1..Len(unread) : Contents[i] = unread[i]
    BY <1>3, <1>4, <2>4
  <2> QED BY <1>1, <1>2, <1>6, <2>4, <2>5, SeqEqual
<1> QED BY <1>1, <1>2, <1>7, <1>8 DEF ContentsInOrder

-----------------------------------------------------------------------------
\* Both offsets stay inside the array, whatever is typed and read.
THEOREM TypeCorrect == Spec => []TypeOK
<1>1. Inv => TypeOK
  BY DEF Inv
<1> QED BY <1>1, InitInv, NextInv, PTL DEF Spec

\* What a program can read is the most recent of the accepted characters, in
\* the order they were typed, and all of them unless putTerminalBuffer has
\* accepted more than there is room for: for every buffer size and reads of any
\* length at any time.
THEOREM ReadsInOrder == Spec => []ContentsInOrder
BY InvContents, InitInv, NextInv, PTL DEF Spec

\* putTerminalBuffer drops a character only when BUFFERSIZE - 1 are waiting.
THEOREM DropsOnlyWhenFull == Spec => []IgnoredOnlyWhenFull
<1>1. Inv => IgnoredOnlyWhenFull
  <2> SUFFICES ASSUME Inv, isBufferFull PROVE Len(Contents) = BUFFERSIZE - 1
    BY DEF IgnoredOnlyWhenFull
  <2>1. TypeOK /\ Len(Contents) = Count
    BY ContentsFacts DEF Inv
  <2>2. /\ BUFFERSIZE \in Nat \ {0}
        /\ bufferConsume \in Nat /\ bufferConsume < BUFFERSIZE
        /\ bufferPosition \in Nat /\ bufferPosition < BUFFERSIZE
    BY <2>1, SizeFacts
  <2>3. bufferConsume = bufferPosition + 1
    BY <2>2 DEF isBufferFull
  <2>4. Count = IF bufferConsume <= bufferPosition
                THEN bufferPosition - bufferConsume
                ELSE (bufferPosition - bufferConsume) + BUFFERSIZE
    BY <2>1, CountFacts
  <2> QED BY <2>1, <2>2, <2>3, <2>4
<1> QED BY <1>1, InitInv, NextInv, PTL DEF Spec

=============================================================================
