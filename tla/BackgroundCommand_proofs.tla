----------------------- MODULE BackgroundCommand_proofs -----------------------
(***************************************************************************)
(* Theorems about one background command (BackgroundCommand), for buffers, *)
(* pages, reads and outputs of any size:                                   *)
(*   CommandTypeCorrect  the type invariant;                               *)
(*   OutputAccounted     no output is lost between reader, buffer, disk    *)
(*                       and the calls that show it;                       *)
(*   ReadsInOrder        incremental reads repeat and pass over nothing.   *)
(***************************************************************************)
EXTENDS BackgroundCommand, TLAPS

-----------------------------------------------------------------------------
(* Sequences and pages.                                                    *)

\* The type, the length and the places of a concatenation.
LEMMA Concat ==
  ASSUME NEW S, NEW s \in Seq(S), NEW r \in Seq(S)
  PROVE  /\ s \o r \in Seq(S) /\ Len(s \o r) = Len(s) + Len(r)
         /\ DOMAIN (s \o r) = 1..(Len(s) + Len(r))
         /\ \A i \in 1..Len(s) : (s \o r)[i] = s[i]
         /\ \A i \in (Len(s) + 1)..(Len(s) + Len(r)) : (s \o r)[i] = r[i - Len(s)]
OBVIOUS

\* The members of a sequence.
LEMMA MembersOf == ASSUME NEW S, NEW s \in Seq(S) PROVE ToSet(s) \subseteq S
BY DEF ToSet

LEMMA WiderSeq ==
  ASSUME NEW S, NEW T, S \subseteq T, NEW s \in Seq(S)
  PROVE  s \in Seq(T)
<1>1. \A i \in 1..Len(s) : s[i] \in T
  OBVIOUS
<1>2. Len(s) \in Nat /\ s = [i \in 1..Len(s) |-> s[i]]
  OBVIOUS
<1> QED BY <1>1, <1>2

\* The rest of a sequence from a place on, possibly one behind its end.
LEMMA RestFrom ==
  ASSUME NEW S, NEW s \in Seq(S), NEW i \in 1..(Len(s) + 1)
  PROVE  /\ SubSeq(s, i, Len(s)) \in Seq(S) /\ Len(SubSeq(s, i, Len(s))) = Len(s) - i + 1
         /\ \A k \in 1..(Len(s) - i + 1) : SubSeq(s, i, Len(s))[k] = s[i + k - 1]
OBVIOUS

\* As many full pages as there are.
LEMMA FullPages ==
  ASSUME NEW p \in Nat \ {0}, NEW l \in Nat
  PROVE  /\ l \div p \in Nat /\ (l \div p) * p <= l /\ (l \div p) * p \in Nat
OBVIOUS

LEMMA LastPage ==
  ASSUME NEW p \in Nat \ {0}, NEW l \in Nat
  PROVE  l < (l \div p) * p + p
OBVIOUS

\* Each place is on a page.
LEMMA PageOf ==
  ASSUME NEW p \in Nat \ {0}, NEW q \in Nat, NEW k \in 1..(q * p)
  PROVE  \E i \in 1..q : k \in ((i - 1) * p + 1)..(i * p)
<1> DEFINE e == (k - 1) \div p
<1>0. k - 1 \in Nat
  OBVIOUS
<1>1. e \in Nat /\ e * p <= k - 1 /\ k - 1 < e * p + p
  BY <1>0, FullPages, LastPage
<1> HIDE DEF e
<1>2. e < q
  <2> SUFFICES ASSUME q <= e PROVE FALSE
    BY <1>1
  <2>1. q * p <= e * p
    BY <1>1
  <2> QED BY <1>1, <2>1
<1>3. e + 1 \in 1..q /\ (e + 1) * p = e * p + p /\ (e + 1) - 1 = e
  BY <1>1, <1>2
<1>4. k \in ((e + 1) - 1) * p + 1 .. (e + 1) * p
  <2>1. e * p \in Nat /\ k \in Nat
    BY <1>1
  <2>2. k \in e * p + 1 .. e * p + p
    BY <1>1, <2>1
  <2> QED BY <1>3, <2>2
<1> QED BY <1>3, <1>4

\* A page is inside what it is a page of.
LEMMA PageInside ==
  ASSUME NEW p \in Nat \ {0}, NEW q \in Nat, NEW i \in 1..q
  PROVE  (i - 1) * p \in Nat /\ i * p = (i - 1) * p + p /\ i * p <= q * p /\ i * p \in Nat
<1>1. (i - 1) \in Nat /\ i \in Nat
  OBVIOUS
<1>2. (i - 1) * p \in Nat /\ i * p = (i - 1) * p + p
  BY <1>1
<1>3. q - i \in Nat /\ (q - i) * p \in Nat /\ q * p = i * p + (q - i) * p
  BY <1>1
<1>4. i * p \in Nat /\ q * p \in Nat
  BY <1>1
<1> QED BY <1>2, <1>3, <1>4

-----------------------------------------------------------------------------
(* A buffer in memory is the end of the stream.                            *)

\* s is the last of the characters 1..n.
Window(s, n) ==
  s \in Seq(Nat) /\ Len(s) <= n /\ \A i \in 1..Len(s) : s[i] = n - Len(s) + i

\* t is what comes after the characters 1..n.
Continues(t, n) == t \in Seq(Nat) /\ \A i \in 1..Len(t) : t[i] = n + i

LEMMA WindowNone == ASSUME NEW n \in Nat PROVE Window(<<>>, n)
BY DEF Window

\* Which characters a window has.
LEMMA WindowSet ==
  ASSUME NEW n \in Nat, NEW s, Window(s, n)
  PROVE  ToSet(s) = (n - Len(s) + 1)..n
<1>1. s \in Seq(Nat) /\ DOMAIN s = 1..Len(s) /\ Len(s) \in Nat /\ Len(s) <= n
  BY DEF Window
<1>2. \A i \in 1..Len(s) : s[i] = n - Len(s) + i
  BY DEF Window
<1>3. ASSUME NEW k \in (n - Len(s) + 1)..n PROVE k \in ToSet(s)
  <2>1. k - (n - Len(s)) \in 1..Len(s) /\ n - Len(s) + (k - (n - Len(s))) = k
    BY <1>1
  <2> QED BY <1>1, <1>2, <2>1 DEF ToSet
<1>4. ASSUME NEW i \in 1..Len(s) PROVE s[i] \in (n - Len(s) + 1)..n
  BY <1>1, <1>2
<1> QED BY <1>1, <1>3, <1>4 DEF ToSet

\* The next characters are appended.
LEMMA WindowGrows ==
  ASSUME NEW n \in Nat, NEW s, Window(s, n), NEW r, Continues(r, n)
  PROVE  Window(s \o r, n + Len(r)) /\ Len(s \o r) = Len(s) + Len(r)
<1>1. s \in Seq(Nat) /\ Len(s) \in Nat /\ Len(s) <= n /\ Len(r) \in Nat
      /\ r \in Seq(Nat)
  BY DEF Window, Continues
<1>2. /\ s \o r \in Seq(Nat) /\ Len(s \o r) = Len(s) + Len(r)
      /\ \A i \in 1..Len(s) : (s \o r)[i] = s[i]
      /\ \A i \in (Len(s) + 1)..(Len(s) + Len(r)) : (s \o r)[i] = r[i - Len(s)]
  BY <1>1, Concat
<1>3. ASSUME NEW i \in 1..(Len(s) + Len(r)) PROVE (s \o r)[i] = n + Len(r) - (Len(s) + Len(r)) + i
  <2>1. CASE i <= Len(s)
    <3>1. i \in 1..Len(s)
      BY <1>1, <2>1
    <3>2. (s \o r)[i] = n - Len(s) + i
      BY <1>2, <3>1 DEF Window
    <3> QED BY <1>1, <3>2
  <2>2. CASE i > Len(s)
    <3>1. i \in (Len(s) + 1)..(Len(s) + Len(r)) /\ i - Len(s) \in 1..Len(r)
      BY <1>1, <2>2
    <3>2. (s \o r)[i] = n + (i - Len(s))
      BY <1>2, <3>1 DEF Continues
    <3> QED BY <1>1, <3>2
  <2> QED BY <1>1, <2>1, <2>2
<1> QED BY <1>1, <1>2, <1>3 DEF Window

\* The rest of a window is one.
LEMMA WindowRest ==
  ASSUME NEW n \in Nat, NEW s, Window(s, n), NEW i \in 1..(Len(s) + 1)
  PROVE  Window(SubSeq(s, i, Len(s)), n) /\ Len(SubSeq(s, i, Len(s))) = Len(s) - i + 1
<1>1. s \in Seq(Nat) /\ Len(s) \in Nat /\ Len(s) <= n /\ \A k \in 1..Len(s) : s[k] = n - Len(s) + k
  BY DEF Window
<1>2. PICK r : r = SubSeq(s, i, Len(s))
  OBVIOUS
<1>3. /\ r \in Seq(Nat) /\ Len(r) = Len(s) - i + 1
      /\ \A k \in 1..(Len(s) - i + 1) : r[k] = s[i + k - 1]
  BY <1>1, <1>2, RestFrom
<1>4. ASSUME NEW k \in 1..Len(r) PROVE r[k] = n - Len(r) + k
  <2>1. i + k - 1 \in 1..Len(s)
    BY <1>1, <1>3
  <2>2. r[k] = n - Len(s) + (i + k - 1)
    BY <1>1, <1>3, <2>1
  <2> QED BY <1>1, <1>3, <2>2
<1> QED BY <1>1, <1>2, <1>3, <1>4 DEF Window

\* So are the newest of its characters.
LEMMA WindowNewest ==
  ASSUME NEW n \in Nat, NEW s, Window(s, n), NEW m \in Nat
  PROVE  Window(Newest(s, m), n) /\ Len(Newest(s, m)) = IF Len(s) > m THEN m ELSE Len(s)
<1>1. Len(s) \in Nat
  BY DEF Window
<1> DEFINE i == (IF Len(s) > m THEN Len(s) - m ELSE 0) + 1
<1>2. i \in 1..(Len(s) + 1) /\ Len(s) - i + 1 = IF Len(s) > m THEN m ELSE Len(s)
  BY <1>1
<1>3. Newest(s, m) = SubSeq(s, i, Len(s))
  BY DEF Newest
<1> HIDE DEF i
<1> QED BY <1>2, <1>3, WindowRest

-----------------------------------------------------------------------------
(* The buffers.                                                            *)

PageSet == Seq(Nat) \cup {Missing}

\* What is on disk stays there when pages are written.
LEMMA PagesStay ==
  ASSUME NEW c \in Buffer, NEW d \in Buffer, NEW more \in Seq(PageSet), d.pages = c.pages \o more
  PROVE  /\ OnPages(c) \subseteq OnPages(d)
         /\ \A i \in DOMAIN more : more[i] # Missing => ToSet(more[i]) \subseteq OnPages(d)
<1>1. c.pages \in Seq(PageSet) /\ d.pages \in Seq(PageSet)
  BY DEF Buffer, PageSet
<1>2. PICK s \in Seq(PageSet), r \in Seq(PageSet) : s = c.pages /\ r = d.pages
  BY <1>1
<1>3. /\ DOMAIN r = 1..(Len(s) + Len(more)) /\ DOMAIN s = 1..Len(s) /\ Len(s) \in Nat
      /\ DOMAIN more = 1..Len(more) /\ Len(more) \in Nat
      /\ \A i \in 1..Len(s) : r[i] = s[i]
      /\ \A i \in (Len(s) + 1)..(Len(s) + Len(more)) : r[i] = more[i - Len(s)]
  BY <1>2, Concat
<1>4. \A i \in DOMAIN s : i \in DOMAIN r /\ r[i] = s[i]
  BY <1>3
<1>5. ASSUME NEW i \in DOMAIN more PROVE Len(s) + i \in DOMAIN r /\ r[Len(s) + i] = more[i]
  <2>1. Len(s) + i \in (Len(s) + 1)..(Len(s) + Len(more)) /\ (Len(s) + i) - Len(s) = i
    BY <1>3
  <2> QED BY <1>3, <2>1
<1>6. OnPages(c) \subseteq OnPages(d)
  BY <1>2, <1>4 DEF OnPages
<1>7. \A i \in DOMAIN more : more[i] # Missing => ToSet(more[i]) \subseteq OnPages(d)
  BY <1>2, <1>5 DEF OnPages
<1> QED BY <1>6, <1>7

\* A part of a sequence.
LEMMA Part ==
  ASSUME NEW S, NEW s \in Seq(S), NEW m \in Nat, NEW n \in Nat, m <= n, n <= Len(s)
  PROVE  /\ SubSeq(s, m + 1, n) \in Seq(S) /\ Len(SubSeq(s, m + 1, n)) = n - m
         /\ \A k \in 1..(n - m) : SubSeq(s, m + 1, n)[k] = s[m + k]
OBVIOUS

LEMMA PartSet ==
  ASSUME NEW S, NEW s \in Seq(S), NEW m \in Nat, NEW n \in Nat, m <= n, n <= Len(s)
  PROVE  \A k \in (m + 1)..n : s[k] \in ToSet(SubSeq(s, m + 1, n))
<1>1. PICK r : r = SubSeq(s, m + 1, n)
  OBVIOUS
<1>2. r \in Seq(S) /\ Len(r) = n - m /\ \A k \in 1..(n - m) : r[k] = s[m + k]
  BY <1>1, Part
<1>3. ASSUME NEW k \in (m + 1)..n PROVE s[k] \in ToSet(r)
  <2>1. k - m \in 1..(n - m) /\ m + (k - m) = k
    OBVIOUS
  <2>2. k - m \in DOMAIN r /\ r[k - m] = s[k]
    BY <1>2, <2>1
  <2> QED BY <2>2 DEF ToSet
<1> QED BY <1>1, <1>3

\* Changing one field.
LEMMA BufferFields ==
  ASSUME NEW c \in Buffer
  PROVE  /\ \A x \in Seq(PageSet) : LET d == [c EXCEPT !.pages = x] IN
              /\ d \in Buffer /\ d.kind = c.kind /\ d.total_added = c.total_added /\ d.pages = x
              /\ d.buffer = c.buffer /\ d.window_start = c.window_start
         /\ \A x \in Nat : LET d == [c EXCEPT !.window_start = x] IN
              /\ d \in Buffer /\ d.kind = c.kind /\ d.total_added = c.total_added /\ d.pages = c.pages
              /\ d.buffer = c.buffer /\ d.window_start = x
         /\ \A x \in Nat : LET d == [c EXCEPT !.total_added = x] IN
              /\ d \in Buffer /\ d.kind = c.kind /\ d.total_added = x /\ d.pages = c.pages
              /\ d.buffer = c.buffer /\ d.window_start = c.window_start
         /\ \A x \in Seq(Nat) : LET d == [c EXCEPT !.buffer = x] IN
              /\ d \in Buffer /\ d.kind = c.kind /\ d.total_added = c.total_added /\ d.pages = c.pages
              /\ d.buffer = x /\ d.window_start = c.window_start
BY DEF Buffer, PageSet

\* A spill: what leaves the memory is on disk.  A page that could not be
\* written leaves the window where it was, from the second page on with a start
\* that is ahead of it.
LEMMA SpillKeeps ==
  ASSUME NEW c \in Buffer, NEW j \in Nat
  PROVE  LET d == Spill(c, j) IN
         /\ d \in Buffer /\ d.kind = c.kind /\ d.total_added = c.total_added
         /\ OnPages(c) \subseteq OnPages(d)
         /\ \E i \in 1..(Len(c.buffer) + 1) :
              /\ d.buffer = SubSeq(c.buffer, i, Len(c.buffer))
              /\ \A k \in 1..(i - 1) : c.buffer[k] \in OnPages(d)
         /\ d.window_start + Len(d.buffer) >= c.window_start + Len(c.buffer)
         /\ j \in {0, 1} => d.window_start + Len(d.buffer) = c.window_start + Len(c.buffer)
<1> SUFFICES ASSUME NEW d, d = Spill(c, j)
    PROVE  /\ d \in Buffer /\ d.kind = c.kind /\ d.total_added = c.total_added
           /\ OnPages(c) \subseteq OnPages(d)
           /\ \E i \in 1..(Len(c.buffer) + 1) :
                /\ d.buffer = SubSeq(c.buffer, i, Len(c.buffer))
                /\ \A k \in 1..(i - 1) : c.buffer[k] \in OnPages(d)
           /\ d.window_start + Len(d.buffer) >= c.window_start + Len(c.buffer)
           /\ j \in {0, 1} => d.window_start + Len(d.buffer) = c.window_start + Len(c.buffer)
  OBVIOUS
<1> DEFINE full == Len(c.buffer) \div PageSize
           page(i) == SubSeq(c.buffer, (i - 1) * PageSize + 1, i * PageSize)
<1>1. /\ c.buffer \in Seq(Nat) /\ Len(c.buffer) \in Nat /\ PageSize \in Nat \ {0} /\ Missing \notin Seq(Nat)
      /\ c.window_start \in Nat /\ c.pages \in Seq(PageSet) /\ c.total_added \in Nat /\ c.kind \in BufferKinds
  BY BufferAssumption DEF Buffer, PageSet
<1>2. full \in Nat /\ full * PageSize <= Len(c.buffer) /\ full * PageSize \in Nat
  BY <1>1, FullPages
<1> HIDE DEF full, page
<1>3. ASSUME NEW i \in 1..full
      PROVE  /\ page(i) \in Seq(Nat)
             /\ \A k \in ((i - 1) * PageSize + 1)..(i * PageSize) : c.buffer[k] \in ToSet(page(i))
  <2>1. /\ (i - 1) * PageSize \in Nat /\ i * PageSize \in Nat /\ (i - 1) * PageSize <= i * PageSize
        /\ i * PageSize <= Len(c.buffer)
    <3>1. /\ (i - 1) * PageSize \in Nat /\ i * PageSize = (i - 1) * PageSize + PageSize
          /\ i * PageSize <= full * PageSize /\ i * PageSize \in Nat
      BY <1>1, <1>2, PageInside
    <3>2. PICK a \in Nat, z \in Nat, t \in Nat, l \in Nat :
            a = (i - 1) * PageSize /\ z = i * PageSize /\ t = full * PageSize /\ l = Len(c.buffer)
      BY <1>1, <1>2, <3>1
    <3>3. z = a + PageSize /\ z <= t /\ t <= l
      BY <1>2, <3>1, <3>2
    <3>4. a <= z /\ z <= l
      BY <1>1, <3>2, <3>3
    <3> QED BY <3>2, <3>4
  <2> QED BY <1>1, <2>1, Part, PartSet DEF page
<1>4. CASE j \in 1..full
  <2> DEFINE more == [i \in 1..j |-> IF i = j THEN Missing ELSE page(i)]
             e == [c EXCEPT !.pages = c.pages \o more]
  <2>1. d = [e EXCEPT !.window_start = c.window_start + (j - 1) * PageSize]
    BY <1>4 DEF Spill, full, page
  <2>2. \A i \in 1..j : i \in 1..full
    BY <1>2, <1>4
  <2>3. more \in Seq(PageSet)
    BY <1>3, <2>2 DEF PageSet
  <2>4. (j - 1) * PageSize \in Nat /\ (j = 1 => (j - 1) * PageSize = 0)
    BY <1>1, <1>2, <1>4, PageInside
  <2> HIDE DEF more
  <2>5. c.pages \o more \in Seq(PageSet)
    BY <1>1, <2>3, Concat
  <2>6. c.window_start + (j - 1) * PageSize \in Nat
    BY <1>1, <2>4
  <2>7. /\ e \in Buffer /\ e.kind = c.kind /\ e.total_added = c.total_added /\ e.pages = c.pages \o more
        /\ e.buffer = c.buffer
    BY <2>5, BufferFields
  <2> HIDE DEF e
  <2>8. /\ d \in Buffer /\ d.kind = c.kind /\ d.total_added = c.total_added /\ d.pages = c.pages \o more
        /\ d.buffer = c.buffer /\ d.window_start = c.window_start + (j - 1) * PageSize
    BY <2>1, <2>6, <2>7, BufferFields
  <2>9. OnPages(c) \subseteq OnPages(d)
    BY <2>3, <2>8, PagesStay
  <2>10. \E i \in 1..(Len(c.buffer) + 1) :
           /\ d.buffer = SubSeq(c.buffer, i, Len(c.buffer))
           /\ \A k \in 1..(i - 1) : c.buffer[k] \in OnPages(d)
    <3>1. 1 \in 1..(Len(c.buffer) + 1) /\ c.buffer = SubSeq(c.buffer, 1, Len(c.buffer)) /\ 1..(1 - 1) = {}
      BY <1>1
    <3> QED BY <2>8, <3>1
  <2>11. d.window_start + Len(d.buffer) >= c.window_start + Len(c.buffer)
    BY <1>1, <2>4, <2>8
  <2>12. j \in {0, 1} => d.window_start + Len(d.buffer) = c.window_start + Len(c.buffer)
    BY <1>1, <1>4, <2>4, <2>8
  <2> QED BY <2>8, <2>9, <2>10, <2>11, <2>12
<1>5. CASE j \notin 1..full
  <2> DEFINE more == [i \in 1..full |-> page(i)]
             rest == SubSeq(c.buffer, full * PageSize + 1, Len(c.buffer))
             e == [c EXCEPT !.pages = c.pages \o more]
             g == [e EXCEPT !.window_start = c.window_start + full * PageSize]
  <2>1. d = [g EXCEPT !.buffer = rest]
    BY <1>5 DEF Spill, full, page
  <2>2. more \in Seq(PageSet) /\ DOMAIN more = 1..full
    BY <1>2, <1>3 DEF PageSet
  <2>3. \A i \in 1..full : more[i] = page(i) /\ more[i] # Missing
    BY <1>1, <1>3
  <2>4. full * PageSize + 1 \in 1..(Len(c.buffer) + 1) /\ (full * PageSize + 1) - 1 = full * PageSize
    <3>1. PICK t \in Nat, l \in Nat : t = full * PageSize /\ l = Len(c.buffer) /\ t <= l
      <4>1. full * PageSize \in Nat /\ Len(c.buffer) \in Nat /\ full * PageSize <= Len(c.buffer)
        BY <1>1, <1>2
      <4> QED BY <4>1
    <3>2. t + 1 \in 1..(l + 1) /\ (t + 1) - 1 = t
      BY <3>1
    <3> QED BY <3>1, <3>2
  <2>5. rest \in Seq(Nat) /\ Len(rest) = Len(c.buffer) - (full * PageSize + 1) + 1
    BY <1>1, <2>4, RestFrom
  <2> HIDE DEF more, rest
  <2>6. c.pages \o more \in Seq(PageSet) /\ c.window_start + full * PageSize \in Nat
    <3>1. c.pages \o more \in Seq(PageSet)
      BY <1>1, <2>2, Concat
    <3>2. c.window_start + full * PageSize \in Nat
      <4>1. PICK t \in Nat, w \in Nat : t = full * PageSize /\ w = c.window_start
        BY <1>1, <1>2
      <4>2. w + t \in Nat
        BY <4>1
      <4> QED BY <4>1, <4>2
    <3> QED BY <3>1, <3>2
  <2>7. /\ e \in Buffer /\ e.kind = c.kind /\ e.total_added = c.total_added /\ e.pages = c.pages \o more
    BY <2>6, BufferFields
  <2> HIDE DEF e
  <2>8. /\ g \in Buffer /\ g.kind = c.kind /\ g.total_added = c.total_added /\ g.pages = c.pages \o more
        /\ g.window_start = c.window_start + full * PageSize
    BY <2>6, <2>7, BufferFields
  <2> HIDE DEF g
  <2>9. /\ d \in Buffer /\ d.kind = c.kind /\ d.total_added = c.total_added /\ d.pages = c.pages \o more
        /\ d.buffer = rest /\ d.window_start = c.window_start + full * PageSize
    BY <2>1, <2>5, <2>8, BufferFields
  <2>10. OnPages(c) \subseteq OnPages(d) /\ \A i \in 1..full : ToSet(page(i)) \subseteq OnPages(d)
    BY <2>2, <2>3, <2>9, PagesStay
  <2>11. ASSUME NEW k \in 1..(full * PageSize) PROVE c.buffer[k] \in OnPages(d)
    <3>1. PICK i \in 1..full : k \in ((i - 1) * PageSize + 1)..(i * PageSize)
      BY <1>1, <1>2, PageOf
    <3> QED BY <1>3, <2>10, <3>1
  <2>12. \E i \in 1..(Len(c.buffer) + 1) :
           /\ d.buffer = SubSeq(c.buffer, i, Len(c.buffer))
           /\ \A k \in 1..(i - 1) : c.buffer[k] \in OnPages(d)
    BY <2>4, <2>9, <2>11 DEF rest
  <2>13. d.window_start + Len(d.buffer) = c.window_start + Len(c.buffer)
    BY <1>1, <1>2, <2>5, <2>9
  <2>14. d.window_start + Len(d.buffer) >= c.window_start + Len(c.buffer)
    BY <1>1, <1>2, <2>5, <2>9
  <2> QED BY <2>9, <2>10, <2>12, <2>13, <2>14
<1> QED BY <1>4, <1>5

\* What the kinds of buffers do with a full one.
LEMMA TrimKeeps ==
  ASSUME NEW c \in Buffer, NEW n \in Nat, Window(c.buffer, n)
  PROVE  LET d == Trim(c) IN
         /\ d \in Buffer /\ d.kind = c.kind /\ d.total_added = c.total_added /\ d.pages = c.pages
         /\ Window(d.buffer, n) /\ d.window_start + Len(d.buffer) = c.window_start + Len(c.buffer)
<1> SUFFICES ASSUME NEW d, d = Trim(c)
    PROVE  /\ d \in Buffer /\ d.kind = c.kind /\ d.total_added = c.total_added /\ d.pages = c.pages
           /\ Window(d.buffer, n) /\ d.window_start + Len(d.buffer) = c.window_start + Len(c.buffer)
  OBVIOUS
<1>1. PICK s : s = Newest(c.buffer, PageSize)
  OBVIOUS
<1>2. PageSize \in Nat /\ c.window_start \in Nat /\ c.buffer \in Seq(Nat) /\ Len(c.buffer) \in Nat
  BY BufferAssumption DEF Buffer
<1>3. Window(s, n) /\ Len(s) = (IF Len(c.buffer) > PageSize THEN PageSize ELSE Len(c.buffer)) /\ s \in Seq(Nat)
  BY <1>1, <1>2, WindowNewest DEF Window
<1>4. PICK m \in Nat : m = c.window_start + Len(c.buffer) - Len(s) /\ m + Len(s) = c.window_start + Len(c.buffer)
  <2>1. PICK w \in Nat, l \in Nat, k \in Nat : w = c.window_start /\ l = Len(c.buffer) /\ k = Len(s)
    BY <1>2, <1>3
  <2>2. k <= l
    BY <1>2, <1>3, <2>1
  <2>3. w + l - k \in Nat /\ (w + l - k) + k = w + l
    BY <2>2
  <2> QED BY <2>1, <2>3
<1>5. PICK e : e = [c EXCEPT !.buffer = s]
  OBVIOUS
<1>6. d = [e EXCEPT !.window_start = m]
  BY <1>1, <1>4, <1>5 DEF Trim
<1>7. /\ e \in Buffer /\ e.kind = c.kind /\ e.total_added = c.total_added /\ e.pages = c.pages
      /\ e.buffer = s
  BY <1>3, <1>5, BufferFields
<1>8. /\ d \in Buffer /\ d.kind = c.kind /\ d.total_added = c.total_added /\ d.pages = c.pages
      /\ d.buffer = s /\ d.window_start = m
  BY <1>6, <1>7, BufferFields
<1> QED BY <1>3, <1>4, <1>8

\* append: the buffer is the end of the stream, and what a paged one no longer
\* holds is on disk.
LEMMA AddedKeeps ==
  ASSUME NEW c \in Buffer, NEW n \in Nat, Window(c.buffer, n),
         NEW t, Continues(t, n), NEW j \in Nat,
         NEW d, d = Added(c, t, j)
  PROVE  /\ d \in Buffer /\ d.kind = c.kind /\ d.total_added = c.total_added + Len(t)
         /\ Window(d.buffer, n + Len(t)) /\ OnPages(c) \subseteq OnPages(d)
         /\ c.kind = "paged" =>
              \A x \in Nat : n - Len(c.buffer) < x /\ x <= n + Len(t) - Len(d.buffer) => x \in OnPages(d)
         /\ c.kind # "circular" =>
              /\ d.window_start + Len(d.buffer) >= c.window_start + Len(c.buffer) + Len(t)
              /\ j \in {0, 1} => d.window_start + Len(d.buffer) = c.window_start + Len(c.buffer) + Len(t)
<1>1. /\ c.kind \in BufferKinds /\ c.buffer \in Seq(Nat) /\ Len(c.buffer) \in Nat /\ Len(t) \in Nat
      /\ c.total_added \in Nat /\ c.window_start \in Nat /\ MaxSize \in Nat /\ Len(c.buffer) <= n
  BY BufferAssumption DEF Buffer, Window, Continues
<1>2. PICK N \in Nat, l \in Nat, k \in Nat, w \in Nat :
        N = n + Len(t) /\ l = Len(c.buffer) /\ k = Len(t) /\ w = c.window_start /\ l <= n
  BY <1>1
<1>3. PICK s : s = c.buffer \o t
  OBVIOUS
<1>4. Window(s, N) /\ Len(s) = l + k /\ s \in Seq(Nat)
  <2>1. Window(c.buffer \o t, n + Len(t)) /\ Len(c.buffer \o t) = Len(c.buffer) + Len(t)
    BY WindowGrows
  <2> QED BY <1>2, <1>3, <2>1 DEF Window
<1>5. PICK e : e = [c EXCEPT !.buffer = s]
  OBVIOUS
<1>6. PICK m \in Nat : m = c.total_added + Len(t)
  BY <1>1
<1>7. PICK more : more = [e EXCEPT !.total_added = m]
  OBVIOUS
<1>8. /\ e \in Buffer /\ e.kind = c.kind /\ e.pages = c.pages /\ e.buffer = s /\ e.window_start = c.window_start
  BY <1>4, <1>5, BufferFields
<1>9. /\ more \in Buffer /\ more.kind = c.kind /\ more.pages = c.pages /\ more.buffer = s
      /\ more.window_start = c.window_start /\ more.total_added = m
  BY <1>6, <1>7, <1>8, BufferFields
<1>10. more = [c EXCEPT !.buffer = @ \o t, !.total_added = @ + Len(t)]
  BY <1>3, <1>5, <1>6, <1>7
<1>11. OnPages(more) = OnPages(c)
  BY <1>9 DEF OnPages
<1>12. CASE c.kind = "circular"
  <2>1. d = [more EXCEPT !.buffer = Newest(s, MaxSize)]
    BY <1>9, <1>10, <1>12 DEF Added
  <2>2. Window(Newest(s, MaxSize), N) /\ Newest(s, MaxSize) \in Seq(Nat)
    BY <1>1, <1>4, WindowNewest DEF Window
  <2>3. /\ d \in Buffer /\ d.kind = c.kind /\ d.pages = c.pages /\ d.buffer = Newest(s, MaxSize) /\ d.total_added = m
    BY <1>9, <2>1, <2>2, BufferFields
  <2> QED BY <1>2, <1>6, <1>12, <2>2, <2>3 DEF OnPages
<1>13. CASE d = more /\ c.kind # "circular"
  <2>1. \A x \in Nat : ~ (n - l < x /\ x <= n + k - (l + k))
    <3>1. n + k - (l + k) = n - l
      OBVIOUS
    <3> QED BY <3>1
  <2>2. w + (l + k) = w + l + k /\ w + (l + k) >= w + l + k
    OBVIOUS
  <2>3. d.buffer = s /\ d.window_start = w /\ d.total_added = m /\ d.kind = c.kind
    BY <1>2, <1>9, <1>13
  <2>4. \A x \in Nat : n - Len(c.buffer) < x /\ x <= n + Len(t) - Len(d.buffer) => x \in OnPages(d)
    BY <1>2, <1>4, <2>1, <2>3
  <2>5. /\ d.window_start + Len(d.buffer) >= c.window_start + Len(c.buffer) + Len(t)
        /\ d.window_start + Len(d.buffer) = c.window_start + Len(c.buffer) + Len(t)
    BY <1>2, <1>4, <2>2, <2>3
  <2> QED BY <1>2, <1>4, <1>6, <1>9, <1>11, <1>13, <2>3, <2>4, <2>5
<1>14. CASE d = Spill(more, j) /\ c.kind = "paged"
  <2>1. /\ d \in Buffer /\ d.kind = c.kind /\ d.total_added = m
        /\ OnPages(more) \subseteq OnPages(d)
        /\ d.window_start + Len(d.buffer) >= c.window_start + Len(s)
        /\ j \in {0, 1} => d.window_start + Len(d.buffer) = c.window_start + Len(s)
    BY <1>9, <1>14, SpillKeeps
  <2>2. PICK i \in 1..(Len(s) + 1) :
          d.buffer = SubSeq(s, i, Len(s)) /\ \A z \in 1..(i - 1) : s[z] \in OnPages(d)
    BY <1>9, <1>14, SpillKeeps
  <2>3. Window(d.buffer, N) /\ Len(d.buffer) = Len(s) - i + 1
    <3>1. Window(s, N)
      BY <1>4
    <3> QED BY <2>2, <3>1, WindowRest
  <2>4. ASSUME NEW x \in Nat, n - Len(c.buffer) < x, x <= n + Len(t) - Len(d.buffer) PROVE x \in OnPages(d)
    <3>1. N = n + k /\ Len(s) = l + k /\ Len(d.buffer) = l + k - i + 1
      BY <1>2, <1>4, <2>3
    <3>2. n - l < x /\ x <= n + k - (l + k - i + 1) /\ l <= n
      BY <1>2, <2>4, <3>1
    <3>3. i \in 1..(l + k + 1)
      BY <3>1
    <3>4. PICK z \in Nat : z = x - (n - l) /\ z \in 1..(i - 1) /\ z \in 1..(l + k)
      BY <3>2, <3>3
    <3>5. n + k - (l + k) + z = x
      BY <3>4
    <3>6. s[z] = N - Len(s) + z
      BY <1>4, <3>1, <3>4 DEF Window
    <3> QED BY <2>2, <3>1, <3>4, <3>5, <3>6
  <2>5. w + (l + k) = w + l + k
    OBVIOUS
  <2>6. c.window_start + Len(s) = c.window_start + Len(c.buffer) + Len(t)
    BY <1>2, <1>4, <2>5
  <2> QED BY <1>2, <1>6, <1>11, <1>14, <2>1, <2>3, <2>4, <2>6
<1>15. CASE d = Trim(more) /\ c.kind = "window"
  <2>1. /\ d \in Buffer /\ d.kind = c.kind /\ d.total_added = m /\ d.pages = more.pages
        /\ Window(d.buffer, N) /\ d.window_start + Len(d.buffer) = w + Len(s)
    BY <1>2, <1>4, <1>9, <1>15, TrimKeeps
  <2>2. w + (l + k) = w + l + k /\ w + (l + k) >= w + l + k
    OBVIOUS
  <2>3. /\ d.window_start + Len(d.buffer) >= c.window_start + Len(c.buffer) + Len(t)
        /\ d.window_start + Len(d.buffer) = c.window_start + Len(c.buffer) + Len(t)
    BY <1>2, <1>4, <2>1, <2>2
  <2>4. OnPages(d) = OnPages(c)
    BY <1>9, <2>1 DEF OnPages
  <2> QED BY <1>2, <1>6, <1>15, <2>1, <2>3, <2>4
<1>16. c.kind = "paged" => d = more \/ d = Spill(more, j)
  <2>1. c.kind = "paged" => d = IF more.total_added - more.window_start >= PageSize THEN Spill(more, j) ELSE more
    BY <1>10 DEF Added
  <2> QED BY <2>1
<1>17. c.kind = "window" => d = more \/ d = Trim(more)
  <2>1. c.kind = "window" => d = IF more.total_added - more.window_start >= PageSize THEN Trim(more) ELSE more
    BY <1>10 DEF Added
  <2> QED BY <2>1
<1>18. c.kind \in {"circular", "paged", "window"}
  BY <1>1 DEF BufferKinds
<1> QED BY <1>12, <1>13, <1>14, <1>15, <1>16, <1>17, <1>18

\* Starting the count again.
LEMMA CountChanged ==
  ASSUME NEW c \in Buffer, NEW d, d = [c EXCEPT !.total_added = 0]
  PROVE  d \in Buffer /\ d.kind = c.kind /\ d.pages = c.pages /\ d.buffer = c.buffer
BY DEF Buffer

\* get_all(clear=True).
LEMMA ClearedKeeps ==
  ASSUME NEW c \in Buffer, NEW d, d = Cleared(c)
  PROVE  /\ d \in Buffer /\ d.kind = c.kind /\ d.buffer = <<>> /\ d.pages = c.pages
         /\ c.kind # "circular" => d.total_added = c.total_added /\ d.window_start = c.total_added
<1>1. <<>> \in Seq(Nat) /\ c.total_added \in Nat /\ 0 \in Nat
  BY DEF Buffer
<1>2. PICK e : e = [c EXCEPT !.buffer = <<>>]
  OBVIOUS
<1>3. /\ e \in Buffer /\ e.kind = c.kind /\ e.total_added = c.total_added /\ e.pages = c.pages /\ e.buffer = <<>>
  BY <1>1, <1>2, BufferFields
<1>4. CASE c.kind = "circular"
  <2>1. d = [e EXCEPT !.total_added = 0]
    BY <1>2, <1>4 DEF Cleared
  <2>2. d \in Buffer /\ d.kind = e.kind /\ d.pages = e.pages /\ d.buffer = e.buffer
    BY <1>3, <2>1, CountChanged
  <2> QED BY <1>3, <1>4, <2>2
<1>5. CASE c.kind # "circular"
  <2>1. d = [e EXCEPT !.window_start = c.total_added]
    BY <1>2, <1>5 DEF Cleared
  <2> QED BY <1>1, <1>3, <2>1, BufferFields
<1> QED BY <1>4, <1>5

\* get_new_output: what it gives comes after the position if the start of the
\* window is right, and nothing of the buffer behind the position is missing.
LEMMA NewOutputGives ==
  ASSUME NEW c \in Buffer, NEW n \in Nat, Window(c.buffer, n), c.total_added = n,
         c.kind # "circular" => c.window_start + Len(c.buffer) >= n,
         NEW p \in Nat, p <= n, NEW r, r = NewOutput(c, p)
  PROVE  /\ Window(r, n)
         /\ \A x \in ToSet(c.buffer) : p < x => x \in ToSet(r)
         /\ c.kind # "circular" => (c.window_start + Len(c.buffer) = n => p + Len(r) <= n)
         /\ c.kind = "circular" => p + Len(r) <= n
<1>1. /\ c.kind \in BufferKinds /\ c.buffer \in Seq(Nat) /\ Len(c.buffer) \in Nat /\ Len(c.buffer) <= n
      /\ c.window_start \in Nat
  BY DEF Buffer, Window
<1>2. ToSet(c.buffer) = (n - Len(c.buffer) + 1)..n
  BY WindowSet
<1>3. CASE p >= n
  <2>1. r = <<>> /\ Len(r) = 0
    <3>1. c.total_added = n
      OBVIOUS
    <3>2. r = <<>>
      BY <1>3, <3>1 DEF NewOutput
    <3> QED BY <3>2
  <2>2. Window(r, n)
    BY <2>1, WindowNone
  <2>3. \A x \in (n - Len(c.buffer) + 1)..n : ~ p < x
    BY <1>1, <1>3
  <2>4. p + 0 <= n
    OBVIOUS
  <2> QED BY <1>2, <2>1, <2>2, <2>3, <2>4
<1>4. CASE p < n /\ c.kind = "circular"
  <2>1. r = Newest(c.buffer, n - p) /\ n - p \in Nat
    BY <1>4 DEF NewOutput
  <2>2. Window(r, n) /\ Len(r) = IF Len(c.buffer) > n - p THEN n - p ELSE Len(c.buffer)
    BY <2>1, WindowNewest
  <2>3. ToSet(r) = (n - Len(r) + 1)..n
    BY <2>2, WindowSet
  <2>4. \A x \in (n - Len(c.buffer) + 1)..n : p < x => x \in (n - Len(r) + 1)..n
    BY <1>1, <2>2
  <2>5. p + Len(r) <= n
    BY <1>1, <1>4, <2>2
  <2> QED BY <1>2, <1>4, <2>2, <2>3, <2>4, <2>5
<1>5. CASE p < n /\ c.kind # "circular"
  <2>1. PICK start \in Nat : start = IF p > c.window_start THEN p ELSE c.window_start
    BY <1>1
  <2>2. PICK i \in Nat : i = start - c.window_start + 1
    BY <1>1, <2>1
  <2>3. r = SubSeq(c.buffer, i, Len(c.buffer))
    BY <1>5, <2>1, <2>2 DEF NewOutput
  <2>4. i \in 1..(Len(c.buffer) + 1)
    BY <1>1, <1>5, <2>1, <2>2
  <2>5. Window(r, n) /\ Len(r) = Len(c.buffer) - i + 1
    BY <2>3, <2>4, WindowRest
  <2>6. ToSet(r) = (n - Len(r) + 1)..n
    BY <2>5, WindowSet
  <2>7. PICK l \in Nat, w \in Nat, k \in Nat :
          l = Len(c.buffer) /\ w = c.window_start /\ k = Len(r) /\ k = l - i + 1 /\ w + l >= n
          /\ (i = 1 \/ i = p - w + 1) /\ i >= 1 /\ i <= l + 1 /\ i >= p - w + 1
    <3>1. Len(r) \in Nat /\ Len(r) = Len(c.buffer) - i + 1
      BY <2>5 DEF Window
    <3>2. c.window_start + Len(c.buffer) >= n
      BY <1>5
    <3>3. (i = 1 \/ i = p - c.window_start + 1) /\ i >= p - c.window_start + 1
      BY <1>1, <2>1, <2>2
    <3> QED BY <1>1, <2>4, <3>1, <3>2, <3>3
  <2>8. \A x \in (n - l + 1)..n : p < x => x \in (n - k + 1)..n
    <3>1. SUFFICES ASSUME NEW x \in (n - l + 1)..n, p < x PROVE n - k + 1 <= x
      BY <2>7
    <3>2. /\ l \in Nat /\ w \in Nat /\ k \in Nat /\ i \in Nat /\ n \in Nat /\ p \in Nat /\ x \in Int
          /\ k = l - i + 1 /\ w + l >= n /\ n - l + 1 <= x
      BY <2>7, <3>1
    <3>3. CASE i = 1
      BY <3>2, <3>3
    <3>4. CASE i = p - w + 1
      <4>1. k = l + w - p
        BY <3>2, <3>4
      <4>2. n - k + 1 <= p + 1
        BY <3>2, <4>1
      <4> QED BY <3>1, <3>2, <4>2
    <3> QED BY <2>7, <3>3, <3>4
  <2>9. w + l = n => p + k <= n
    BY <2>7
  <2> QED BY <1>2, <1>5, <2>5, <2>6, <2>7, <2>8, <2>9
<1> QED BY <1>3, <1>4, <1>5

-----------------------------------------------------------------------------
(* The invariant.                                                          *)

OutputTypes ==
  /\ output \in 0..MaxOutput /\ taken \in 0..output
  /\ reader \in {"checking", "blocked", "appending", "ended"}
  /\ chunk \in Seq(1..MaxOutput)
  /\ b \in Buffer
  /\ last_read_position \in 0..MaxOutput
  /\ told \in Seq(1..MaxOutput)
  /\ handed \subseteq 1..MaxOutput /\ forgotten \subseteq 1..MaxOutput
  /\ (reader = "appending" <=> chunk # <<>>)

InputTypes ==
  /\ data_ready \in BOOLEAN /\ closed \in BOOLEAN
  /\ queue \in Seq(1..MaxInputs) /\ text \in Seq(1..MaxInputs) /\ written \in Seq(1..MaxInputs)
  /\ writer \in {"checking", "waiting", "woken", "writing", "ended"}
  /\ sent \in 0..MaxInputs
  /\ (writer = "ended" <=> closed)

LoopTypes ==
  /\ pty \in BOOLEAN /\ turn \in {"waiting", "over"}
  /\ process \in {"running", "terminated", "exited"}
  /\ stop_event \in BOOLEAN
  /\ tracked \in BOOLEAN /\ running \in BOOLEAN
  /\ loop \in {"free", "sending", "listed", "read", "reported", "stopping", "discarding"}

\* What the reader has in hand, and what the buffer has in memory, is the end
\* of the stream so far; total_added counts it, and window_start is where the
\* memory begins, or ahead of it once a page behind the first has failed.
Stream ==
  /\ Received \in Nat /\ Continues(chunk, Received) /\ Window(b.buffer, Received)
  /\ tracked \/ b.kind # "circular" => b.total_added = Received
  /\ b.kind # "circular" =>
       /\ b.window_start + Len(b.buffer) >= Received
       /\ DiskFaults \subseteq {0, 1} => b.window_start + Len(b.buffer) = Received

\* Calls in progress are about a command that is known, and the buffer a turn
\* waits with is not a circular one.
Calls == (loop # "free" => tracked) /\ (turn = "waiting" => b.kind # "circular")

\* What was told, up to the read position.
Telling ==
  /\ tracked => last_read_position <= Received
  /\ \A i \in DOMAIN told : told[i] <= last_read_position
  /\ DiskFaults \subseteq {0, 1} => \A i, j \in DOMAIN told : i < j => told[i] < told[j]
  /\ tracked => 1..last_read_position \subseteq ToSet(told) \cup OnPages(b) \cup handed \cup forgotten

CommandInv == OutputTypes /\ InputTypes /\ LoopTypes /\ Stream /\ Calls /\ NothingUnaccounted /\ Telling

-----------------------------------------------------------------------------
(* The steps.                                                              *)

\* The type invariant is its three parts.
LEMMA TypeParts == CommandTypeOK <=> OutputTypes /\ InputTypes /\ LoopTypes
BY DEF CommandTypeOK, OutputTypes, InputTypes, LoopTypes

\* Sizes.
LEMMA Sizes ==
  ASSUME CommandInv
  PROVE  /\ MaxOutput \in Nat /\ MaxInputs \in Nat /\ output \in Nat /\ taken \in Nat /\ taken <= output /\ output <= MaxOutput
         /\ Len(chunk) \in Nat /\ Received = taken - Len(chunk) /\ Received <= MaxOutput /\ Received \in Nat
BY CommandAssumption DEF CommandInv, OutputTypes, Stream, Received

\* What is in memory when the buffer is accounted for.
LEMMA InMemory ==
  ASSUME CommandInv
  PROVE  /\ ToSet(b.buffer) = (Received - Len(b.buffer) + 1)..Received
         /\ ToSet(b.buffer) \subseteq 1..MaxOutput
<1>1. Received \in Nat /\ Received <= MaxOutput /\ MaxOutput \in Nat
  BY Sizes
<1>2. Window(b.buffer, Received)
  BY DEF CommandInv, Stream
<1>3. Len(b.buffer) \in Nat /\ Len(b.buffer) <= Received
  BY <1>2 DEF Window
<1>4. ToSet(b.buffer) = (Received - Len(b.buffer) + 1)..Received
  BY <1>1, <1>2, WindowSet
<1>5. \A x \in (Received - Len(b.buffer) + 1)..Received : x \in 1..MaxOutput
  BY <1>1, <1>3
<1> QED BY <1>4, <1>5

\* Steps of the process, of the input and of the loop that leave the stream alone.
LEMMA QuietStream ==
  ASSUME CommandInv, UNCHANGED <<taken, chunk, b, last_read_position, told, handed, forgotten>>,
         tracked' = tracked, loop' # "free" => tracked, turn' = turn \/ turn' = "over"
  PROVE  (Stream /\ Calls /\ NothingUnaccounted /\ Telling)'
<1>1. Received' = Received
  BY DEF Received
<1>2. Stream'
  BY <1>1 DEF CommandInv, Stream
<1>3. Calls'
  BY DEF CommandInv, Calls
<1>4. NothingUnaccounted'
  BY <1>1 DEF CommandInv, NothingUnaccounted
<1>5. Telling'
  BY <1>1 DEF CommandInv, Telling
<1> QED BY <1>2, <1>3, <1>4, <1>5

\* The process writes or ends.
LEMMA ProcessStep ==
  ASSUME CommandInv, Emit \/ Exit
  PROVE  CommandInv'
<1>1. UNCHANGED <<taken, chunk, b, last_read_position, told, handed, forgotten, tracked, loop, turn>>
      /\ UNCHANGED inputVars
  BY DEF Emit, Exit, outputVars
<1>2. (Stream /\ Calls /\ NothingUnaccounted /\ Telling)'
  BY <1>1, QuietStream DEF CommandInv, Calls
<1>3. InputTypes'
  BY <1>1 DEF CommandInv, InputTypes, inputVars
<1>4. LoopTypes'
  BY DEF CommandInv, LoopTypes, Emit, Exit
<1>5. output' \in 0..MaxOutput /\ output <= output'
  BY Sizes DEF Emit, Exit, outputVars
<1>6. taken' \in 0..output' /\ UNCHANGED reader
  BY <1>1, <1>5, Sizes DEF Emit, Exit, outputVars
<1>7. OutputTypes'
  BY <1>1, <1>5, <1>6 DEF CommandInv, OutputTypes
<1> QED BY <1>2, <1>3, <1>4, <1>7 DEF CommandInv

\* The reader looks at the stop event, or ends.
LEMMA ReaderQuiet ==
  ASSUME CommandInv, ReaderChecks \/ ReaderEnds
  PROVE  CommandInv'
<1>1. UNCHANGED <<readerRest, taken, chunk, b, forgotten>>
  BY DEF ReaderChecks, ReaderEnds
<1>2. (Stream /\ Calls /\ NothingUnaccounted /\ Telling)'
  BY <1>1, QuietStream DEF CommandInv, Calls, readerRest
<1>3. InputTypes' /\ LoopTypes'
  BY <1>1 DEF CommandInv, InputTypes, LoopTypes, readerRest, inputVars
<1>4. OutputTypes'
  BY <1>1 DEF CommandInv, OutputTypes, readerRest, ReaderChecks, ReaderEnds
<1> QED BY <1>2, <1>3, <1>4 DEF CommandInv

\* The reader takes what there is.
LEMMA ReadStep ==
  ASSUME CommandInv, NEW n \in 1..MaxChunk, Read(n)
  PROVE  CommandInv'
<1>1. /\ UNCHANGED <<readerRest, b, forgotten>> /\ reader = "blocked" /\ reader' = "appending"
      /\ chunk' = [i \in 1..n |-> taken + i] /\ taken' = taken + n /\ taken + n <= output /\ n \in Nat
  BY CommandAssumption DEF Read
<1>2. chunk = <<>> /\ Len(chunk) = 0
  BY <1>1 DEF CommandInv, OutputTypes
<1>3. \A i \in 1..n : taken + i \in 1..MaxOutput /\ taken + i \in Nat
  BY <1>1, Sizes
<1>4. chunk' \in Seq(1..MaxOutput) /\ chunk' \in Seq(Nat) /\ Len(chunk') = n /\ \A i \in 1..n : chunk'[i] = taken + i
  BY <1>1, <1>3
<1>5. n # 0
  BY <1>1
<1>6. chunk' # <<>>
  BY <1>4, <1>5
<1>7. Received = taken /\ Received' = taken
  BY <1>1, <1>2, <1>4, Sizes DEF Received
<1>8. Continues(chunk', Received')
  BY <1>4, <1>7 DEF Continues
<1>9. UNCHANGED <<last_read_position, told, handed, tracked, loop, turn>>
  BY <1>1 DEF readerRest
<1>10. Stream'
  BY <1>1, <1>7, <1>8, <1>9 DEF CommandInv, Stream
<1>11. Calls' /\ NothingUnaccounted' /\ Telling'
  BY <1>1, <1>7, <1>9 DEF CommandInv, Calls, NothingUnaccounted, Telling
<1>12. InputTypes' /\ LoopTypes'
  BY <1>1 DEF CommandInv, InputTypes, LoopTypes, readerRest, inputVars
<1>13. taken' \in 0..output' /\ output' = output
  BY <1>1, Sizes DEF readerRest
<1>14. OutputTypes'
  BY <1>1, <1>4, <1>6, <1>9, <1>13 DEF CommandInv, OutputTypes
<1> QED BY <1>10, <1>11, <1>12, <1>14 DEF CommandInv

\* ... and appends it.  What falls out of a bounded buffer is forgotten, what
\* falls out of a paged one is on disk.
LEMMA AppendStep ==
  ASSUME CommandInv, NEW j \in DiskFaults, AppendChunk(j)
  PROVE  CommandInv'
<1>1. /\ UNCHANGED <<readerRest, taken>> /\ reader = "appending" /\ reader' \in {"checking", "ended"}
      /\ chunk' = <<>> /\ b' = Added(b, chunk, j)
      /\ forgotten' = IF b.kind = "paged" THEN forgotten
                      ELSE forgotten \cup ((ToSet(b.buffer) \cup ToSet(chunk)) \ ToSet(b'.buffer))
  BY DEF AppendChunk
<1>2. PICK n \in Nat, k \in Nat : n = Received /\ k = Len(chunk) /\ taken = n + k /\ n + k <= MaxOutput /\ MaxOutput \in Nat
  BY Sizes
<1>3. Received' = n + k
  BY <1>1, <1>2 DEF Received
<1>4. Continues(chunk, n) /\ Window(b.buffer, n) /\ b \in Buffer
  BY <1>2 DEF CommandInv, Stream, OutputTypes
<1>5. j \in Nat
  BY CommandAssumption
<1>6. /\ b' \in Buffer /\ b'.kind = b.kind /\ b'.total_added = b.total_added + k
      /\ Window(b'.buffer, n + k) /\ OnPages(b) \subseteq OnPages(b')
      /\ b.kind = "paged" => \A x \in Nat : n - Len(b.buffer) < x /\ x <= n + k - Len(b'.buffer) => x \in OnPages(b')
      /\ b.kind # "circular" =>
           /\ b'.window_start + Len(b'.buffer) >= b.window_start + Len(b.buffer) + k
           /\ j \in {0, 1} => b'.window_start + Len(b'.buffer) = b.window_start + Len(b.buffer) + k
  <2>1. PICK c \in Buffer, t \in {chunk}, d \in {b'} : c = b /\ t = chunk /\ d = b'
    BY <1>4
  <2>2. Window(c.buffer, n) /\ Continues(t, n) /\ d = Added(c, t, j) /\ Len(t) = k
    BY <1>1, <1>2, <1>4, <2>1
  <2>3. /\ d \in Buffer /\ d.kind = c.kind /\ d.total_added = c.total_added + Len(t)
        /\ Window(d.buffer, n + Len(t)) /\ OnPages(c) \subseteq OnPages(d)
        /\ c.kind = "paged" =>
              \A x \in Nat : n - Len(c.buffer) < x /\ x <= n + Len(t) - Len(d.buffer) => x \in OnPages(d)
        /\ c.kind # "circular" =>
              /\ d.window_start + Len(d.buffer) >= c.window_start + Len(c.buffer) + Len(t)
              /\ j \in {0, 1} => d.window_start + Len(d.buffer) = c.window_start + Len(c.buffer) + Len(t)
    BY <1>5, <2>2, AddedKeeps
  <2> QED BY <2>1, <2>2, <2>3
<1>7. UNCHANGED <<output, last_read_position, told, handed, tracked, loop, turn>>
  BY <1>1 DEF readerRest
<1>8. PICK l \in Nat, m \in Nat :
        /\ l = Len(b.buffer) /\ m = Len(b'.buffer) /\ l <= n /\ m <= n + k
        /\ ToSet(b.buffer) = (n - l + 1)..n /\ ToSet(b'.buffer) = (n + k - m + 1)..(n + k)
  <2>1. Len(b.buffer) \in Nat /\ Len(b.buffer) <= n /\ Len(b'.buffer) \in Nat /\ Len(b'.buffer) <= n + k
    BY <1>4, <1>6 DEF Window
  <2>2. PICK q \in Nat : q = n + k
    OBVIOUS
  <2>3. ToSet(b.buffer) = (n - Len(b.buffer) + 1)..n /\ ToSet(b'.buffer) = (q - Len(b'.buffer) + 1)..q
    BY <1>4, <1>6, <2>2, WindowSet
  <2>4. ToSet(b'.buffer) = (n + k - Len(b'.buffer) + 1)..(n + k)
    BY <2>2, <2>3
  <2> QED BY <2>1, <2>3, <2>4
<1>9. ASSUME NEW x \in (n + 1)..(n + k) PROVE x \in ToSet(chunk)
  <2>1. x - n \in 1..k /\ n + (x - n) = x
    OBVIOUS
  <2>2. chunk \in Seq(Nat) /\ DOMAIN chunk = 1..k /\ chunk[x - n] = n + (x - n)
    BY <1>2, <1>4, <2>1 DEF Continues
  <2> QED BY <2>1, <2>2 DEF ToSet
<1>10. \A x \in ToSet(chunk) : x \in 1..MaxOutput
  <2>1. chunk \in Seq(1..MaxOutput)
    BY DEF CommandInv, OutputTypes
  <2> QED BY <2>1, MembersOf
<1>11. ToSet(b.buffer) \subseteq 1..MaxOutput
  BY InMemory
<1>12. forgotten \subseteq forgotten'
  BY <1>1
<1>13. Stream'
  <2>1. chunk' = <<>> /\ Continues(<<>>, n + k)
    BY <1>1 DEF Continues
  <2>2. tracked' \/ b'.kind # "circular" => b'.total_added = n + k
    BY <1>2, <1>6, <1>7 DEF CommandInv, Stream
  <2>3. ASSUME b.kind # "circular"
        PROVE  /\ b'.window_start + Len(b'.buffer) >= n + k
               /\ DiskFaults \subseteq {0, 1} => b'.window_start + Len(b'.buffer) = n + k
    <3>1. PICK w \in Nat, y \in Nat, v \in Nat, z \in Nat :
            w = b.window_start /\ y = Len(b.buffer) /\ v = b'.window_start /\ z = Len(b'.buffer)
      BY <1>4, <1>6, <1>8 DEF Buffer
    <3>2. w + y >= n /\ (DiskFaults \subseteq {0, 1} => w + y = n)
      BY <1>2, <2>3, <3>1 DEF CommandInv, Stream
    <3>3. v + z >= w + y + k /\ (j \in {0, 1} => v + z = w + y + k)
      BY <1>6, <2>3, <3>1
    <3>4. v + z >= n + k /\ (DiskFaults \subseteq {0, 1} => v + z = n + k)
      BY <3>2, <3>3
    <3> QED BY <3>1, <3>4
  <2>4. n + k \in Nat
    OBVIOUS
  <2> QED BY <1>3, <1>6, <2>1, <2>2, <2>3, <2>4 DEF Stream
<1>14. ASSUME tracked, NEW x \in 1..(n + k)
       PROVE  x \in ToSet(b'.buffer) \cup OnPages(b') \cup handed \cup forgotten'
  <2>1. CASE x > n + k - m
    <3>1. x \in (n + k - m + 1)..(n + k)
      BY <1>8, <2>1
    <3> QED BY <1>8, <3>1
  <2>2. CASE x <= n + k - m
    <3>1. x \notin ToSet(b'.buffer)
      BY <1>8, <2>2
    <3>2. CASE x \in ToSet(b.buffer) \cup ToSet(chunk)
      <4>1. n - l < x
        <5>1. CASE x <= n
          <6>1. x \in ToSet(b.buffer) => n - l < x
            BY <1>8
          <6>2. \A i \in 1..Len(chunk) : chunk[i] = n + i
            BY <1>4 DEF Continues
          <6>3. x \notin ToSet(chunk)
            BY <1>2, <1>4, <5>1, <6>2 DEF ToSet, Continues
          <6> QED BY <3>2, <6>1, <6>3
        <5>2. CASE x > n
          BY <1>8, <5>2
        <5> QED BY <5>1, <5>2
      <4>2. CASE b.kind = "paged"
        BY <1>6, <1>8, <2>2, <4>1, <4>2
      <4>3. CASE b.kind # "paged"
        BY <1>1, <3>1, <3>2, <4>3
      <4> QED BY <4>2, <4>3
    <3>3. CASE x \notin ToSet(b.buffer) \cup ToSet(chunk)
      <4>1. x \in 1..n
        BY <1>9, <3>3
      <4>2. x \in ToSet(b.buffer) \cup OnPages(b) \cup handed \cup forgotten
        BY <1>2, <1>14, <4>1 DEF CommandInv, NothingUnaccounted
      <4> QED BY <1>6, <1>12, <3>3, <4>2
    <3> QED BY <3>2, <3>3
  <2> QED BY <2>1, <2>2
<1>15. NothingUnaccounted'
  BY <1>3, <1>7, <1>14 DEF NothingUnaccounted
<1>16. Telling'
  <2>1. tracked => last_read_position <= n + k
    <3>1. tracked => last_read_position <= n /\ last_read_position \in Nat
      BY <1>2, CommandAssumption DEF CommandInv, Telling, OutputTypes
    <3> QED BY <3>1
  <2> QED BY <1>3, <1>6, <1>7, <1>12, <2>1 DEF CommandInv, Telling
<1>17. Calls'
  BY <1>6, <1>7 DEF CommandInv, Calls
<1>18. InputTypes' /\ LoopTypes'
  BY <1>1 DEF CommandInv, InputTypes, LoopTypes, readerRest, inputVars
<1>19. forgotten' \subseteq 1..MaxOutput
  BY <1>1, <1>10, <1>11 DEF CommandInv, OutputTypes
<1>20. OutputTypes'
  BY <1>1, <1>6, <1>7, <1>19 DEF CommandInv, OutputTypes
<1> QED BY <1>13, <1>15, <1>16, <1>17, <1>18, <1>20 DEF CommandInv

\* The writer, the inputs, and calls that neither read nor clear.
LEMMA WriterStep ==
  ASSUME CommandInv, WriterChecks \/ WriterTimesOut \/ WriterWakes \/ PopAll \/ WriteText
  PROVE  CommandInv'
<1>0. InputTypes
  BY DEF CommandInv
<1>1. UNCHANGED writerRest
  BY DEF WriterChecks, WriterTimesOut, WriterWakes, PopAll, WriteText
<1>2. (Stream /\ Calls /\ NothingUnaccounted /\ Telling)'
  BY <1>1, QuietStream DEF CommandInv, Calls, writerRest, outputVars
<1>3. OutputTypes' /\ LoopTypes'
  BY <1>1 DEF CommandInv, OutputTypes, LoopTypes, writerRest, outputVars
<1>4. /\ data_ready' \in BOOLEAN /\ closed' \in BOOLEAN /\ (writer' = "ended" <=> closed')
      /\ writer' \in {"checking", "waiting", "woken", "writing", "ended"}
  <2>1. CASE WriterChecks
    BY <1>0, <2>1 DEF InputTypes, WriterChecks
  <2>2. CASE WriterTimesOut
    BY <1>0, <2>2 DEF InputTypes, WriterTimesOut
  <2>5. CASE PopAll
    BY <1>0, <2>5 DEF InputTypes, PopAll
  <2>3. CASE WriterWakes
    BY <1>0, <2>3 DEF InputTypes, WriterWakes
  <2>4. CASE WriteText
    BY <1>0, <2>4 DEF InputTypes, WriteText
  <2> QED BY <2>1, <2>2, <2>3, <2>4, <2>5
<1>5. queue' \in Seq(1..MaxInputs) /\ text' \in Seq(1..MaxInputs)
  <2>1. <<>> \in Seq(1..MaxInputs) /\ queue \in Seq(1..MaxInputs) /\ text \in Seq(1..MaxInputs)
    BY <1>0 DEF InputTypes
  <2>2. queue' \in {queue, <<>>} /\ text' \in {text, queue, <<>>}
    BY DEF WriterChecks, WriterTimesOut, WriterWakes, PopAll, WriteText
  <2> QED BY <2>1, <2>2
<1>6. written' \in Seq(1..MaxInputs)
  <2>1. written \o text \in Seq(1..MaxInputs) /\ written \in Seq(1..MaxInputs)
    BY Concat DEF CommandInv, InputTypes
  <2> QED BY <2>1 DEF WriterChecks, WriterTimesOut, WriterWakes, PopAll, WriteText
<1>7. InputTypes'
  BY <1>1, <1>4, <1>5, <1>6 DEF CommandInv, InputTypes, writerRest
<1> QED BY <1>2, <1>3, <1>7 DEF CommandInv

\* send_input.
LEMMA SendStep ==
  ASSUME CommandInv, Send \/ SetReady
  PROVE  CommandInv'
<1>1. UNCHANGED <<pty, turn, process, outputVars, stop_event, writer, text, closed, written, tracked, running>>
  BY DEF Send, SetReady
<1>2. loop' \in {"free", "sending"} /\ (loop' # "free" => tracked)
  BY DEF Send, SetReady
<1>3. (Stream /\ Calls /\ NothingUnaccounted /\ Telling)'
  BY <1>1, <1>2, QuietStream DEF outputVars
<1>4. OutputTypes' /\ LoopTypes'
  BY <1>1, <1>2 DEF CommandInv, OutputTypes, LoopTypes, outputVars
<1>5. CASE Send
  <2>1. sent' = sent + 1 /\ sent' \in 0..MaxInputs /\ sent + 1 \in 1..MaxInputs
    BY <1>5, Sizes DEF Send, CommandInv, InputTypes
  <2>2. queue' \in Seq(1..MaxInputs)
    <3>1. queue' = Append(queue, sent + 1) /\ queue \in Seq(1..MaxInputs)
      BY <1>5 DEF Send, CommandInv, InputTypes
    <3>2. PICK S, e : S = 1..MaxInputs /\ e = sent + 1
      OBVIOUS
    <3>3. queue' = Append(queue, e) /\ queue \in Seq(S) /\ e \in S
      BY <2>1, <3>1, <3>2
    <3>4. queue' \in Seq(S)
      BY <3>3
    <3> QED BY <3>2, <3>4
  <2>3. InputTypes'
    BY <1>1, <1>5, <2>1, <2>2 DEF CommandInv, InputTypes, Send
  <2> QED BY <1>3, <1>4, <2>3 DEF CommandInv
<1>6. CASE SetReady
  <2>1. InputTypes'
    BY <1>6 DEF CommandInv, InputTypes, SetReady
  <2> QED BY <1>3, <1>4, <2>1 DEF CommandInv
<1> QED BY <1>5, <1>6

\* Listing and stopping.
LEMMA StopStep ==
  ASSUME CommandInv, ListCommands \/ StopFinished \/ Stop \/ StopCompleted
  PROVE  CommandInv'
<1>1. /\ UNCHANGED <<turn, outputVars, queue, writer, text, closed, sent, written, tracked, pty>>
      /\ loop' \in {"listed", "stopping", "discarding"} /\ tracked
  BY DEF ListCommands, StopFinished, Stop, StopCompleted, StopBegins, inputVars, CommandInv, Calls
<1>2. (Stream /\ Calls /\ NothingUnaccounted /\ Telling)'
  BY <1>1, QuietStream DEF outputVars
<1>3. OutputTypes'
  BY <1>1 DEF CommandInv, OutputTypes, outputVars
<1>4. data_ready' \in BOOLEAN
  BY DEF ListCommands, StopFinished, Stop, StopCompleted, StopBegins, inputVars, CommandInv, InputTypes
<1>5. InputTypes'
  BY <1>1, <1>4 DEF CommandInv, InputTypes
<1>6. /\ process' \in {"running", "terminated", "exited"} /\ stop_event' \in BOOLEAN /\ running' \in BOOLEAN
  BY DEF ListCommands, StopFinished, Stop, StopCompleted, StopBegins, inputVars, CommandInv, LoopTypes, Alive
<1>7. LoopTypes'
  BY <1>1, <1>6 DEF CommandInv, LoopTypes
<1> QED BY <1>2, <1>3, <1>5, <1>7 DEF CommandInv

\* Sequences that grow at the end.
LEMMA GrowsInOrder ==
  ASSUME NEW s \in Seq(Nat), NEW r \in Seq(Nat), NEW p \in Nat,
         \A i \in DOMAIN s : s[i] <= p, \A i \in DOMAIN r : p < r[i],
         \A i, j \in DOMAIN s : i < j => s[i] < s[j], \A i, j \in DOMAIN r : i < j => r[i] < r[j]
  PROVE  \A i, j \in DOMAIN (s \o r) : i < j => (s \o r)[i] < (s \o r)[j]
<1>1. PICK q : q = s \o r
  OBVIOUS
<1>2. PICK l \in Nat, k \in Nat : l = Len(s) /\ k = Len(r) /\ DOMAIN s = 1..l /\ DOMAIN r = 1..k
  OBVIOUS
<1>3. /\ DOMAIN q = 1..(l + k) /\ \A i \in 1..l : q[i] = s[i]
      /\ \A i \in (l + 1)..(l + k) : q[i] = r[i - l]
  BY <1>1, <1>2, Concat
<1>4. SUFFICES ASSUME NEW i \in 1..(l + k), NEW j \in 1..(l + k), i < j PROVE q[i] < q[j]
  BY <1>1, <1>3
<1>5. CASE j <= l
  <2>1. i \in 1..l /\ j \in 1..l
    BY <1>4, <1>5
  <2> QED BY <1>2, <1>3, <1>4, <2>1
<1>6. CASE i <= l /\ l < j
  <2>1. i \in 1..l /\ j \in (l + 1)..(l + k) /\ j - l \in 1..k
    BY <1>4, <1>6
  <2>2. s[i] <= p /\ s[i] \in Nat
    <3>1. i \in DOMAIN s
      BY <1>2, <2>1
    <3> QED BY <3>1
  <2>4. p < r[j - l] /\ r[j - l] \in Nat
    <3>1. j - l \in DOMAIN r
      BY <1>2, <2>1
    <3> QED BY <3>1
  <2>3. s[i] < r[j - l]
    BY <2>2, <2>4
  <2> QED BY <1>3, <2>1, <2>3
<1>7. CASE l < i
  <2>1. i \in (l + 1)..(l + k) /\ j \in (l + 1)..(l + k) /\ i - l \in 1..k /\ j - l \in 1..k /\ i - l < j - l
    BY <1>4, <1>7
  <2> QED BY <1>2, <1>3, <2>1
<1>8. i \in Nat /\ j \in Nat
  OBVIOUS
<1> QED BY <1>4, <1>5, <1>6, <1>7, <1>8

\* An incremental read.
LEMMA TellStep ==
  ASSUME CommandInv, tracked, TellNew, UNCHANGED <<pty, turn, process, stop_event, inputVars, tracked, running>>,
         loop' \in {"free", "read"}
  PROVE  CommandInv'
<1>1. PICK n \in Nat, p \in Nat : n = Received /\ p = last_read_position /\ p <= n /\ n <= MaxOutput /\ MaxOutput \in Nat
  BY Sizes DEF CommandInv, OutputTypes, Telling
<1>2. PICK r : r = NewOutput(b, p)
  OBVIOUS
<1>3. /\ told' = told \o r /\ last_read_position' = b.total_added /\ b.total_added = n
      /\ UNCHANGED <<output, taken, reader, chunk, b, handed, forgotten>>
  BY <1>1, <1>2 DEF TellNew, CommandInv, Stream
<1>4. Window(b.buffer, n) /\ b \in Buffer /\ (b.kind # "circular" => b.window_start + Len(b.buffer) >= n)
  BY <1>1 DEF CommandInv, Stream, OutputTypes
<1>5. /\ Window(r, n)
      /\ \A x \in ToSet(b.buffer) : p < x => x \in ToSet(r)
      /\ b.kind # "circular" => (b.window_start + Len(b.buffer) = n => p + Len(r) <= n)
      /\ b.kind = "circular" => p + Len(r) <= n
  BY <1>1, <1>2, <1>3, <1>4, NewOutputGives
<1>6. PICK m \in Nat : m = Len(r) /\ m <= n /\ DOMAIN r = 1..m /\ r \in Seq(Nat) /\ \A i \in 1..m : r[i] = n - m + i
  BY <1>5 DEF Window
<1>7. Received' = n
  BY <1>1, <1>3 DEF Received
<1>8. \A i \in 1..m : r[i] \in 1..MaxOutput /\ r[i] <= n
  BY <1>1, <1>6
<1>9. r \in Seq(1..MaxOutput)
  <2>1. PICK S : S = 1..MaxOutput
    OBVIOUS
  <2>2. \A i \in DOMAIN r : r[i] \in S
    BY <1>6, <1>8, <2>1
  <2>3. r \in Seq(S)
    BY <1>6, <2>2
  <2> QED BY <2>1, <2>3
<1>10. told \in Seq(1..MaxOutput) /\ told \in Seq(Nat)
  <2>1. told \in Seq(1..MaxOutput)
    BY DEF CommandInv, OutputTypes
  <2>2. 1..MaxOutput \subseteq Nat
    BY <1>1
  <2> QED BY <2>1, <2>2, WiderSeq
<1>11. told' \in Seq(1..MaxOutput)
  <2>1. PICK S : S = 1..MaxOutput
    OBVIOUS
  <2>2. told \o r \in Seq(S)
    BY <1>9, <1>10, <2>1, Concat
  <2> QED BY <1>3, <2>1, <2>2
<1>12. PICK l \in Nat : /\ l = Len(told) /\ DOMAIN told = 1..l /\ DOMAIN told' = 1..(l + m)
                        /\ \A i \in 1..l : told'[i] = told[i]
                        /\ \A i \in (l + 1)..(l + m) : told'[i] = r[i - l]
  <2>0. PICK q : q = told \o r
    OBVIOUS
  <2>1. PICK s \in Seq(Nat), l \in Nat : s = told /\ q = s \o r /\ l = Len(s)
    BY <1>10, <2>0
  <2>2. /\ DOMAIN s = 1..l /\ DOMAIN q = 1..(l + m)
        /\ \A i \in 1..l : q[i] = s[i]
        /\ \A i \in (l + 1)..(l + m) : q[i] = r[i - l]
    BY <1>6, <2>1, Concat
  <2>3. q = told'
    BY <1>3, <2>0
  <2>4. l = Len(told) /\ DOMAIN told = 1..l
    BY <2>1, <2>2
  <2>5. DOMAIN told' = 1..(l + m)
    BY <2>2, <2>3
  <2>6. \A i \in 1..l : told'[i] = told[i]
    BY <2>1, <2>2, <2>3
  <2>7. \A i \in (l + 1)..(l + m) : told'[i] = r[i - l]
    BY <2>2, <2>3
  <2> QED BY <2>1, <2>4, <2>5, <2>6, <2>7
<1>13. \A i \in DOMAIN told : told[i] <= p
  BY <1>1 DEF CommandInv, Telling
<1>14. ASSUME NEW i \in DOMAIN told' PROVE told'[i] <= n
  <2>1. CASE i <= l
    <3>1. i \in 1..l /\ told'[i] = told[i] /\ told[i] <= p /\ told[i] \in Nat
      BY <1>10, <1>12, <1>13, <2>1
    <3> QED BY <1>1, <3>1
  <2>2. CASE i > l
    <3>1. i \in (l + 1)..(l + m) /\ i - l \in 1..m
      BY <1>12, <2>2
    <3> QED BY <1>8, <1>12, <3>1
  <2> QED BY <1>12, <2>1, <2>2
<1>15. ASSUME DiskFaults \subseteq {0, 1} PROVE \A i, j \in DOMAIN told' : i < j => told'[i] < told'[j]
  <2>1. p + m <= n
    <3>1. b.kind # "circular" => b.window_start + Len(b.buffer) = n
      BY <1>1, <1>15 DEF CommandInv, Stream
    <3> QED BY <1>5, <1>6, <3>1
  <2>2. \A i \in DOMAIN r : p < r[i]
    BY <1>6, <2>1
  <2>3. \A i, j \in DOMAIN r : i < j => r[i] < r[j]
    BY <1>6
  <2>4. \A i, j \in DOMAIN told : i < j => told[i] < told[j]
    BY <1>15 DEF CommandInv, Telling
  <2>5. PICK s \in Seq(Nat) : s = told
    BY <1>10
  <2>6. \A i, j \in DOMAIN (s \o r) : i < j => (s \o r)[i] < (s \o r)[j]
    BY <1>6, <1>13, <2>2, <2>3, <2>4, <2>5, GrowsInOrder
  <2> QED BY <1>3, <2>5, <2>6
<1>16. ASSUME NEW x \in 1..n PROVE x \in ToSet(told') \cup OnPages(b) \cup handed \cup forgotten
  <2>1. ToSet(told) \subseteq ToSet(told')
    <3>1. \A i \in 1..l : i \in 1..(l + m)
      OBVIOUS
    <3> QED BY <1>12, <3>1 DEF ToSet
  <2>2. ToSet(r) \subseteq ToSet(told')
    <3>1. \A i \in 1..m : l + i \in (l + 1)..(l + m) /\ l + i \in 1..(l + m) /\ (l + i) - l = i
      OBVIOUS
    <3>2. \A i \in 1..m : l + i \in DOMAIN told' /\ told'[l + i] = r[i]
      BY <1>12, <3>1
    <3> QED BY <1>6, <3>2 DEF ToSet
  <2>3. CASE x <= p
    <3>1. x \in 1..p
      BY <2>3
    <3> QED BY <1>1, <2>1, <3>1 DEF CommandInv, Telling
  <2>4. CASE p < x
    <3>1. x \in ToSet(b.buffer) \cup OnPages(b) \cup handed \cup forgotten
      BY <1>1 DEF CommandInv, NothingUnaccounted
    <3> QED BY <1>5, <2>2, <2>4, <3>1
  <2> QED BY <2>3, <2>4
<1>17. Telling'
  <2>1. last_read_position' = n /\ n <= n
    BY <1>3
  <2> QED BY <1>3, <1>7, <1>14, <1>15, <1>16, <2>1 DEF Telling
<1>18. Stream' /\ NothingUnaccounted' /\ Calls'
  BY <1>1, <1>3, <1>7 DEF CommandInv, Stream, NothingUnaccounted, Calls
<1>19. last_read_position' \in 0..MaxOutput
  BY <1>1, <1>3
<1>20. OutputTypes'
  BY <1>3, <1>11, <1>19 DEF CommandInv, OutputTypes
<1>21. InputTypes' /\ LoopTypes'
  BY DEF CommandInv, InputTypes, LoopTypes, inputVars
<1> QED BY <1>17, <1>18, <1>20, <1>21 DEF CommandInv

\* The turn ends: what the buffer holds is the result, or it is shown and kept.
LEMMA ShowStep ==
  ASSUME CommandInv, Completed \/ TimedOut
  PROVE  CommandInv'
<1>1. /\ tracked /\ turn = "waiting" /\ handed' = handed \cup ToSet(b.buffer)
      /\ UNCHANGED <<pty, process, output, taken, reader, chunk, last_read_position, told, forgotten,
                     stop_event, inputVars, tracked, running>>
      /\ turn' \in {"waiting", "over"} /\ loop' \in {"free", "reported"}
      /\ b' = b \/ b' = Cleared(b)
  BY DEF Completed, TimedOut
<1>2. b \in Buffer /\ b.kind # "circular" /\ b.total_added = Received /\ Window(b.buffer, Received) /\ Received \in Nat
  BY <1>1 DEF CommandInv, Calls, Stream, OutputTypes
<1>3. Received' = Received
  BY <1>1 DEF Received
<1>4. /\ b' \in Buffer /\ b'.kind = b.kind /\ b'.pages = b.pages /\ b'.total_added = b.total_added
      /\ b' = b \/ (b'.buffer = <<>> /\ b'.window_start = Received)
  <2>1. CASE b' = Cleared(b)
    BY <1>2, <2>1, ClearedKeeps
  <2> QED BY <1>1, <1>2, <2>1
<1>5. ToSet(b.buffer) \subseteq handed' /\ handed \subseteq handed' /\ OnPages(b') = OnPages(b)
  BY <1>1, <1>4 DEF OnPages
<1>6. Stream'
  <2>1. CASE b' = b
    BY <1>1, <1>3, <2>1 DEF CommandInv, Stream
  <2>2. CASE b'.buffer = <<>> /\ b'.window_start = Received
    <3>1. Window(<<>>, Received) /\ Received + 0 = Received /\ Received >= Received
      BY <1>2, WindowNone
    <3>2. Len(b'.buffer) = 0 /\ b'.window_start + Len(b'.buffer) = Received
      BY <2>2, <3>1
    <3> QED BY <1>1, <1>2, <1>3, <1>4, <2>2, <3>1, <3>2 DEF CommandInv, Stream
  <2> QED BY <1>4, <2>1, <2>2
<1>7. NothingUnaccounted'
  BY <1>1, <1>3, <1>5 DEF CommandInv, NothingUnaccounted
<1>8. Telling'
  BY <1>1, <1>3, <1>5 DEF CommandInv, Telling
<1>9. Calls'
  BY <1>1, <1>2, <1>4 DEF Calls
<1>10. InputTypes' /\ LoopTypes'
  BY <1>1 DEF CommandInv, InputTypes, LoopTypes, inputVars
<1>11. handed' \subseteq 1..MaxOutput
  BY <1>1, InMemory DEF CommandInv, OutputTypes
<1>12. OutputTypes'
  BY <1>1, <1>4, <1>11 DEF CommandInv, OutputTypes
<1> QED BY <1>6, <1>7, <1>8, <1>9, <1>10, <1>12 DEF CommandInv

\* stop returns and the command is forgotten.
LEMMA StopEndsStep ==
  ASSUME CommandInv, StopEnds
  PROVE  CommandInv'
<1>1. /\ tracked' = FALSE /\ turn' = "over" /\ loop' = "free" /\ b' = Cleared(b)
      /\ handed' \in {handed, handed \cup ToSet(b.buffer)}
      /\ UNCHANGED <<pty, process, output, taken, reader, chunk, last_read_position, told, forgotten,
                     stop_event, inputVars, running>>
  BY DEF StopEnds
<1>2. tracked
  BY DEF StopEnds, CommandInv, Calls
<1>3. b \in Buffer /\ b.total_added = Received /\ Received \in Nat
  BY <1>2 DEF CommandInv, Stream, OutputTypes
<1>4. /\ b' \in Buffer /\ b'.kind = b.kind /\ b'.buffer = <<>>
      /\ b.kind # "circular" => b'.total_added = Received /\ b'.window_start = Received
  BY <1>1, <1>3, ClearedKeeps
<1>5. Received' = Received
  BY <1>1 DEF Received
<1>6. Stream'
  <2>1. Window(<<>>, Received) /\ Received + 0 = Received /\ Received >= Received /\ Len(<<>>) = 0
    BY <1>3, WindowNone
  <2>2. b'.kind # "circular" => b'.window_start + Len(b'.buffer) = Received /\ b'.window_start + Len(b'.buffer) >= Received
    BY <1>4, <2>1
  <2> QED BY <1>1, <1>3, <1>4, <1>5, <2>1, <2>2 DEF CommandInv, Stream
<1>7. Calls' /\ NothingUnaccounted' /\ Telling'
  BY <1>1 DEF CommandInv, Calls, NothingUnaccounted, Telling
<1>8. InputTypes' /\ LoopTypes'
  BY <1>1 DEF CommandInv, InputTypes, LoopTypes, inputVars
<1>9. handed' \subseteq 1..MaxOutput
  BY <1>1, InMemory DEF CommandInv, OutputTypes
<1>10. OutputTypes'
  BY <1>1, <1>4, <1>9 DEF CommandInv, OutputTypes
<1> QED BY <1>6, <1>7, <1>8, <1>10 DEF CommandInv

LEMMA CommandStep ==
  ASSUME CommandInv, [Next]_vars
  PROVE  CommandInv'
<1>1. CASE UNCHANGED vars
  <2>1. UNCHANGED <<taken, chunk, b, last_read_position, told, handed, forgotten, tracked, loop, turn>>
    BY <1>1 DEF vars, outputVars
  <2>2. (Stream /\ Calls /\ NothingUnaccounted /\ Telling)'
    BY <2>1, QuietStream DEF CommandInv, Calls
  <2>3. (OutputTypes /\ InputTypes /\ LoopTypes)'
    BY <1>1 DEF CommandInv, OutputTypes, InputTypes, LoopTypes, vars, outputVars, inputVars
  <2> QED BY <2>2, <2>3 DEF CommandInv
<1>2. CASE Reader
  BY <1>2, ReaderQuiet, ReadStep, AppendStep DEF Reader
<1>3. CASE Writer
  BY <1>3, WriterStep DEF Writer
<1>4. CASE ReadNew \/ TailOutput
  <2>1. tracked /\ TellNew /\ UNCHANGED <<pty, turn, process, stop_event, inputVars, tracked, running>> /\ loop' \in {"free", "read"}
    BY <1>4 DEF ReadNew, TailOutput, CommandInv, Calls
  <2> QED BY <2>1, TellStep
<1>5. CASE Worker
  BY <1>4, <1>5, SendStep, StopStep, StopEndsStep DEF Worker
<1> QED BY <1>1, <1>2, <1>3, <1>4, <1>5, ProcessStep, SendStep, StopStep, ShowStep DEF Next

\* A command starts with nothing.
LEMMA CommandInit == Init => CommandInv
<1> SUFFICES ASSUME Init PROVE CommandInv
  OBVIOUS
<1>1. PICK kind \in BufferKinds : b = NewBuffer(kind) /\ (turn = "waiting" => kind # "circular")
  BY DEF Init, BufferKinds
<1>2. <<>> \in Seq(Nat) /\ <<>> \in Seq(Seq(Nat) \cup {Missing}) /\ 0 \in Nat
  OBVIOUS
<1>3. b \in Buffer /\ b.kind = kind /\ b.buffer = <<>> /\ b.total_added = 0 /\ b.window_start = 0
  BY <1>1, <1>2 DEF NewBuffer, Buffer
<1>4. MaxOutput \in Nat /\ MaxInputs \in Nat /\ 0 \in 0..MaxOutput /\ 0 \in 0..MaxInputs /\ Terminals \subseteq BOOLEAN
  BY CommandAssumption
<1>5. OutputTypes
  BY <1>3, <1>4 DEF Init, OutputTypes
<1>6. InputTypes /\ LoopTypes
  <2>1. PICK S : S = 1..MaxInputs
    OBVIOUS
  <2>2. <<>> \in Seq(S)
    OBVIOUS
  <2>3. InputTypes
    BY <1>4, <2>1, <2>2 DEF Init, InputTypes
  <2>4. LoopTypes
    BY <1>4 DEF Init, LoopTypes
  <2> QED BY <2>3, <2>4
<1>7. Received = 0
  <2>1. taken = 0 /\ chunk = <<>>
    BY DEF Init
  <2>2. PICK e : e = <<>> /\ Len(e) = 0
    OBVIOUS
  <2>3. PICK k : k = Len(chunk)
    OBVIOUS
  <2>4. k = 0
    BY <2>1, <2>2, <2>3
  <2>5. Received = taken - k
    BY <2>3 DEF Received
  <2> QED BY <2>1, <2>4, <2>5
<1>8. Window(<<>>, 0) /\ Continues(<<>>, 0) /\ 0 + 0 = 0 /\ 0 >= 0 /\ 0 <= 0 /\ 1..0 = {}
  BY WindowNone DEF Continues
<1>9. Stream
  BY <1>3, <1>7, <1>8 DEF Init, Stream
<1>10. Calls
  BY <1>1, <1>3 DEF Init, Calls
<1>11. NothingUnaccounted
  BY <1>7, <1>8 DEF NothingUnaccounted
<1>12. Telling
  <2>1. DOMAIN told = {} /\ last_read_position = 0
    BY DEF Init
  <2> QED BY <1>7, <1>8, <2>1 DEF Telling
<1> QED BY <1>5, <1>6, <1>9, <1>10, <1>11, <1>12 DEF CommandInv

LEMMA CommandAlways == Spec => []CommandInv
BY CommandInit, CommandStep, PTL DEF Spec

-----------------------------------------------------------------------------
(* The theorems.                                                           *)

\* The buffers, positions and queues of a command keep their types, whichever
\* pages fail to be written.
THEOREM CommandTypeCorrect == Spec => []CommandTypeOK
<1>1. CommandInv => CommandTypeOK
  BY TypeParts DEF CommandInv
<1> QED BY <1>1, CommandAlways, PTL

\* While a command is known to the manager, all that its reader thread has
\* appended is in memory, on disk, has been shown, or did not fit into a bounded
\* buffer, whichever pages fail to be written.
THEOREM OutputAccounted == Spec => []NothingUnaccounted
<1>1. CommandInv => NothingUnaccounted
  BY DEF CommandInv
<1> QED BY <1>1, CommandAlways, PTL

\* get_new_output gives every character once at most and in order, and passes
\* over none that was neither paged out, nor dropped, nor shown; provided that a
\* spill fails at its first page, if it does.  (A failure at a later page leaves
\* window_start ahead of the window.)
THEOREM ReadsInOrder ==
  ASSUME DiskFaults \subseteq {0, 1}
  PROVE  Spec => []ReadsFollowStream
<1>1. CommandInv => ReadsFollowStream
  BY DEF CommandInv, Telling, ReadsFollowStream
<1> QED BY <1>1, CommandAlways, PTL
=============================================================================
