------------------------ MODULE EventDeliveryProofs ------------------------
(***************************************************************************)
(* Proofs about the way of an event to the screen, for any set of clients  *)
(* and any capacities of the bus, the client queues and the page: the      *)
(* wake-up is never lost, the frames of a client stay in order, and a page *)
(* that has read what is on its way shows the newest action.               *)
(*                                                                         *)
(* The argument: frames are numbered in the order of their publication.    *)
(* What is on the wire of a client is older than what is in its queue, and *)
(* that is older than what is on the bus.  The capacity rules throw out    *)
(* the oldest frame, so that the newest RGB0 is either still on its way or *)
(* everything on its way is younger.                                       *)
(***************************************************************************)
EXTENDS EventDelivery, SequenceTheorems, WellFoundedInduction, TLAPS

USE ConstantsAssumption

Events == Frames \cup {Note}

-----------------------------------------------------------------------------
(* Frames and their numbers *)

LEMMA FrameFacts ==
    ASSUME NEW f \in Frames
    PROVE  /\ f.kind = "frame" /\ f.action \in Actions /\ f.action \in Nat
           /\ f.index \in 0..(FrameCount - 1) /\ f.index \in Nat
           /\ f = Frame(f.action, f.index) /\ IsFrame(f)
           /\ f # NoFrame /\ f # Note
           /\ Number(f) = f.action * FrameCount + f.index /\ Number(f) \in Nat
<1>1. PICK a \in Actions, i \in 0..(FrameCount - 1) : f = Frame(a, i)
  BY DEF Frames
<1>2. /\ f.kind = "frame" /\ f.action = a /\ f.index = i /\ a \in Nat /\ i \in Nat
      /\ f # NoFrame /\ f # Note
  BY <1>1 DEF Frame, Actions, NoFrame, Note
<1>3. a * FrameCount \in Nat
  BY <1>2
<1> QED
  BY <1>1, <1>2, <1>3 DEF IsFrame, Number

LEMMA NoFrameFacts ==
    /\ Number(NoFrame) = -1 /\ NoFrame.action = -1 /\ NoFrame.index = -1
    /\ NoFrame \notin Frames /\ ~IsFrame(Note) /\ ~IsFrame(NoFrame)
<1>1. /\ NoFrame.action = -1 /\ NoFrame.index = -1 /\ NoFrame.kind = "none"
      /\ Note.kind = "note" /\ -1 < 0
  BY DEF NoFrame, Note
<1>2. NoFrame \notin Frames
  BY <1>1, FrameFacts
<1> QED
  BY <1>1, <1>2 DEF Number, IsFrame

\* Frames are ordered by action, then by index.
LEMMA NumberOrder ==
    ASSUME NEW f \in Frames, NEW g \in Frames
    PROVE  /\ f.action < g.action => Number(f) < Number(g)
           /\ f.action = g.action /\ f.index < g.index => Number(f) < Number(g)
           /\ Number(f) < Number(g) => f.action <= g.action
           /\ f.action = g.action /\ Number(f) < Number(g) => f.index < g.index
           /\ Number(f) = Number(g) => f = g
<1>1. ASSUME NEW x \in Frames, NEW y \in Frames, x.action < y.action
      PROVE  Number(x) < Number(y)
  <2>1. PICK d \in Nat : y.action = x.action + 1 + d
    <3> DEFINE d == y.action - x.action - 1
    <3>1. x.action \in Nat /\ y.action \in Nat
      BY FrameFacts
    <3>2. d \in Nat /\ y.action = x.action + 1 + d
      BY <1>1, <3>1
    <3> QED
      BY <3>2
  <2>2. /\ y.action * FrameCount = x.action * FrameCount + FrameCount + d * FrameCount
        /\ d * FrameCount \in Nat
    BY <2>1, FrameFacts
  <2> DEFINE p == x.action * FrameCount
             q == d * FrameCount
  <2>3. /\ p \in Nat /\ q \in Nat /\ x.index < FrameCount /\ y.index \in Nat
        /\ x.index \in Nat /\ FrameCount \in Nat
        /\ Number(x) = p + x.index /\ Number(y) = (p + FrameCount + q) + y.index
    BY <2>2, FrameFacts
  <2> HIDE DEF p, q
  <2> QED
    BY <2>3
<1>2. ASSUME NEW x \in Frames, NEW y \in Frames, x.action = y.action
      PROVE  /\ x.index < y.index <=> Number(x) < Number(y)
             /\ Number(x) = Number(y) => x = y
  <2> DEFINE p == x.action * FrameCount
  <2>1. /\ p \in Nat /\ Number(x) = p + x.index /\ Number(y) = p + y.index
        /\ x.index \in Nat /\ y.index \in Nat
        /\ x = Frame(x.action, x.index) /\ y = Frame(y.action, y.index)
    BY <1>2, FrameFacts
  <2> HIDE DEF p
  <2>2. x.index = y.index => x = y
    BY <1>2, <2>1
  <2> QED
    BY <2>1, <2>2
<1>3. /\ f.action \in Nat /\ g.action \in Nat /\ Number(f) \in Nat /\ Number(g) \in Nat
  BY FrameFacts
<1> QED
  BY <1>1, <1>2, <1>3

LEMMA ItemFacts ==
    /\ \A e \in Events : IsFrame(e) <=> e \in Frames
    /\ \A e \in Items : IsFrame(e) <=> e \in Frames
    /\ \A e \in Items : e \in Frames \/ e = Note \/ e.kind = "latest"
    /\ \A f \in Frames : Latest(f) \in Items /\ Latest(f).kind = "latest"
                         /\ [Latest(f) EXCEPT !.kind = "frame"] = f
    /\ \A e \in Items : e.kind = "latest" => \E f \in Frames : e = Latest(f)
    /\ \A f, g \in Frames : Latest(f) = Latest(g) => f = g
    /\ \A f \in Frames : [f EXCEPT !.kind = "frame"] = f
    /\ Note.kind = "note" /\ Note \in Items /\ Frames \subseteq Items
    /\ Events \subseteq Items
<1>1. ASSUME NEW f \in Frames
      PROVE  /\ Latest(f).kind = "latest" /\ Latest(f) \in Items
             /\ [Latest(f) EXCEPT !.kind = "frame"] = f
             /\ [f EXCEPT !.kind = "frame"] = f
             /\ f.kind = "frame"
  <2>1. PICK a \in Actions, i \in 0..(FrameCount - 1) : f = Frame(a, i)
    BY DEF Frames
  <2>2. f = [kind |-> "frame", action |-> a, index |-> i]
    BY <2>1 DEF Frame
  <2>3. Latest(f) = [kind |-> "latest", action |-> a, index |-> i]
    BY <2>2 DEF Latest
  <2>4. Latest(f) \in Items
    BY DEF Items
  <2> QED
    BY <2>2, <2>3, <2>4
<1>2. \A f, g \in Frames : Latest(f) = Latest(g) => f = g
  BY <1>1
<1>3. Note.kind = "note" /\ Note \in Items /\ Frames \subseteq Items
  BY DEF Note, Items
<1> QED
  BY <1>1, <1>2, <1>3 DEF Items, Events, IsFrame

-----------------------------------------------------------------------------
(* Sequences of events *)

LEMMA Members ==
    ASSUME NEW S, NEW s \in Seq(S)
    PROVE  /\ \A e : e \in ToSet(s) <=> \E i \in 1..Len(s) : s[i] = e
           /\ ToSet(s) \subseteq S
           /\ \A e : e \in FramesIn(s) <=> IsFrame(e) /\ \E i \in 1..Len(s) : s[i] = e
           /\ s = <<>> <=> Len(s) = 0
<1>1. DOMAIN s = 1..Len(s) /\ \A i \in 1..Len(s) : s[i] \in S
  OBVIOUS
<1> QED
  BY <1>1 DEF ToSet, FramesIn

LEMMA EmptyFacts == ToSet(<<>>) = {} /\ FramesIn(<<>>) = {}
BY DEF ToSet, FramesIn

LEMMA AppendFacts ==
    ASSUME NEW S, NEW s \in Seq(S), NEW e \in S
    PROVE  /\ Append(s, e) \in Seq(S) /\ Len(Append(s, e)) = Len(s) + 1
           /\ \A i \in 1..(Len(s) + 1) : Append(s, e)[i] = IF i <= Len(s) THEN s[i] ELSE e
           /\ ToSet(Append(s, e)) = ToSet(s) \cup {e}
           /\ IsFrame(e) => FramesIn(Append(s, e)) = FramesIn(s) \cup {e}
           /\ ~IsFrame(e) => FramesIn(Append(s, e)) = FramesIn(s)
<1> DEFINE t == Append(s, e)
<1>1. /\ t \in Seq(S) /\ Len(t) = Len(s) + 1 /\ Len(s) \in Nat
      /\ \A i \in 1..(Len(s) + 1) : t[i] = IF i <= Len(s) THEN s[i] ELSE e
  OBVIOUS
<1> HIDE DEF t
<1>2. ASSUME NEW x
      PROVE  x \in ToSet(t) <=> x \in ToSet(s) \/ x = e
  <2>1. x \in ToSet(s) => x \in ToSet(t)
    <3> SUFFICES ASSUME x \in ToSet(s) PROVE x \in ToSet(t)
      OBVIOUS
    <3>1. PICK i \in 1..Len(s) : s[i] = x
      BY Members
    <3>2. i \in 1..Len(t) /\ t[i] = x
      BY <1>1, <3>1
    <3> QED
      BY <1>1, <3>2, Members
  <2>2. e \in ToSet(t)
    <3>1. Len(s) + 1 \in 1..Len(t) /\ t[Len(s) + 1] = e
      BY <1>1
    <3> QED
      BY <1>1, <3>1, Members
  <2>3. x \in ToSet(t) => x \in ToSet(s) \/ x = e
    <3> SUFFICES ASSUME x \in ToSet(t) PROVE x \in ToSet(s) \/ x = e
      OBVIOUS
    <3>1. PICK i \in 1..Len(t) : t[i] = x
      BY <1>1, Members
    <3>2. CASE i \in 1..Len(s)
      BY <1>1, <3>1, <3>2, Members
    <3>3. CASE ~(i \in 1..Len(s))
      BY <1>1, <3>1, <3>3
    <3> QED
      BY <3>2, <3>3
  <2> QED
    BY <2>1, <2>2, <2>3
<1>3. ToSet(t) = ToSet(s) \cup {e}
  BY <1>2
<1>4. /\ IsFrame(e) => FramesIn(t) = FramesIn(s) \cup {e}
      /\ ~IsFrame(e) => FramesIn(t) = FramesIn(s)
  BY <1>3 DEF FramesIn
<1> QED
  BY <1>1, <1>3, <1>4 DEF t

\* t is s without its element k, before which there is no frame.
Without(t, s, k) ==
    /\ k \in 1..Len(s) /\ Len(t) = Len(s) - 1
    /\ \A i \in 1..(k - 1) : ~IsFrame(s[i])
    /\ \A j \in 1..(Len(s) - 1) : t[j] = IF j < k THEN s[j] ELSE s[j + 1]

LEMMA TailFacts ==
    ASSUME NEW S, NEW s \in Seq(S), s # <<>>
    PROVE  /\ Head(s) \in S /\ Head(s) = s[1] /\ Tail(s) \in Seq(S)
           /\ Without(Tail(s), s, 1) /\ Len(s) \in Nat \ {0}
BY DEF Without

LEMMA LeastFrame ==
    ASSUME NEW S, NEW s \in Seq(S), FramesIn(s) # {}
    PROVE  \E k \in 1..Len(s) :
               /\ RemoveFirstMatch(s, IsFrame) = RemoveAt(s, k)
               /\ IsFrame(s[k]) /\ \A i \in 1..(k - 1) : ~IsFrame(s[i])
<1> DEFINE I == {i \in 1..Len(s) : IsFrame(s[i])}
<1>1. I \subseteq Nat /\ I # {} /\ Len(s) \in Nat
  <2>1. PICK e : e \in FramesIn(s)
    OBVIOUS
  <2>2. IsFrame(e) /\ \E i \in 1..Len(s) : s[i] = e
    BY <2>1, Members
  <2> QED
    BY <2>2
<1>2. \E x \in I : \A y \in I : x <= y
  <2> HIDE DEF I
  <2>1. PICK x \in I : \A y \in I : ~(<<y, x>> \in OpToRel(<, Nat))
    BY <1>1, NatLessThanWellFounded, WFMin
  <2>2. \A y \in I : ~(y < x)
    BY <1>1, <2>1 DEF OpToRel
  <2> QED
    BY <1>1, <2>2
<1> DEFINE k == CHOOSE x \in I : \A y \in I : x <= y
<1>3. k \in I /\ \A y \in I : k <= y
  BY <1>2
<1>4. RemoveFirstMatch(s, IsFrame) = RemoveAt(s, k)
  BY <1>1 DEF RemoveFirstMatch, SelectInSeq, Min
<1> HIDE DEF k
<1>5. k \in 1..Len(s) /\ IsFrame(s[k])
  BY <1>3
<1>6. \A i \in 1..(k - 1) : ~IsFrame(s[i])
  <2> SUFFICES ASSUME NEW i \in 1..(k - 1), IsFrame(s[i]) PROVE FALSE
    OBVIOUS
  <2>1. i \in I /\ i < k
    BY <1>1, <1>5
  <2> QED
    BY <1>3, <1>5, <2>1
<1> QED
  BY <1>4, <1>5, <1>6

LEMMA RemoveFacts ==
    ASSUME NEW S, NEW s \in Seq(S), NEW k \in 1..Len(s)
    PROVE  /\ RemoveAt(s, k) \in Seq(S) /\ Len(RemoveAt(s, k)) = Len(s) - 1
           /\ \A j \in 1..(Len(s) - 1) :
                  RemoveAt(s, k)[j] = IF j < k THEN s[j] ELSE s[j + 1]
<1> DEFINE a == SubSeq(s, 1, k - 1)
           b == SubSeq(s, k + 1, Len(s))
<1>1. Len(s) \in Nat /\ k \in Nat /\ k <= Len(s) /\ 1 <= k
  OBVIOUS
<1>2. /\ a \in Seq(S) /\ Len(a) = k - 1
      /\ \A j \in 1..(k - 1) : a[j] = s[j]
  BY <1>1
<1>3. /\ b \in Seq(S) /\ Len(b) = Len(s) - k
      /\ \A j \in 1..(Len(s) - k) : b[j] = s[j + k]
  BY <1>1
<1>4. RemoveAt(s, k) = a \o b
  BY DEF RemoveAt
<1> HIDE DEF a, b
<1>5. /\ a \o b \in Seq(S) /\ Len(a \o b) = Len(s) - 1
      /\ \A j \in 1..(Len(s) - 1) : (a \o b)[j] = IF j <= k - 1 THEN a[j] ELSE b[j - (k - 1)]
  <2>1. /\ a \o b \in Seq(S) /\ Len(a \o b) = Len(a) + Len(b)
        /\ \A j \in 1..(Len(a) + Len(b)) :
               (a \o b)[j] = IF j <= Len(a) THEN a[j] ELSE b[j - Len(a)]
    <3>1. a \in Seq(S) /\ b \in Seq(S)
      BY <1>2, <1>3
    <3> QED
      BY <3>1, ConcatProperties
  <2>2. Len(a) + Len(b) = Len(s) - 1
    BY <1>1, <1>2, <1>3
  <2> DEFINE c == a \o b
  <2> HIDE DEF c
  <2>3. \A j \in 1..(Len(s) - 1) : c[j] = IF j <= k - 1 THEN a[j] ELSE b[j - (k - 1)]
    BY <1>2, <2>1, <2>2 DEF c
  <2> QED
    BY <2>1, <2>2, <2>3 DEF c
<1>6. ASSUME NEW j \in 1..(Len(s) - 1)
      PROVE  (a \o b)[j] = IF j < k THEN s[j] ELSE s[j + 1]
  <2>1. CASE j < k
    <3>1. (a \o b)[j] = a[j]
      BY <1>1, <1>5, <2>1
    <3> QED
      BY <1>1, <1>2, <2>1, <3>1
  <2>2. CASE ~(j < k)
    <3>1. (a \o b)[j] = b[j - (k - 1)]
      BY <1>1, <1>5, <2>2, SMTT(30)
    <3>2. j - (k - 1) \in 1..(Len(s) - k) /\ j - (k - 1) + k = j + 1
      BY <1>1, <2>2
    <3> QED
      BY <1>3, <2>2, <3>1, <3>2
  <2> QED
    BY <2>1, <2>2
<1> QED
  BY <1>4, <1>5, <1>6

\* Frames appear in the order of their numbers.
Sorted(s) ==
    \A i, j \in 1..Len(s) :
        i < j /\ IsFrame(s[i]) /\ IsFrame(s[j]) => Number(s[i]) < Number(s[j])

LEMMA WithoutFacts ==
    ASSUME NEW S, NEW s \in Seq(S), NEW t \in Seq(S), NEW k, Without(t, s, k)
    PROVE  /\ ToSet(t) \subseteq ToSet(s)
           /\ ToSet(s) \subseteq ToSet(t) \cup {s[k]}
           /\ FramesIn(t) \subseteq FramesIn(s)
           /\ FramesIn(s) \subseteq FramesIn(t) \cup {s[k]}
           /\ Sorted(s) => Sorted(t)
           /\ Sorted(s) /\ IsFrame(s[k]) => \A f \in FramesIn(t) : Number(s[k]) < Number(f)
<1>1. /\ Len(s) \in Nat /\ Len(t) = Len(s) - 1 /\ k \in 1..Len(s)
      /\ \A i \in 1..(k - 1) : ~IsFrame(s[i])
  BY DEF Without
<1>2. ASSUME NEW j \in 1..Len(t)
      PROVE  \E m \in 1..Len(s) : /\ t[j] = s[m] /\ m # k
                                 /\ m = IF j < k THEN j ELSE j + 1
  BY <1>1, SMTT(30) DEF Without
<1>3. ASSUME NEW m \in 1..Len(s), m # k
      PROVE  \E j \in 1..Len(t) : t[j] = s[m]
  <2>1. CASE m < k
    <3>1. m \in 1..Len(t) /\ t[m] = s[m]
      BY <1>1, <2>1 DEF Without
    <3> QED
      BY <3>1
  <2>2. CASE ~(m < k)
    <3>1. m - 1 \in 1..Len(t) /\ ~(m - 1 < k) /\ (m - 1) + 1 = m
      BY <1>1, <1>3, <2>2
    <3>2. t[m - 1] = s[m]
      BY <1>1, <3>1 DEF Without
    <3> QED
      BY <3>1, <3>2
  <2> QED
    BY <2>1, <2>2
<1>4. ToSet(t) \subseteq ToSet(s)
  <2> SUFFICES ASSUME NEW e \in ToSet(t) PROVE e \in ToSet(s)
    OBVIOUS
  <2>1. PICK j \in 1..Len(t) : t[j] = e
    BY Members
  <2> QED
    BY <1>2, <2>1, Members
<1>5. ToSet(s) \subseteq ToSet(t) \cup {s[k]}
  <2> SUFFICES ASSUME NEW e \in ToSet(s), e # s[k] PROVE e \in ToSet(t)
    OBVIOUS
  <2>1. PICK m \in 1..Len(s) : s[m] = e
    BY Members
  <2> QED
    BY <1>3, <2>1, Members
<1>6. FramesIn(t) \subseteq FramesIn(s) /\ FramesIn(s) \subseteq FramesIn(t) \cup {s[k]}
  BY <1>4, <1>5 DEF FramesIn
<1>7. Sorted(s) => Sorted(t)
  <2> SUFFICES ASSUME Sorted(s), NEW i \in 1..Len(t), NEW j \in 1..Len(t), i < j,
                      IsFrame(t[i]), IsFrame(t[j])
               PROVE  Number(t[i]) < Number(t[j])
    BY DEF Sorted
  <2>1. PICK m \in 1..Len(s) : t[i] = s[m] /\ m = IF i < k THEN i ELSE i + 1
    BY <1>2
  <2>2. PICK n \in 1..Len(s) : t[j] = s[n] /\ n = IF j < k THEN j ELSE j + 1
    BY <1>2
  <2>3. m < n
    BY <1>1, <2>1, <2>2, SMTT(30)
  <2> QED
    BY <2>1, <2>2, <2>3 DEF Sorted
<1>8. ASSUME Sorted(s), IsFrame(s[k]), NEW f \in FramesIn(t)
      PROVE  Number(s[k]) < Number(f)
  <2>1. PICK j \in 1..Len(t) : t[j] = f
    BY Members
  <2>2. PICK m \in 1..Len(s) : t[j] = s[m] /\ m # k
    BY <1>2
  <2>3. IsFrame(s[m])
    BY <2>1, <2>2 DEF FramesIn
  <2>4. m > k
    BY <1>1, <2>2, <2>3
  <2> QED
    BY <1>1, <1>8, <2>1, <2>2, <2>3, <2>4 DEF Sorted
<1> QED
  BY <1>4, <1>5, <1>6, <1>7, <1>8

LEMMA SortedAppend ==
    ASSUME NEW S, NEW s \in Seq(S), NEW e \in S, Sorted(s),
           IsFrame(e) => \A f \in FramesIn(s) : Number(f) < Number(e)
    PROVE  Sorted(Append(s, e))
<1> DEFINE t == Append(s, e)
<1>1. /\ Len(t) = Len(s) + 1 /\ Len(s) \in Nat
      /\ \A i \in 1..(Len(s) + 1) : t[i] = IF i <= Len(s) THEN s[i] ELSE e
  BY AppendFacts
<1> HIDE DEF t
<1>2. ASSUME NEW i \in 1..Len(t), NEW j \in 1..Len(t), i < j, IsFrame(t[i]), IsFrame(t[j])
      PROVE  Number(t[i]) < Number(t[j])
  <2>1. i \in 1..Len(s) /\ t[i] = s[i]
    BY <1>1, <1>2
  <2>2. CASE j \in 1..Len(s)
    BY <1>1, <1>2, <2>1, <2>2 DEF Sorted
  <2>3. CASE ~(j \in 1..Len(s))
    <3>1. t[j] = e
      BY <1>1, <2>3
    <3>2. s[i] \in FramesIn(s)
      BY <1>2, <2>1, Members
    <3> QED
      BY <1>2, <2>1, <3>1, <3>2
  <2> QED
    BY <2>2, <2>3
<1> QED
  BY <1>2 DEF Sorted, t

-----------------------------------------------------------------------------
(* The inductive invariant *)

Below(A, B) == \A f \in A, g \in B : Number(f) < Number(g)

\* The frames on their way to client c.
Stream(c) == FramesIn(bus) \cup FramesIn(out[c]) \cup FramesIn(wire[c])

\* RGB0 of the newest action is still among them, or they are all younger.
Passed(S) == latest \in S \/ \A f \in S : Number(latest) < Number(f)

BusInv ==
    /\ Sorted(bus)
    /\ \A f \in FramesIn(bus) : Number(f) <= Number(newest)
    /\ latest.action = newest.action
    /\ latest # NoFrame => latest.index = 0
    /\ Passed(FramesIn(bus))

\* Wire before queue before bus, all of them after what the page has read.
StreamInv(c) ==
    /\ Sorted(out[c])
    /\ Sorted(wire[c])
    /\ Below(FramesIn(wire[c]), FramesIn(out[c]))
    /\ Below(FramesIn(wire[c]) \cup FramesIn(out[c]), FramesIn(bus))
    /\ Below({got[c]}, Stream(c))
    /\ \A f \in Stream(c) \cup {got[c]} : Number(f) <= Number(newest)

\* A page starts blank, the greeting comes first, and what is drawn or waits
\* to be drawn is of the current action and has been read.
PageInv(c) ==
    /\ conn[c] = "away" => out[c] = <<>> /\ wire[c] = <<>>
    /\ conn[c] \in {"away", "status"} =>
           /\ page[c] = BlankPage /\ got[c] = NoFrame /\ greeting[c] = NoFrame
           /\ \A i \in 1..Len(wire[c]) : wire[c][i] = Note
    /\ greeting[c] # NoFrame => greeting[c].index = 0
    /\ \A i \in 1..Len(wire[c]) : wire[c][i].kind = "latest" =>
           /\ wire[c][i] = Latest(greeting[c]) /\ greeting[c] # NoFrame
           /\ page[c] = BlankPage
           /\ \A j \in 1..(i - 1) : wire[c][j] = Note
    /\ page[c].shown # NoFrame => page[c].shown.action = page[c].current
    /\ \/ page[c].shown \in {NoFrame, greeting[c]}
       \/ Number(page[c].shown) <= Number(got[c])
    /\ \A f \in ToSet(page[c].tails) :
           /\ f.action = page[c].current /\ f.index > 0
           /\ Number(page[c].shown) < Number(f) /\ Number(f) <= Number(got[c])
    /\ Sorted(page[c].tails)

\* A page nothing was dropped on has the newest action before it or on it.
NewestInv(c) ==
    conn[c] \in {"status", "latest", "open"} /\ ~overflow[c] /\ latest # NoFrame =>
        /\ Passed(Stream(c))
        /\ latest \notin Stream(c) /\ conn[c] # "status" =>
               \/ Latest(latest) \in ToSet(wire[c])
               \/ page[c].current = latest.action /\ page[c].shown # NoFrame

ClientInv(c) == StreamInv(c) /\ PageInv(c) /\ NewestInv(c)

IInv ==
    /\ TypeOK
    /\ WakeUpComes
    /\ BusInv
    /\ \A c \in Clients : ClientInv(c)

LEMMA TypeFacts ==
    ASSUME TypeOK
    PROVE  /\ bus \in Seq(Events) /\ Len(bus) <= BusMax
           /\ latest \in Frames \cup {NoFrame} /\ newest \in Frames \cup {NoFrame}
           /\ Number(latest) \in Int /\ Number(newest) \in Int
           /\ \A f \in FramesIn(bus) : f \in Frames
           /\ \A c \in Clients :
                  /\ out[c] \in Seq(Events) /\ Len(out[c]) <= OutMax
                  /\ wire[c] \in Seq(Items)
                  /\ \A f \in Stream(c) : f \in Frames
                  /\ page[c] \in [current : Actions, tails : Seq(Frames),
                                  shown : Frames \cup {NoFrame}]
                  /\ got[c] \in Frames \cup {NoFrame}
                  /\ greeting[c] \in Frames \cup {NoFrame}
                  /\ Number(got[c]) \in Int
<1>1. \A f \in Frames \cup {NoFrame} : Number(f) \in Int
  BY FrameFacts, NoFrameFacts
<1>2. /\ bus \in Seq(Events)
      /\ \A c \in Clients : out[c] \in Seq(Events) /\ wire[c] \in Seq(Items)
  BY DEF TypeOK, Events
<1>3. ASSUME NEW s \in Seq(Events) PROVE FramesIn(s) \subseteq Frames
  BY Members, ItemFacts DEF FramesIn
<1>4. ASSUME NEW s \in Seq(Items) PROVE FramesIn(s) \subseteq Frames
  BY Members, ItemFacts DEF FramesIn
<1>5. \A c \in Clients :
          /\ got[c] \in Frames \cup {NoFrame} /\ greeting[c] \in Frames \cup {NoFrame}
          /\ page[c] \in [current : Actions, tails : Seq(Frames),
                          shown : Frames \cup {NoFrame}]
          /\ Len(out[c]) <= OutMax
  BY DEF TypeOK
<1>6. \A c \in Clients : Stream(c) \subseteq Frames
  BY <1>2, <1>3, <1>4 DEF Stream
<1>7. /\ latest \in Frames \cup {NoFrame} /\ newest \in Frames \cup {NoFrame}
      /\ Len(bus) <= BusMax
  BY DEF TypeOK
<1> QED
  BY <1>1, <1>2, <1>3, <1>5, <1>6, <1>7

LEMMA InitHolds == Init => IInv
<1> SUFFICES ASSUME Init PROVE IInv
  OBVIOUS
<1>1. <<>> \in Seq(Events) /\ <<>> \in Seq(Items) /\ <<>> \in Seq(Frames) /\ Len(<<>>) = 0
  OBVIOUS
<1>2. BlankPage \in [current : Actions, tails : Seq(Frames), shown : Frames \cup {NoFrame}]
  BY <1>1 DEF BlankPage, Actions
<1>3. BlankPage.tails = <<>> /\ BlankPage.shown = NoFrame
  BY DEF BlankPage
<1>4. TypeOK
  <2>1. /\ bus \in Seq(Frames \cup {Note}) /\ Len(bus) <= BusMax
        /\ latest \in Frames \cup {NoFrame} /\ newest \in Frames \cup {NoFrame}
    BY <1>1 DEF Init, Events
  <2>1a. /\ signalling \in [Publishers -> BOOLEAN]
         /\ due \in BOOLEAN /\ wake \in BOOLEAN /\ taker \in {"check", "waiting"}
    BY DEF Init
  <2>1b. notes \in 0..NoteMax
    BY DEF Init
  <2>2. /\ conn \in [Clients -> {"away", "status", "latest", "open", "closed", "leaked"}]
        /\ {got, greeting} \subseteq [Clients -> Frames \cup {NoFrame}]
        /\ overflow \in [Clients -> BOOLEAN]
    BY DEF Init
  <2>3. /\ out \in [Clients -> Seq(Frames \cup {Note})] /\ wire \in [Clients -> Seq(Items)]
        /\ \A c \in Clients : Len(out[c]) <= OutMax
    BY <1>1 DEF Init, Events
  <2>4. /\ page \in [Clients -> [current : Actions, tails : Seq(Frames),
                                 shown : Frames \cup {NoFrame}]]
        /\ \A c \in Clients : Len(page[c].tails) <= TailMax
    BY <1>1, <1>2, <1>3 DEF Init
  <2> QED
    BY <2>1, <2>1a, <2>1b, <2>2, <2>3, <2>4 DEF TypeOK
<1>5. WakeUpComes
  BY DEF Init, WakeUpComes
<1>6. BusInv
  BY <1>1, EmptyFacts DEF Init, BusInv, Sorted, Passed
<1>7. ASSUME NEW c \in Clients PROVE ClientInv(c)
  <2>1. /\ bus = <<>> /\ out[c] = <<>> /\ wire[c] = <<>> /\ page[c] = BlankPage
        /\ got[c] = NoFrame /\ greeting[c] = NoFrame /\ latest = NoFrame /\ newest = NoFrame
    BY DEF Init
  <2>2. StreamInv(c)
    BY <1>1, <2>1, EmptyFacts, NoFrameFacts DEF StreamInv, Stream, Below, Sorted
  <2>3. PageInv(c)
    BY <1>1, <1>3, <2>1, EmptyFacts DEF PageInv, Sorted
  <2>4. NewestInv(c)
    BY <2>1 DEF NewestInv
  <2> QED
    BY <2>2, <2>3, <2>4 DEF ClientInv
<1> QED
  BY <1>4, <1>5, <1>6, <1>7 DEF IInv

\* What does not touch a client or the bus leaves the client in order.
LEMMA QuietClient ==
    ASSUME NEW c \in Clients, ClientInv(c),
           UNCHANGED <<bus, latest, newest, conn[c], out[c], wire[c], page[c], got[c],
                       greeting[c], overflow[c]>>
    PROVE  ClientInv(c)'
<1>1. Stream(c)' = Stream(c)
  BY DEF Stream
<1>2. StreamInv(c)'
  BY <1>1 DEF ClientInv, StreamInv
<1>3. PageInv(c)'
  BY DEF ClientInv, PageInv
<1>4. NewestInv(c)'
  BY <1>1 DEF ClientInv, NewestInv, Passed
<1> QED
  BY <1>2, <1>3, <1>4 DEF ClientInv

LEMMA QuietBus == BusInv /\ UNCHANGED <<bus, latest, newest>> => BusInv'
BY DEF BusInv, Passed

\* The steps of the event loop that move no event, and stuttering.
LEMMA LoopStep ==
    ASSUME IInv, Signals \/ RunCallback \/ WaitForEvents \/ WakeUp \/ UNCHANGED vars
    PROVE  IInv'
<1>1. UNCHANGED <<bus, latest, newest, notes, clientVars>>
  BY DEF Signals, Signal, RunCallback, WaitForEvents, WakeUp, vars, busVars, clientVars
<1>2. TypeOK'
  <2>1. /\ signalling' \in [Publishers -> BOOLEAN] /\ due' \in BOOLEAN /\ wake' \in BOOLEAN
        /\ taker' \in {"check", "waiting"}
    BY DEF IInv, TypeOK, Signals, Signal, RunCallback, WaitForEvents, WakeUp, vars, busVars
  <2> QED
    BY <1>1, <2>1 DEF IInv, TypeOK, clientVars
<1>3. WakeUpComes'
  <2>1. CASE Signals
    BY <2>1 DEF IInv, WakeUpComes, Signals, Signal
  <2>2. CASE RunCallback \/ WaitForEvents \/ WakeUp
    BY <2>2 DEF IInv, WakeUpComes, RunCallback, WaitForEvents, WakeUp, busVars
  <2>3. CASE UNCHANGED vars
    BY <2>3 DEF IInv, WakeUpComes, vars
  <2> QED
    BY <2>1, <2>2, <2>3
<1>4. BusInv' /\ \A c \in Clients : ClientInv(c)'
  BY <1>1, QuietBus, QuietClient DEF IInv, clientVars
<1> QED
  BY <1>2, <1>3, <1>4 DEF IInv

-----------------------------------------------------------------------------
(* Publishing *)

\* What the capacity rules of the bus and of a client queue keep: the order,
\* the new event, and every frame or only younger ones.
LEMMA PutFacts ==
    ASSUME NEW s \in Seq(Events), NEW e \in Events, NEW M \in Nat \ {0}, Len(s) <= M, NEW t,
           \/ Len(s) < M /\ t = Append(s, e)
           \/ s # <<>> /\ t = Append(Tail(s), e)
           \/ FramesIn(s) # {} /\ t = Append(RemoveFirstMatch(s, IsFrame), e)
    PROVE  /\ t \in Seq(Events) /\ Len(t) <= M
           /\ e \in ToSet(t) /\ ToSet(t) \subseteq ToSet(s) \cup {e}
           /\ FramesIn(t) \subseteq FramesIn(s) \cup ({e} \cap Frames)
           /\ Sorted(s) /\ (IsFrame(e) => \A f \in FramesIn(s) : Number(f) < Number(e))
                  => Sorted(t)
           /\ Sorted(s) => \A f \in FramesIn(s) :
                  f \in FramesIn(t) \/ \A g \in FramesIn(t) : g = e \/ Number(f) < Number(g)
<1>1. \E r \in Seq(Events) :
          /\ t = Append(r, e) /\ Len(r) < M
          /\ r = s \/ \E k : Without(r, s, k)
  <2>1. CASE Len(s) < M /\ t = Append(s, e)
    BY <2>1
  <2>2. CASE s # <<>> /\ t = Append(Tail(s), e)
    <3>1. /\ Tail(s) \in Seq(Events) /\ Without(Tail(s), s, 1) /\ Len(s) \in Nat
      BY <2>2, TailFacts
    <3>2. Len(Tail(s)) < M
      BY <3>1 DEF Without
    <3> QED
      BY <2>2, <3>1, <3>2
  <2>3. CASE FramesIn(s) # {} /\ t = Append(RemoveFirstMatch(s, IsFrame), e)
    <3>1. PICK k \in 1..Len(s) :
               /\ RemoveFirstMatch(s, IsFrame) = RemoveAt(s, k)
               /\ \A i \in 1..(k - 1) : ~IsFrame(s[i])
      BY <2>3, LeastFrame
    <3>2. /\ RemoveAt(s, k) \in Seq(Events) /\ Len(RemoveAt(s, k)) = Len(s) - 1
          /\ Without(RemoveAt(s, k), s, k)
      BY <3>1, RemoveFacts DEF Without
    <3>3. Len(RemoveAt(s, k)) < M
      BY <3>2
    <3> QED
      BY <2>3, <3>1, <3>2, <3>3
  <2> QED
    BY <2>1, <2>2, <2>3
<1>2. PICK r \in Seq(Events) :
          /\ t = Append(r, e) /\ Len(r) < M
          /\ r = s \/ \E k : Without(r, s, k)
  BY <1>1
<1>3. /\ ToSet(r) \subseteq ToSet(s) /\ FramesIn(r) \subseteq FramesIn(s)
      /\ Sorted(s) => Sorted(r)
      /\ Sorted(s) => \A f \in FramesIn(s) :
             f \in FramesIn(r) \/ \A g \in FramesIn(r) : Number(f) < Number(g)
  <2>1. CASE r = s
    BY <2>1
  <2>2. ASSUME NEW k, Without(r, s, k)
        PROVE  /\ ToSet(r) \subseteq ToSet(s) /\ FramesIn(r) \subseteq FramesIn(s)
               /\ Sorted(s) => Sorted(r)
               /\ Sorted(s) => \A f \in FramesIn(s) :
                      f \in FramesIn(r) \/ \A g \in FramesIn(r) : Number(f) < Number(g)
    <3>1. \A f \in FramesIn(s) : IsFrame(f)
      BY DEF FramesIn
    <3> QED
      BY <2>2, <3>1, WithoutFacts
  <2> QED
    BY <1>2, <2>1, <2>2
<1>4. /\ t \in Seq(Events) /\ Len(t) = Len(r) + 1 /\ Len(r) \in Nat
      /\ ToSet(t) = ToSet(r) \cup {e}
      /\ FramesIn(t) = FramesIn(r) \cup ({e} \cap Frames)
  BY <1>2, AppendFacts, ItemFacts
<1>5. Sorted(s) /\ (IsFrame(e) => \A f \in FramesIn(s) : Number(f) < Number(e)) => Sorted(t)
  BY <1>2, <1>3, SortedAppend
<1>6. Sorted(s) => \A f \in FramesIn(s) :
          f \in FramesIn(t) \/ \A g \in FramesIn(t) : g = e \/ Number(f) < Number(g)
  BY <1>3, <1>4
<1> QED
  BY <1>2, <1>3, <1>4, <1>5, <1>6

\* What a publishing thread does to the bus, whatever it publishes.
LEMMA PublishFacts ==
    ASSUME TypeOK, NEW p \in Publishers, NEW e \in Events, Publish(p, e)
    PROVE  /\ bus' \in Seq(Events) /\ Len(bus') <= BusMax
           /\ FramesIn(bus') \subseteq FramesIn(bus) \cup ({e} \cap Frames)
           /\ e \in ToSet(bus') \/ (bus' = bus /\ FramesIn(bus) = {} /\ e \in Frames)
           /\ bus = <<>> => e \in ToSet(bus')
           /\ Sorted(bus) /\ (e \in Frames => \A f \in FramesIn(bus) : Number(f) < Number(e))
                  => Sorted(bus')
           /\ Sorted(bus) => \A f \in FramesIn(bus) :
                  \/ f \in FramesIn(bus')
                  \/ \A g \in FramesIn(bus') : g = e \/ Number(f) < Number(g)
           /\ ~signalling[p] /\ signalling' = [signalling EXCEPT ![p] = (e \in ToSet(bus'))]
           /\ overflow' \in [Clients -> BOOLEAN]
           /\ \A c \in Clients : Registered(c) /\ ~overflow'[c] =>
                  /\ ~overflow[c]
                  /\ FramesIn(bus') = FramesIn(bus) \cup ({e} \cap Frames)
<1>1. /\ bus \in Seq(Events) /\ Len(bus) <= BusMax /\ Len(bus) \in Nat
      /\ BusMax \in Nat \ {0}
  BY TypeFacts
<1>2. /\ ~signalling[p] /\ bus' = BusWith(e)
      /\ signalling' = [signalling EXCEPT ![p] = (e \in ToSet(bus'))]
      /\ overflow' = [c \in Clients |->
                         overflow[c] \/ (Registered(c)
                             /\ ~(FramesIn(bus) \cup ({e} \ {Note}) \subseteq ToSet(bus')))]
  BY DEF Publish
<1>3. IsFrame(e) <=> e \in Frames
  BY ItemFacts
<1> DEFINE kept == RemoveFirstMatch(bus, IsFrame)
           full == bus' = bus /\ FramesIn(bus) = {} /\ e \in Frames /\ bus # <<>>
<1>4. \/ full
      \/ Len(bus) < BusMax /\ bus' = Append(bus, e)
      \/ bus # <<>> /\ bus' = Append(Tail(bus), e)
      \/ FramesIn(bus) # {} /\ bus' = Append(kept, e)
  <2>1. Len(bus) >= BusMax => bus # <<>>
    BY <1>1, Members
  <2>2. CASE Len(bus) < BusMax
    <3>1. BusWith(e) = Append(bus, e)
      <4>1. ~(Len(bus) >= BusMax /\ ~IsFrame(e))
        BY <1>1, <2>2
      <4> QED
        BY <2>2, <4>1 DEF BusWith
    <3> QED
      BY <1>2, <2>2, <3>1
  <2>3. CASE Len(bus) >= BusMax /\ ~IsFrame(e)
    <3>1. BusWith(e) = Append(Tail(bus), e)
      BY <1>1, <2>3 DEF BusWith
    <3> QED
      BY <1>2, <2>1, <2>3, <3>1
  <2>4. CASE Len(bus) >= BusMax /\ IsFrame(e)
    <3>1. BusWith(e) = IF FramesIn(bus) = {} THEN bus ELSE Append(kept, e)
      BY <1>1, <2>4 DEF BusWith
    <3> HIDE DEF kept
    <3> QED
      BY <1>2, <1>3, <2>1, <2>4, <3>1
  <2>5. Len(bus) < BusMax \/ Len(bus) >= BusMax
    BY <1>1
  <2> HIDE DEF kept, full
  <2> QED
    BY <2>2, <2>3, <2>4, <2>5
<1>5. /\ bus' \in Seq(Events) /\ Len(bus') <= BusMax
      /\ FramesIn(bus') \subseteq FramesIn(bus) \cup ({e} \cap Frames)
      /\ e \in ToSet(bus') \/ (bus' = bus /\ FramesIn(bus) = {} /\ e \in Frames)
      /\ bus = <<>> => e \in ToSet(bus')
      /\ Sorted(bus) /\ (e \in Frames => \A f \in FramesIn(bus) : Number(f) < Number(e))
             => Sorted(bus')
      /\ Sorted(bus) => \A f \in FramesIn(bus) :
             \/ f \in FramesIn(bus')
             \/ \A g \in FramesIn(bus') : g = e \/ Number(f) < Number(g)
  <2>1. CASE full
    BY <1>1, <2>1
  <2>2. CASE ~full
    <3>1. \/ Len(bus) < BusMax /\ bus' = Append(bus, e)
          \/ bus # <<>> /\ bus' = Append(Tail(bus), e)
          \/ FramesIn(bus) # {} /\ bus' = Append(RemoveFirstMatch(bus, IsFrame), e)
      <4> HIDE DEF full
      <4> QED
        BY <1>4, <2>2
    <3>2. /\ bus' \in Seq(Events) /\ Len(bus') <= BusMax
          /\ e \in ToSet(bus')
          /\ FramesIn(bus') \subseteq FramesIn(bus) \cup ({e} \cap Frames)
          /\ Sorted(bus) /\ (IsFrame(e) => \A f \in FramesIn(bus) : Number(f) < Number(e))
                 => Sorted(bus')
          /\ Sorted(bus) => \A f \in FramesIn(bus) :
                 f \in FramesIn(bus') \/ \A g \in FramesIn(bus') : g = e \/ Number(f) < Number(g)
      BY <1>1, <3>1, PutFacts
    <3> QED
      BY <1>3, <3>2
  <2> QED
    BY <2>1, <2>2
<1>6. overflow' \in [Clients -> BOOLEAN]
  <2>1. \A c \in Clients : overflow[c] \in BOOLEAN
    BY DEF TypeOK
  <2> QED
    BY <1>2, <2>1
<1>7. ASSUME NEW c \in Clients, Registered(c), ~overflow'[c]
      PROVE  ~overflow[c] /\ FramesIn(bus') = FramesIn(bus) \cup ({e} \cap Frames)
  <2>1. ~overflow[c] /\ FramesIn(bus) \cup ({e} \ {Note}) \subseteq ToSet(bus')
    BY <1>2, <1>7
  <2>2. \A f \in FramesIn(bus) \cup ({e} \cap Frames) : f \in ToSet(bus') /\ IsFrame(f)
    BY <2>1, FrameFacts DEF FramesIn
  <2> QED
    BY <1>5, <2>1, <2>2 DEF FramesIn
<1> QED
  BY <1>2, <1>5, <1>6, <1>7

\* No wake-up is lost: the new event is signalled by its own publisher.
LEMMA PublishWakes ==
    ASSUME TypeOK, WakeUpComes, NEW p \in Publishers, NEW e \in Events, Publish(p, e),
           UNCHANGED <<wake, taker>>
    PROVE  WakeUpComes'
<1> SUFFICES ASSUME bus' # <<>>, taker = "waiting"
             PROVE  wake \/ due' \/ \E q \in Publishers : signalling'[q]
  BY DEF WakeUpComes
<1>1. due' = due /\ signalling \in [Publishers -> BOOLEAN]
  BY DEF Publish, TypeOK
<1>2. /\ bus = <<>> => e \in ToSet(bus')
      /\ ~signalling[p] /\ signalling' = [signalling EXCEPT ![p] = (e \in ToSet(bus'))]
  BY PublishFacts
<1>3. CASE bus = <<>>
  <2>1. signalling'[p] = (e \in ToSet(bus'))
    BY <1>1, <1>2
  <2> QED
    BY <1>2, <1>3, <2>1
<1>4. CASE bus # <<>>
  <2>1. wake \/ due \/ \E q \in Publishers : signalling[q]
    BY <1>4 DEF WakeUpComes
  <2>2. \A q \in Publishers : q # p => signalling'[q] = signalling[q]
    BY <1>1, <1>2
  <2> QED
    BY <1>1, <1>2, <2>1, <2>2
<1> QED
  BY <1>3, <1>4

\* A frame is newer than all frames before it, and RGB0 alone starts an action.
LEMMA NextFrameFacts ==
    ASSUME TypeOK, BusInv, NEW f \in NextFrames
    PROVE  /\ f \in Frames /\ Number(newest) < Number(f)
           /\ f.index # 0 => /\ f.action = latest.action /\ latest \in Frames
                             /\ Number(latest) < Number(f)
<1>1. f \in Frames /\ newest \in Frames \cup {NoFrame} /\ latest \in Frames \cup {NoFrame}
  BY TypeFacts DEF NextFrames
<1>2. CASE newest = NoFrame
  <2>1. Number(newest) = -1 /\ newest.action = -1 /\ f.action \in Nat /\ Number(f) \in Nat
    BY <1>1, <1>2, FrameFacts, NoFrameFacts
  <2>2. f.index = 0
    BY <1>2, <2>1 DEF NextFrames, Source!Follows
  <2> QED
    BY <1>1, <2>1, <2>2
<1>3. CASE newest \in Frames
  <2>1. /\ newest.action \in Nat /\ newest.index \in Nat /\ f.action \in Nat /\ f.index \in Nat
        /\ \/ f.index = 0 /\ f.action > newest.action
           \/ f.action = newest.action /\ f.index = newest.index + 1
    BY <1>1, <1>3, FrameFacts DEF NextFrames, Source!Follows
  <2>2. Number(newest) < Number(f)
    BY <1>1, <1>3, <2>1, NumberOrder
  <2>3. latest \in Frames /\ latest.index = 0
    <3>1. latest.action \in Nat
      BY <2>1 DEF BusInv
    <3> QED
      BY <1>1, <3>1, NoFrameFacts DEF BusInv
  <2>4. f.index # 0 => f.action = latest.action /\ Number(latest) < Number(f)
    <3> SUFFICES ASSUME f.index # 0
                 PROVE  f.action = latest.action /\ Number(latest) < Number(f)
      OBVIOUS
    <3>1. f.action = latest.action /\ latest.index < f.index
      BY <2>1, <2>3 DEF BusInv
    <3> QED
      BY <1>1, <2>3, <3>1, NumberOrder
  <2> QED
    BY <1>1, <2>2, <2>3, <2>4
<1> QED
  BY <1>1, <1>2, <1>3

LEMMA PublishStep ==
    ASSUME IInv, NEW p \in Publishers, NEW e \in Events, Publish(p, e), notes' \in 0..NoteMax,
           \/ e = Note /\ UNCHANGED <<newest, latest>>
           \/ e \in NextFrames /\ newest' = e /\ latest' = IF e.index = 0 THEN e ELSE latest,
           UNCHANGED <<wake, taker, conn, out, wire, page, got, greeting>>
    PROVE  IInv'
<1>1. TypeOK /\ WakeUpComes /\ BusInv
  BY DEF IInv
<1>2. /\ e \in Frames => e \in NextFrames /\ newest' = e /\ Number(newest) < Number(e)
      /\ e \notin Frames => UNCHANGED <<newest, latest>>
      /\ e \in Frames /\ e.index = 0 => latest' = e
      /\ e \in Frames /\ e.index # 0 => /\ latest' = latest /\ e.action = latest.action
                                        /\ Number(latest) < Number(e)
  BY <1>1, NextFrameFacts, NoFrameFacts, ItemFacts, FrameFacts
<1>3. /\ bus' \in Seq(Events) /\ Len(bus') <= BusMax
      /\ FramesIn(bus') \subseteq FramesIn(bus) \cup ({e} \cap Frames)
      /\ e \in ToSet(bus') \/ (bus' = bus /\ FramesIn(bus) = {} /\ e \in Frames)
      /\ Sorted(bus) /\ (e \in Frames => \A f \in FramesIn(bus) : Number(f) < Number(e))
             => Sorted(bus')
      /\ Sorted(bus) => \A f \in FramesIn(bus) :
             \/ f \in FramesIn(bus')
             \/ \A g \in FramesIn(bus') : g = e \/ Number(f) < Number(g)
      /\ ~signalling[p] /\ signalling' = [signalling EXCEPT ![p] = (e \in ToSet(bus'))]
      /\ overflow' \in [Clients -> BOOLEAN]
      /\ \A c \in Clients : Registered(c) /\ ~overflow'[c] =>
             /\ ~overflow[c]
             /\ FramesIn(bus') = FramesIn(bus) \cup ({e} \cap Frames)
  BY <1>1, PublishFacts
<1>4. newest' \in Frames \cup {NoFrame} /\ latest' \in Frames \cup {NoFrame}
  BY <1>1, <1>2, TypeFacts
<1>5. /\ \A f \in Frames \cup {NoFrame} : Number(f) \in Int
      /\ \A f \in FramesIn(bus) : f \in Frames
  BY <1>1, TypeFacts, FrameFacts, NoFrameFacts
<1>6. \A f \in Frames \cup {NoFrame} :
          Number(f) <= Number(newest) => /\ Number(f) <= Number(newest')
                                         /\ e \in Frames => Number(f) < Number(e)
  <2>1. Number(newest) \in Int /\ Number(newest') \in Int
    BY <1>1, <1>4, <1>5, TypeFacts
  <2>2. Number(newest) <= Number(newest') /\ (e \in Frames => Number(newest) < Number(e))
    BY <1>2, <2>1
  <2> QED
    BY <1>5, <2>1, <2>2
<1>7. TypeOK'
  <2>1. signalling' \in [Publishers -> BOOLEAN] /\ due' \in BOOLEAN
    <3> DEFINE heard == e \in ToSet(bus')
    <3>1. heard \in BOOLEAN /\ due' = due
      BY DEF Publish
    <3> HIDE DEF heard
    <3> QED
      BY <1>1, <1>3, <3>1 DEF TypeOK, heard
  <2> QED
    BY <1>1, <1>3, <1>4, <2>1 DEF TypeOK, Events
<1>8. WakeUpComes'
  BY <1>1, PublishWakes
<1>9. BusInv'
  <2>1. Sorted(bus) /\ Passed(FramesIn(bus))
        /\ \A f \in FramesIn(bus) : Number(f) <= Number(newest)
    BY <1>1 DEF BusInv
  <2>2. Sorted(bus')
    BY <1>3, <1>5, <1>6, <2>1
  <2>3. \A f \in FramesIn(bus') : Number(f) <= Number(newest')
    <3>1. e \in Frames => Number(e) <= Number(newest')
      BY <1>2, <1>5
    <3> QED
      BY <1>3, <1>5, <1>6, <2>1, <3>1
  <2>4. latest'.action = newest'.action /\ (latest' # NoFrame => latest'.index = 0)
    BY <1>1, <1>2 DEF BusInv
  <2>5. Passed(FramesIn(bus))'
    <3>1. CASE e \in Frames /\ e.index = 0
      <4>1. e \in FramesIn(bus') \/ FramesIn(bus') = {}
        BY <1>3, <3>1, FrameFacts DEF FramesIn
      <4> QED
        BY <1>2, <3>1, <4>1 DEF Passed
    <3>2. CASE ~(e \in Frames /\ e.index = 0)
      <4>1. latest' = latest /\ (e \in Frames => Number(latest) < Number(e))
        BY <1>2, <3>2
      <4>2. CASE latest \in FramesIn(bus)
        BY <1>3, <1>5, <2>1, <4>1, <4>2 DEF Passed
      <4>3. CASE latest \notin FramesIn(bus)
        BY <1>3, <2>1, <4>1, <4>3 DEF Passed
      <4> QED
        BY <4>2, <4>3
    <3> QED
      BY <3>1, <3>2
  <2> QED
    BY <2>2, <2>3, <2>4, <2>5 DEF BusInv
<1>10. ASSUME NEW c \in Clients PROVE ClientInv(c)'
  <2> DEFINE S == Stream(c)
  <2>1. /\ FramesIn(out[c])' = FramesIn(out[c]) /\ FramesIn(wire[c])' = FramesIn(wire[c])
        /\ FramesIn(bus)' = FramesIn(bus')
        /\ \A f \in S \cup {got[c]} : f \in Frames \cup {NoFrame} /\ Number(f) <= Number(newest)
    BY <1>1, TypeFacts DEF IInv, ClientInv, StreamInv
  <2>2. /\ Stream(c)' \subseteq S \cup ({e} \cap Frames)
        /\ FramesIn(bus') = FramesIn(bus) \cup ({e} \cap Frames) =>
               Stream(c)' = S \cup ({e} \cap Frames)
    BY <1>3, <2>1 DEF Stream
  <2>3. \A f \in S \cup {got[c]} : /\ Number(f) <= Number(newest')
                                   /\ e \in Frames => Number(f) < Number(e)
    BY <1>6, <2>1
  <2>4. StreamInv(c)'
    <3>1. /\ Sorted(out[c])' /\ Sorted(wire[c])'
          /\ Below(FramesIn(wire[c]), FramesIn(out[c]))'
      BY <2>1 DEF IInv, ClientInv, StreamInv
    <3>2. Below(FramesIn(wire[c]) \cup FramesIn(out[c]), FramesIn(bus))'
      <4>1. Below(FramesIn(wire[c]) \cup FramesIn(out[c]), FramesIn(bus))
        BY DEF IInv, ClientInv, StreamInv
      <4>2. \A f \in FramesIn(wire[c]) \cup FramesIn(out[c]) : e \in Frames => Number(f) < Number(e)
        BY <2>3 DEF Stream
      <4> QED
        BY <1>3, <2>1, <4>1, <4>2 DEF Below
    <3>3. Below({got[c]}, Stream(c))'
      <4>1. Below({got[c]}, S)
        BY DEF IInv, ClientInv, StreamInv
      <4> QED
        BY <2>2, <2>3, <4>1 DEF Below
    <3>4. \A f \in Stream(c)' \cup {got'[c]} : Number(f) <= Number(newest')
      <4>1. e \in Frames => Number(e) <= Number(newest')
        BY <1>2, <1>5
      <4> QED
        BY <2>2, <2>3, <4>1
    <3> QED
      BY <3>1, <3>2, <3>3, <3>4 DEF StreamInv
  <2>5. PageInv(c)'
    BY DEF IInv, ClientInv, PageInv
  <2>6. NewestInv(c)'
    <3> SUFFICES ASSUME conn[c] \in {"status", "latest", "open"}, ~overflow'[c],
                        latest' # NoFrame
                 PROVE  /\ Passed(Stream(c))'
                        /\ latest' \notin Stream(c)' /\ conn[c] # "status" =>
                               \/ Latest(latest') \in ToSet(wire[c])
                               \/ page[c].current = latest'.action /\ page[c].shown # NoFrame
      BY DEF NewestInv
    <3>1. ~overflow[c] /\ Stream(c)' = S \cup ({e} \cap Frames)
      BY <1>3, <2>2 DEF Registered
    <3>2. CASE e \in Frames /\ e.index = 0
      BY <1>2, <3>1, <3>2 DEF Passed
    <3>3. CASE ~(e \in Frames /\ e.index = 0)
      <4>1. latest' = latest /\ (e \in Frames => Number(latest) < Number(e))
        BY <1>2, <3>3
      <4>2. /\ Passed(S)
            /\ latest \notin S /\ conn[c] # "status" =>
                   \/ Latest(latest) \in ToSet(wire[c])
                   \/ page[c].current = latest.action /\ page[c].shown # NoFrame
        BY <3>1, <4>1 DEF IInv, ClientInv, NewestInv
      <4> QED
        BY <3>1, <4>1, <4>2 DEF Passed
    <3> QED
      BY <3>2, <3>3
  <2> QED
    BY <2>4, <2>5, <2>6 DEF ClientInv
<1> QED
  BY <1>7, <1>8, <1>9, <1>10 DEF IInv

LEMMA PublishFrameStep == IInv /\ PublishFrame => IInv'
<1> SUFFICES ASSUME IInv, PublishFrame PROVE IInv'
  OBVIOUS
<1>1. PICK f \in NextFrames :
          /\ Publish("jpeg", f) /\ newest' = f
          /\ latest' = IF f.index = 0 THEN f ELSE latest
          /\ UNCHANGED <<notes, wake, taker, conn, out, wire, page, got, greeting>>
  BY DEF PublishFrame
<1>2. "jpeg" \in Publishers /\ f \in Events /\ notes' \in 0..NoteMax
  BY <1>1 DEF Publishers, Events, NextFrames, IInv, TypeOK
<1> QED
  BY <1>1, <1>2, PublishStep

LEMMA PublishNoteStep == IInv /\ PublishNote => IInv'
<1> SUFFICES ASSUME IInv, PublishNote PROVE IInv'
  OBVIOUS
<1>1. /\ Publish("other", Note) /\ notes' \in 0..NoteMax
      /\ UNCHANGED <<latest, newest, wake, taker, conn, out, wire, page, got, greeting>>
  <2>1. NoteMax \in Nat
    OBVIOUS
  <2> QED
    BY <2>1 DEF PublishNote, IInv, TypeOK
<1>2. "other" \in Publishers /\ Note \in Events
  BY DEF Publishers, Events
<1> QED
  BY <1>1, <1>2, PublishStep

-----------------------------------------------------------------------------
(* The broadcast *)

\* What a client's queue is after an event was put to it.
LEMMA PutKeeps ==
    ASSUME NEW s \in Seq(Events), Len(s) <= OutMax, NEW e \in Events
    PROVE  /\ Put(s, e) \in Seq(Events) /\ Len(Put(s, e)) <= OutMax
           /\ e \in ToSet(Put(s, e))
           /\ FramesIn(Put(s, e)) \subseteq FramesIn(s) \cup ({e} \cap Frames)
           /\ Sorted(s) /\ (IsFrame(e) => \A f \in FramesIn(s) : Number(f) < Number(e))
                  => Sorted(Put(s, e))
<1> DEFINE t == Put(s, e)
           kept == RemoveFirstMatch(s, IsFrame)
<1>1. Len(s) \in Nat /\ OutMax \in Nat \ {0} /\ (s = <<>> <=> Len(s) = 0)
  BY Members
<1>2. \/ Len(s) < OutMax /\ t = Append(s, e)
      \/ s # <<>> /\ t = Append(Tail(s), e)
      \/ FramesIn(s) # {} /\ t = Append(kept, e)
  <2>1. CASE Len(s) < OutMax
    <3>1. ~(FramesIn(s) # {} /\ Len(s) >= OutMax)
      BY <1>1, <2>1
    <3> QED
      BY <2>1, <3>1 DEF Put
  <2>2. CASE FramesIn(s) # {} /\ Len(s) >= OutMax
    <3>1. ~(Len(s) < OutMax)
      BY <1>1, <2>2
    <3> QED
      BY <2>2, <3>1 DEF Put
  <2>3. CASE ~(Len(s) < OutMax) /\ ~(FramesIn(s) # {} /\ Len(s) >= OutMax)
    BY <1>1, <2>3 DEF Put
  <2> HIDE DEF t, kept
  <2> QED
    BY <2>1, <2>2, <2>3
<1>3. ASSUME NEW r, r = t
      PROVE  /\ r \in Seq(Events) /\ Len(r) <= OutMax
             /\ e \in ToSet(r)
             /\ FramesIn(r) \subseteq FramesIn(s) \cup ({e} \cap Frames)
             /\ Sorted(s) /\ (IsFrame(e) => \A f \in FramesIn(s) : Number(f) < Number(e))
                    => Sorted(r)
  <2>1. \/ Len(s) < OutMax /\ r = Append(s, e)
        \/ s # <<>> /\ r = Append(Tail(s), e)
        \/ FramesIn(s) # {} /\ r = Append(RemoveFirstMatch(s, IsFrame), e)
    <3> HIDE DEF t
    <3> QED
      BY <1>2, <1>3
  <2> QED
    BY <1>1, <2>1, PutFacts
<1> QED
  BY <1>3

LEMMA BroadcastStep == IInv /\ Broadcast => IInv'
<1> SUFFICES ASSUME IInv, Broadcast PROVE IInv'
  OBVIOUS
<1> DEFINE e == Head(bus)
<1>1. /\ taker = "check" /\ bus # <<>> /\ bus' = Tail(bus)
      /\ out' = [c \in Clients |-> IF Registered(c) THEN Put(out[c], e) ELSE out[c]]
      /\ overflow' = [c \in Clients |->
                         overflow[c] \/ ~(FramesIn(out[c]) \subseteq ToSet(out'[c]))]
      /\ UNCHANGED <<latest, signalling, newest, notes, due, wake, taker, conn, wire, page,
                     got, greeting>>
  BY DEF Broadcast, loopVars
<1>2. /\ TypeOK /\ BusInv
      /\ bus \in Seq(Events) /\ Len(bus) \in Nat \ {0} /\ Len(bus) <= BusMax
      /\ e \in Events /\ e = bus[1]
      /\ bus' \in Seq(Events) /\ Without(bus', bus, 1)
      /\ IsFrame(e) <=> e \in Frames
  BY <1>1, TypeFacts, TailFacts, ItemFacts DEF IInv
<1>3. e \in ToSet(bus)
  BY <1>2, Members
<1> HIDE DEF e
<1>4. /\ Sorted(bus') /\ Len(bus') <= BusMax
      /\ FramesIn(bus') \subseteq FramesIn(bus)
      /\ FramesIn(bus) \subseteq FramesIn(bus') \cup {e}
      /\ IsFrame(e) => e \in FramesIn(bus) /\ \A f \in FramesIn(bus') : Number(e) < Number(f)
      /\ ~IsFrame(e) => FramesIn(bus) \subseteq FramesIn(bus')
  <2>1. Sorted(bus)
    BY <1>2 DEF BusInv
  <2>2. /\ Sorted(bus')
        /\ FramesIn(bus') \subseteq FramesIn(bus)
        /\ FramesIn(bus) \subseteq FramesIn(bus') \cup {e}
        /\ IsFrame(e) => \A f \in FramesIn(bus') : Number(e) < Number(f)
    BY <1>2, <2>1, WithoutFacts
  <2>3. Len(bus') <= BusMax
    BY <1>2 DEF Without
  <2> QED
    BY <1>3, <2>2, <2>3 DEF FramesIn
<1>5. ASSUME NEW c \in Clients
      PROVE  /\ out'[c] \in Seq(Events) /\ Len(out'[c]) <= OutMax /\ Sorted(out'[c])
             /\ FramesIn(out'[c]) \subseteq FramesIn(out[c]) \cup ({e} \cap Frames)
             /\ Registered(c) => e \in ToSet(out'[c])
             /\ ~Registered(c) => out'[c] = out[c]
  <2>1. out[c] \in Seq(Events) /\ Len(out[c]) <= OutMax /\ Sorted(out[c])
    BY <1>2, TypeFacts DEF IInv, ClientInv, StreamInv
  <2>2. IsFrame(e) => \A f \in FramesIn(out[c]) : Number(f) < Number(e)
    BY <1>4 DEF IInv, ClientInv, StreamInv, Below
  <2>3. CASE Registered(c)
    BY <1>1, <1>2, <2>1, <2>2, <2>3, PutKeeps, ZenonT(60)
  <2>4. CASE ~Registered(c)
    BY <1>1, <2>1, <2>4
  <2> QED
    BY <2>3, <2>4
<1>6. TypeOK'
  <2>1. out' \in [Clients -> Seq(Frames \cup {Note})]
    BY <1>1, <1>5 DEF Events
  <2>2. overflow' \in [Clients -> BOOLEAN]
    BY <1>1, <1>2 DEF TypeOK
  <2> QED
    BY <1>1, <1>2, <1>4, <1>5, <2>1, <2>2 DEF TypeOK, Events
<1>7. WakeUpComes'
  BY <1>1 DEF WakeUpComes
<1>8. BusInv'
  <2>1. Passed(FramesIn(bus))'
    <3>1. Passed(FramesIn(bus)) /\ (IsFrame(e) \/ FramesIn(bus) \subseteq FramesIn(bus'))
      BY <1>2, <1>4 DEF BusInv
    <3> QED
      BY <1>1, <1>4, <3>1 DEF Passed
  <2> QED
    BY <1>1, <1>2, <1>4, <2>1 DEF BusInv
<1>9. ASSUME NEW c \in Clients PROVE ClientInv(c)'
  <2>1. /\ Stream(c)' \subseteq Stream(c)
        /\ FramesIn(wire[c])' = FramesIn(wire[c])
    BY <1>1, <1>2, <1>4, <1>5 DEF Stream, FramesIn
  <2>2. StreamInv(c)'
    <3>1. /\ Sorted(wire[c]) /\ Below(FramesIn(wire[c]), FramesIn(out[c]))
          /\ Below(FramesIn(wire[c]) \cup FramesIn(out[c]), FramesIn(bus))
          /\ Below({got[c]}, Stream(c))
          /\ \A f \in Stream(c) \cup {got[c]} : Number(f) <= Number(newest)
      BY DEF IInv, ClientInv, StreamInv
    <3>2. Below(FramesIn(wire[c]), FramesIn(out'[c]))
      BY <1>2, <1>4, <1>5, <3>1 DEF Below
    <3>3. Below(FramesIn(wire[c]) \cup FramesIn(out'[c]), FramesIn(bus'))
      BY <1>2, <1>4, <1>5, <3>1 DEF Below
    <3>4. Below({got[c]}, Stream(c)') /\ \A f \in Stream(c)' \cup {got[c]} : Number(f) <= Number(newest)
      BY <2>1, <3>1 DEF Below
    <3> QED
      BY <1>1, <1>5, <2>1, <3>1, <3>2, <3>3, <3>4 DEF StreamInv
  <2>3. PageInv(c)'
    <3>1. conn[c] = "away" => out'[c] = <<>>
      <4>1. conn[c] = "away" => ~Registered(c) /\ out[c] = <<>>
        BY DEF IInv, ClientInv, PageInv, Registered
      <4> QED
        BY <1>5, <4>1
    <3> QED
      BY <1>1, <3>1 DEF IInv, ClientInv, PageInv
  <2>4. NewestInv(c)'
    <3> SUFFICES ASSUME conn[c] \in {"status", "latest", "open"}, ~overflow'[c],
                        latest # NoFrame
                 PROVE  NewestInv(c)'
      BY <1>1 DEF NewestInv
    <3>1. ~overflow[c] /\ FramesIn(out[c]) \subseteq ToSet(out'[c]) /\ e \in ToSet(out'[c])
      BY <1>1, <1>5 DEF Registered
    <3>2. Stream(c)' = Stream(c)
      <4>1. Stream(c) \subseteq Stream(c)'
        BY <1>1, <1>4, <2>1, <3>1 DEF Stream, FramesIn
      <4> QED
        BY <2>1, <4>1
    <3> QED
      BY <1>1, <3>1, <3>2 DEF IInv, ClientInv, NewestInv, Passed
  <2> QED
    BY <2>2, <2>3, <2>4 DEF ClientInv
<1> QED
  BY <1>6, <1>7, <1>8, <1>9 DEF IInv

-----------------------------------------------------------------------------
(* The websocket handler *)

\* A step of one client leaves the bus, the loop and the others alone.
LEMMA OneClient ==
    ASSUME IInv, NEW c \in Clients, UNCHANGED <<busVars, loopVars>>, TypeOK', ClientInv(c)',
           \A d \in Clients : d # c =>
               /\ conn'[d] = conn[d] /\ out'[d] = out[d] /\ wire'[d] = wire[d]
               /\ page'[d] = page[d] /\ got'[d] = got[d] /\ greeting'[d] = greeting[d]
               /\ overflow'[d] = overflow[d]
    PROVE  IInv'
<1>1. WakeUpComes' /\ BusInv'
  BY QuietBus DEF IInv, WakeUpComes, busVars, loopVars
<1>2. ASSUME NEW d \in Clients PROVE ClientInv(d)'
  <2>1. CASE d = c
    BY <2>1
  <2>2. CASE d # c
    BY <2>2, QuietClient DEF IInv, busVars
  <2> QED
    BY <2>1, <2>2
<1> QED
  BY <1>1, <1>2 DEF IInv

LEMMA NoteAlone ==
    /\ <<Note>> \in Seq(Items) /\ FramesIn(<<Note>>) = {} /\ Sorted(<<Note>>)
    /\ Len(<<Note>>) = 1 /\ <<Note>>[1] = Note
<1>1. Note \in Items /\ ~IsFrame(Note)
  BY ItemFacts, NoFrameFacts
<1> DEFINE s == <<Note>>
<1>2. s \in Seq(Items) /\ Len(s) = 1 /\ s[1] = Note
  BY <1>1
<1> HIDE DEF s
<1>3. \A i \in 1..Len(s) : s[i] = Note
  BY <1>2
<1>4. FramesIn(s) = {}
  BY <1>1, <1>2, <1>3, Members
<1>5. Sorted(s)
  BY <1>1, <1>3 DEF Sorted
<1> QED
  BY <1>2, <1>4, <1>5 DEF s

LEMMA ConnectStep == ASSUME IInv, NEW c \in Clients, Connect(c) PROVE IInv'
<1>1. TypeOK /\ BusInv /\ ClientInv(c)
  BY DEF IInv
<1>2. /\ conn[c] = "away" /\ out[c] = <<>> /\ wire[c] = <<>>
      /\ page[c] = BlankPage /\ got[c] = NoFrame /\ greeting[c] = NoFrame
      /\ conn'[c] = "status" /\ wire'[c] = <<Note>>
      /\ UNCHANGED <<busVars, loopVars, out, page, got, greeting, overflow>>
  BY <1>1 DEF Connect, ClientInv, PageInv, TypeOK
<1>3. TypeOK'
  <2>1. conn' \in [Clients -> {"away", "status", "latest", "open", "closed", "leaked"}]
        /\ wire' \in [Clients -> Seq(Items)]
    BY <1>1, NoteAlone DEF Connect, TypeOK
  <2> QED
    BY <1>1, <1>2, <2>1 DEF TypeOK, busVars, loopVars
<1>4. ClientInv(c)'
  <2>1. /\ Stream(c)' = FramesIn(bus) /\ FramesIn(wire[c])' = {} /\ FramesIn(out[c])' = {}
        /\ Stream(c) = FramesIn(bus)
    BY <1>2, EmptyFacts, NoteAlone DEF Stream, busVars
  <2>2. StreamInv(c)'
    BY <1>1, <1>2, <2>1, NoteAlone DEF ClientInv, StreamInv, Below, busVars
  <2>3. PageInv(c)'
    <3>1. \A i \in 1..Len(wire'[c]) : wire'[c][i] = Note
      BY <1>2, NoteAlone
    <3>2. Note.kind # "latest"
      BY ItemFacts
    <3> QED
      BY <1>1, <1>2, <3>1, <3>2 DEF ClientInv, PageInv
  <2>4. NewestInv(c)'
    BY <1>1, <1>2, <2>1 DEF BusInv, NewestInv, Passed, busVars
  <2> QED
    BY <2>2, <2>3, <2>4 DEF ClientInv
<1>5. \A d \in Clients : d # c => conn'[d] = conn[d] /\ wire'[d] = wire[d]
  BY <1>1 DEF Connect, TypeOK
<1> QED
  BY <1>2, <1>3, <1>4, <1>5, OneClient

LEMMA GreetStep == ASSUME IInv, NEW c \in Clients, Greet(c) PROVE IInv'
<1> DEFINE w == IF latest = NoFrame THEN wire[c] ELSE Append(wire[c], Latest(latest))
<1>1. TypeOK /\ BusInv /\ ClientInv(c)
  BY DEF IInv
<1>2. /\ conn[c] = "status" /\ page[c] = BlankPage /\ got[c] = NoFrame /\ greeting[c] = NoFrame
      /\ \A i \in 1..Len(wire[c]) : wire[c][i] = Note
      /\ conn' = [conn EXCEPT ![c] = IF latest = NoFrame THEN "open" ELSE "latest"]
      /\ wire' = [wire EXCEPT ![c] = w]
      /\ greeting' = [greeting EXCEPT ![c] = latest]
      /\ UNCHANGED <<busVars, loopVars, out, page, got, overflow>>
  <2>1. greeting \in [Clients -> Frames \cup {NoFrame}] /\ wire \in [Clients -> Seq(Items)]
    BY <1>1 DEF TypeOK
  <2>2. conn[c] = "status" /\ greeting[c] = NoFrame
    BY <1>1 DEF Greet, ClientInv, PageInv
  <2> QED
    BY <1>1, <2>1, <2>2 DEF Greet, ClientInv, PageInv
<1>3. /\ w \in Seq(Items) /\ FramesIn(w) = FramesIn(wire[c]) /\ Sorted(w)
      /\ \A i \in 1..Len(w) : \/ w[i] = Note
                              \/ i = Len(w) /\ latest # NoFrame /\ w[i] = Latest(latest)
      /\ latest # NoFrame => Latest(latest) \in ToSet(w)
  <2>1. wire[c] \in Seq(Items) /\ Sorted(wire[c]) /\ latest \in Frames \cup {NoFrame}
    BY <1>1, TypeFacts DEF ClientInv, StreamInv
  <2>2. CASE latest = NoFrame
    BY <1>2, <2>1, <2>2
  <2>3. CASE latest # NoFrame
    <3>1. Latest(latest) \in Items /\ ~IsFrame(Latest(latest))
      BY <2>1, <2>3, ItemFacts DEF IsFrame
    <3>2. w = Append(wire[c], Latest(latest))
      BY <2>3
    <3> HIDE DEF w
    <3>3. Sorted(w)
      BY <2>1, <3>1, <3>2, SortedAppend
    <3>4. /\ w \in Seq(Items) /\ FramesIn(w) = FramesIn(wire[c])
          /\ Len(w) = Len(wire[c]) + 1 /\ Len(wire[c]) \in Nat
          /\ \A i \in 1..(Len(wire[c]) + 1) :
                 w[i] = IF i <= Len(wire[c]) THEN wire[c][i] ELSE Latest(latest)
          /\ Latest(latest) \in ToSet(w)
      BY <2>1, <3>1, <3>2, AppendFacts
    <3> QED
      BY <1>2, <2>3, <3>3, <3>4, SMTT(30)
  <2> QED
    BY <2>2, <2>3
<1> HIDE DEF w
<1>4. TypeOK'
  <2>1. /\ conn' \in [Clients -> {"away", "status", "latest", "open", "closed", "leaked"}]
        /\ wire' \in [Clients -> Seq(Items)]
        /\ greeting' \in [Clients -> Frames \cup {NoFrame}]
    BY <1>1, <1>2, <1>3 DEF TypeOK
  <2> QED
    BY <1>1, <1>2, <2>1, SMTT(30) DEF TypeOK, busVars, loopVars
<1>5. /\ conn'[c] = (IF latest = NoFrame THEN "open" ELSE "latest")
      /\ wire'[c] = w /\ greeting'[c] = latest
      /\ \A d \in Clients : d # c => /\ conn'[d] = conn[d] /\ wire'[d] = wire[d]
                                     /\ greeting'[d] = greeting[d]
  BY <1>1, <1>2 DEF TypeOK
<1>6. ClientInv(c)'
  <2>1. /\ Stream(c)' = Stream(c) /\ FramesIn(wire[c])' = FramesIn(wire[c])
        /\ FramesIn(out[c])' = FramesIn(out[c]) /\ FramesIn(bus)' = FramesIn(bus)
    BY <1>2, <1>3, <1>5 DEF Stream, busVars
  <2>2. StreamInv(c)'
    BY <1>1, <1>2, <1>3, <1>5, <2>1 DEF ClientInv, StreamInv, busVars
  <2>3. PageInv(c)'
    <3>1. \A i \in 1..Len(w) : w[i].kind = "latest" =>
              /\ w[i] = Latest(latest) /\ latest # NoFrame
              /\ \A j \in 1..(i - 1) : w[j] = Note
      <4>1. Len(w) \in Nat /\ Note.kind # "latest"
        BY <1>3, ItemFacts
      <4>2. ASSUME NEW i \in 1..Len(w), w[i].kind = "latest"
            PROVE  /\ i = Len(w) /\ w[i] = Latest(latest) /\ latest # NoFrame
        BY <1>3, <4>1, <4>2
      <4>3. ASSUME NEW j \in 1..(Len(w) - 1) PROVE w[j] = Note
        BY <1>3, <4>1
      <4> QED
        BY <4>1, <4>2, <4>3
    <3>2. latest # NoFrame => latest.index = 0
      BY <1>1 DEF BusInv
    <3>3. /\ BlankPage.shown = NoFrame /\ BlankPage.tails = <<>>
          /\ ToSet(<<>>) = {} /\ Sorted(<<>>)
      BY EmptyFacts DEF BlankPage, Sorted
    <3> QED
      BY <1>2, <1>5, <3>1, <3>2, <3>3 DEF PageInv
  <2>4. NewestInv(c)'
    <3>1. conn[c] \in {"status", "latest", "open"}
      BY <1>2
    <3> QED
      BY <1>1, <1>2, <1>3, <1>5, <2>1, <3>1 DEF ClientInv, NewestInv, Passed, busVars
  <2> QED
    BY <2>2, <2>3, <2>4 DEF ClientInv
<1> QED
  BY <1>2, <1>4, <1>5, <1>6, OneClient

LEMMA OpenStep == ASSUME IInv, NEW c \in Clients, Open(c) PROVE IInv'
<1>1. TypeOK /\ ClientInv(c)
  BY DEF IInv
<1>2. /\ conn[c] = "latest" /\ conn'[c] = "open"
      /\ UNCHANGED <<busVars, loopVars, out, wire, page, got, greeting, overflow>>
      /\ \A d \in Clients : d # c => conn'[d] = conn[d]
  BY <1>1 DEF Open, TypeOK
<1>3. TypeOK'
  <2>1. conn' \in [Clients -> {"away", "status", "latest", "open", "closed", "leaked"}]
    BY <1>1 DEF Open, TypeOK
  <2> QED
    BY <1>1, <1>2, <2>1 DEF TypeOK, busVars, loopVars
<1>4. ClientInv(c)'
  <2>1. Stream(c)' = Stream(c)
    BY <1>2 DEF Stream, busVars
  <2>2. StreamInv(c)' /\ PageInv(c)'
    BY <1>1, <1>2, <2>1 DEF ClientInv, StreamInv, PageInv, busVars
  <2>3. NewestInv(c)'
    BY <1>1, <1>2, <2>1 DEF ClientInv, NewestInv, Passed, busVars
  <2> QED
    BY <2>2, <2>3 DEF ClientInv
<1> QED
  BY <1>2, <1>3, <1>4, OneClient

LEMMA SendStep == ASSUME IInv, NEW c \in Clients, Send(c) PROVE IInv'
<1> DEFINE e == Head(out[c])
           w == Append(wire[c], e)
           o == Tail(out[c])
<1>1. TypeOK /\ ClientInv(c)
  BY DEF IInv
<1>2. /\ conn[c] = "open" /\ out[c] # <<>>
      /\ wire' = [wire EXCEPT ![c] = w] /\ out' = [out EXCEPT ![c] = o]
      /\ UNCHANGED <<busVars, loopVars, conn, page, got, greeting, overflow>>
  BY DEF Send
<1>3. /\ wire'[c] = w /\ out'[c] = o
      /\ \A d \in Clients : d # c => wire'[d] = wire[d] /\ out'[d] = out[d]
  BY <1>1, <1>2 DEF TypeOK
<1>4. /\ out[c] \in Seq(Events) /\ Len(out[c]) <= OutMax /\ wire[c] \in Seq(Items)
      /\ e \in Events /\ e \in Items /\ e = out[c][1]
      /\ o \in Seq(Events) /\ Without(o, out[c], 1) /\ Len(out[c]) \in Nat \ {0}
  BY <1>1, <1>2, TypeFacts, TailFacts, ItemFacts
<1>5. /\ w \in Seq(Items) /\ Len(w) = Len(wire[c]) + 1 /\ Len(wire[c]) \in Nat
      /\ \A i \in 1..(Len(wire[c]) + 1) : w[i] = IF i <= Len(wire[c]) THEN wire[c][i] ELSE e
      /\ ToSet(wire[c]) \subseteq ToSet(w)
      /\ IsFrame(e) => FramesIn(w) = FramesIn(wire[c]) \cup {e}
      /\ ~IsFrame(e) => FramesIn(w) = FramesIn(wire[c])
  <2> HIDE DEF e
  <2> QED
    BY <1>4, AppendFacts, SMTT(30)
<1>6. IsFrame(e) => e \in FramesIn(out[c])
  BY <1>4, Members
<1>7. /\ Sorted(out[c]) /\ Sorted(wire[c])
      /\ Below(FramesIn(wire[c]), FramesIn(out[c]))
      /\ Below(FramesIn(wire[c]) \cup FramesIn(out[c]), FramesIn(bus))
      /\ Below({got[c]}, Stream(c))
      /\ \A f \in Stream(c) \cup {got[c]} : Number(f) <= Number(newest)
  BY <1>1 DEF ClientInv, StreamInv
<1>8. Sorted(w)
  <2>1. IsFrame(e) => \A f \in FramesIn(wire[c]) : Number(f) < Number(e)
    BY <1>6, <1>7 DEF Below
  <2> HIDE DEF e
  <2> QED
    BY <1>4, <1>7, <2>1, SortedAppend
<1> HIDE DEF e, w, o
<1>9. /\ Sorted(o) /\ FramesIn(o) \subseteq FramesIn(out[c])
      /\ FramesIn(out[c]) \subseteq FramesIn(o) \cup {e}
      /\ IsFrame(e) => \A f \in FramesIn(o) : Number(e) < Number(f)
      /\ Len(o) <= OutMax
  <2>1. Len(o) <= OutMax
    <3>1. Len(o) = Len(out[c]) - 1 /\ OutMax \in Nat
      BY <1>4 DEF Without
    <3> QED
      BY <1>4, <3>1
  <2>2. /\ Sorted(o) /\ FramesIn(o) \subseteq FramesIn(out[c])
        /\ FramesIn(out[c]) \subseteq FramesIn(o) \cup {out[c][1]}
        /\ IsFrame(out[c][1]) => \A f \in FramesIn(o) : Number(out[c][1]) < Number(f)
    BY <1>4, <1>7, WithoutFacts
  <2> QED
    BY <1>4, <2>1, <2>2
<1>10. TypeOK'
  <2>1. /\ wire' \in [Clients -> Seq(Items)] /\ out' \in [Clients -> Seq(Frames \cup {Note})]
    BY <1>1, <1>2, <1>4, <1>5 DEF TypeOK, Events
  <2>2. \A d \in Clients : Len(out'[d]) <= OutMax
    BY <1>1, <1>3, <1>9 DEF TypeOK
  <2> QED
    BY <1>1, <1>2, <2>1, <2>2 DEF TypeOK, busVars, loopVars
<1>11. ClientInv(c)'
  <2>1. /\ FramesIn(wire[c])' = FramesIn(w) /\ FramesIn(out[c])' = FramesIn(o)
        /\ FramesIn(bus)' = FramesIn(bus)
    BY <1>2, <1>3 DEF busVars
  <2>2. Stream(c)' = Stream(c)
    <3>1. \A f \in FramesIn(out[c]) : f \in FramesIn(o) \cup FramesIn(w)
      BY <1>5, <1>9 DEF FramesIn
    <3> QED
      BY <1>5, <1>6, <1>9, <2>1, <3>1 DEF Stream
  <2>3. StreamInv(c)'
    <3>1. Below(FramesIn(w), FramesIn(o))
      BY <1>5, <1>7, <1>9 DEF Below
    <3>2. Below(FramesIn(w) \cup FramesIn(o), FramesIn(bus))
      BY <1>5, <1>6, <1>7, <1>9 DEF Below
    <3> QED
      BY <1>2, <1>3, <1>7, <1>8, <1>9, <2>1, <2>2, <3>1, <3>2 DEF StreamInv, Below, busVars
  <2>4. PageInv(c)'
    <3>1. e.kind # "latest"
      BY <1>4, FrameFacts, ItemFacts DEF Events
    <3>2. \A i \in 1..Len(w) : w[i].kind = "latest" =>
              i \in 1..Len(wire[c]) /\ \A j \in 1..i : w[j] = wire[c][j]
      <4> SUFFICES ASSUME NEW i \in 1..Len(w), w[i].kind = "latest"
                   PROVE  i \in 1..Len(wire[c]) /\ \A j \in 1..i : w[j] = wire[c][j]
        OBVIOUS
      <4>1. i <= Len(wire[c])
        <5>1. ~(i <= Len(wire[c])) => w[i] = e
          BY <1>5
        <5> QED
          BY <3>1, <5>1
      <4>2. i \in 1..Len(wire[c])
        BY <1>5, <4>1
      <4>3. ASSUME NEW j \in 1..i PROVE w[j] = wire[c][j]
        <5>1. j \in 1..(Len(wire[c]) + 1) /\ j <= Len(wire[c])
          BY <1>5, <4>2
        <5> QED
          BY <1>5, <5>1
      <4> QED
        BY <4>2, <4>3
    <3>3. \A i \in 1..Len(w) : w[i].kind = "latest" =>
              /\ w[i] = Latest(greeting[c]) /\ greeting[c] # NoFrame
              /\ page[c] = BlankPage
              /\ \A j \in 1..(i - 1) : w[j] = Note
      <4> SUFFICES ASSUME NEW i \in 1..Len(w), w[i].kind = "latest"
                   PROVE  /\ w[i] = Latest(greeting[c]) /\ greeting[c] # NoFrame
                          /\ page[c] = BlankPage
                          /\ \A j \in 1..(i - 1) : w[j] = Note
        OBVIOUS
      <4>1. i \in 1..Len(wire[c]) /\ \A j \in 1..i : w[j] = wire[c][j]
        BY <3>2
      <4>2. /\ wire[c][i] = Latest(greeting[c]) /\ greeting[c] # NoFrame
            /\ page[c] = BlankPage
            /\ \A j \in 1..(i - 1) : wire[c][j] = Note
        BY <1>1, <4>1, SMTT(30) DEF ClientInv, PageInv
      <4> QED
        BY <4>1, <4>2, SMTT(30)
    <3> QED
      BY <1>1, <1>2, <1>3, <3>3 DEF ClientInv, PageInv
  <2>5. NewestInv(c)'
    BY <1>1, <1>2, <1>3, <1>5, <2>2 DEF ClientInv, NewestInv, Passed, busVars
  <2> QED
    BY <2>3, <2>4, <2>5 DEF ClientInv
<1> QED
  BY <1>2, <1>3, <1>10, <1>11, OneClient

LEMMA DisconnectStep == ASSUME IInv, NEW c \in Clients, Disconnect(c) PROVE IInv'
<1>1. TypeOK /\ ClientInv(c)
  BY DEF IInv
<1>2. /\ conn'[c] \in {"closed", "leaked"} /\ wire'[c] = <<>> /\ page'[c] = BlankPage
      /\ greeting'[c] = NoFrame /\ out'[c] \in {<<>>, out[c]}
      /\ UNCHANGED <<busVars, loopVars, got, overflow>>
      /\ \A d \in Clients : d # c => /\ conn'[d] = conn[d] /\ wire'[d] = wire[d]
                                     /\ page'[d] = page[d] /\ greeting'[d] = greeting[d]
                                     /\ out'[d] = out[d]
  BY <1>1 DEF Disconnect, TypeOK
<1>3. /\ BlankPage.shown = NoFrame /\ BlankPage.tails = <<>> /\ Len(<<>>) = 0
      /\ <<>> \in Seq(Items) /\ <<>> \in Seq(Events) /\ <<>> \in Seq(Frames)
      /\ ToSet(<<>>) = {} /\ FramesIn(<<>>) = {} /\ Sorted(<<>>)
      /\ BlankPage \in [current : Actions, tails : Seq(Frames), shown : Frames \cup {NoFrame}]
  <2>1. <<>> \in Seq(Frames) /\ <<>> \in Seq(Items) /\ <<>> \in Seq(Events) /\ Len(<<>>) = 0
    OBVIOUS
  <2>2. BlankPage \in [current : Actions, tails : Seq(Frames), shown : Frames \cup {NoFrame}]
    BY <2>1 DEF BlankPage, Actions
  <2>3. Sorted(<<>>)
    BY DEF Sorted
  <2> QED
    BY <2>1, <2>2, <2>3, EmptyFacts DEF BlankPage
<1>4. TypeOK'
  <2>1. /\ conn' \in [Clients -> {"away", "status", "latest", "open", "closed", "leaked"}]
        /\ greeting' \in [Clients -> Frames \cup {NoFrame}]
    BY <1>1 DEF Disconnect, TypeOK
  <2>2. out' \in [Clients -> Seq(Frames \cup {Note})] /\ wire' \in [Clients -> Seq(Items)]
    BY <1>1, <1>3 DEF Disconnect, TypeOK, Events
  <2>3. page' \in [Clients -> [current : Actions, tails : Seq(Frames),
                               shown : Frames \cup {NoFrame}]]
    BY <1>1, <1>3 DEF Disconnect, TypeOK
  <2>4. \A d \in Clients : Len(out'[d]) <= OutMax /\ Len(page'[d].tails) <= TailMax
    <3> TAKE d \in Clients
    <3>1. Len(out[d]) <= OutMax /\ Len(page[d].tails) <= TailMax
      BY <1>1 DEF TypeOK
    <3>2. OutMax \in Nat /\ TailMax \in Nat
      OBVIOUS
    <3>3. CASE d = c
      BY <1>2, <1>3, <3>1, <3>2, <3>3
    <3>4. CASE d # c
      BY <1>2, <3>1, <3>4
    <3> QED
      BY <3>3, <3>4
  <2> QED
    BY <1>1, <1>2, <2>1, <2>2, <2>3, <2>4 DEF TypeOK, busVars, loopVars
<1>5. ClientInv(c)'
  <2>1. /\ Stream(c)' \subseteq Stream(c) /\ FramesIn(bus)' = FramesIn(bus)
        /\ FramesIn(wire[c])' = {} /\ FramesIn(out[c])' \subseteq FramesIn(out[c])
    BY <1>2, <1>3 DEF Stream, busVars
  <2>2. StreamInv(c)'
    BY <1>1, <1>2, <1>3, <2>1 DEF ClientInv, StreamInv, Below, busVars
  <2>3. PageInv(c)' /\ NewestInv(c)'
    BY <1>2, <1>3 DEF PageInv, NewestInv
  <2> QED
    BY <2>2, <2>3 DEF ClientInv
<1> QED
  BY <1>2, <1>4, <1>5, OneClient

-----------------------------------------------------------------------------
(* The page *)

\* What a page has after the head of its wire has arrived.
LEMMA ReceiveFacts ==
    ASSUME TypeOK, NEW c \in Clients, ClientInv(c), Receive(c)
    PROVE  \E e \in Items :
        /\ wire[c] # <<>> /\ e = wire[c][1]
        /\ wire' = [wire EXCEPT ![c] = Tail(wire[c])]
        /\ wire'[c] \in Seq(Items) /\ Without(wire'[c], wire[c], 1)
        /\ \/ e = Note /\ UNCHANGED <<page, got>>
           \/ /\ e = Latest(greeting[c]) /\ greeting[c] \in Frames /\ got' = got
              /\ page[c] = BlankPage
              /\ page' = [page EXCEPT ![c] = Presented(page[c], greeting[c])]
           \/ /\ e \in Frames /\ got' = [got EXCEPT ![c] = e]
              /\ page' = [page EXCEPT ![c] = Presented(page[c], e)]
        /\ UNCHANGED <<busVars, loopVars, conn, out, greeting, overflow>>
<1> DEFINE e == Head(wire[c])
           f == [e EXCEPT !.kind = "frame"]
<1>1. /\ wire[c] # <<>> /\ wire' = [wire EXCEPT ![c] = Tail(wire[c])]
      /\ page' = (IF e = Note THEN page ELSE [page EXCEPT ![c] = Presented(page[c], f)])
      /\ got' = (IF IsFrame(e) THEN [got EXCEPT ![c] = e] ELSE got)
      /\ UNCHANGED <<busVars, loopVars, conn, out, greeting, overflow>>
  BY DEF Receive
<1>2. /\ wire[c] \in Seq(Items) /\ e \in Items /\ e = wire[c][1]
      /\ Tail(wire[c]) \in Seq(Items) /\ Without(Tail(wire[c]), wire[c], 1)
      /\ Len(wire[c]) \in Nat \ {0}
  BY <1>1, TypeFacts, TailFacts
<1>3. wire'[c] = Tail(wire[c])
  BY <1>1 DEF TypeOK
<1> HIDE DEF e
<1>4. CASE e = Note
  BY <1>1, <1>2, <1>3, <1>4, NoFrameFacts
<1>5. CASE e.kind = "latest" /\ e # Note
  <2>1. e = Latest(greeting[c]) /\ greeting[c] # NoFrame /\ page[c] = BlankPage
    <3>1. 1 \in 1..Len(wire[c])
      BY <1>2
    <3> QED
      BY <1>2, <1>5, <3>1 DEF ClientInv, PageInv
  <2>2. greeting[c] \in Frames
    BY <2>1, TypeFacts
  <2>3. f = greeting[c] /\ ~IsFrame(e)
    BY <1>5, <2>1, <2>2, ItemFacts DEF IsFrame
  <2> HIDE DEF f
  <2> QED
    BY <1>1, <1>2, <1>3, <1>5, <2>1, <2>2, <2>3
<1>6. CASE e \in Frames
  <2>1. f = e /\ IsFrame(e) /\ e # Note
    BY <1>6, ItemFacts, FrameFacts
  <2> HIDE DEF f
  <2> QED
    BY <1>1, <1>2, <1>3, <1>6, <2>1
<1> QED
  BY <1>2, <1>4, <1>5, <1>6, ItemFacts

\* How a frame changes a page, given that it is newer than all it has read.
LEMMA PresentedFacts ==
    ASSUME TypeOK, NEW c \in Clients, ClientInv(c), NEW f \in Frames, NEW last \in Int,
           NEW g \in Frames \cup {NoFrame},
           LET p == page[c]
           IN  \/ p = BlankPage /\ f = g /\ f.index = 0
               \/ /\ Number(got[c]) < Number(f) /\ last = Number(f)
                  /\ g = greeting[c]
    PROVE  LET p == page[c]
               q == Presented(p, f)
           IN  /\ q \in [current : Actions, tails : Seq(Frames), shown : Frames \cup {NoFrame}]
               /\ Len(q.tails) <= TailMax
               /\ f.index = 0 => q.current = f.action /\ q.shown = f
               /\ f.index # 0 => q.current = p.current /\ q.shown = p.shown
               /\ q.shown # NoFrame => q.shown.action = q.current
               /\ q.shown \in {NoFrame, g} \/ Number(q.shown) <= last
               /\ \A t \in ToSet(q.tails) : /\ t.action = q.current /\ t.index > 0
                                            /\ Number(q.shown) < Number(t)
                                            /\ Number(t) <= last
               /\ Sorted(q.tails)
<1> DEFINE p == page[c]
           q == Presented(p, f)
           kept == IF Len(p.tails) >= TailMax THEN Tail(p.tails) ELSE p.tails
<1>1. /\ p \in [current : Actions, tails : Seq(Frames), shown : Frames \cup {NoFrame}]
      /\ p.tails \in Seq(Frames) /\ Len(p.tails) <= TailMax /\ Len(p.tails) \in Nat
      /\ TailMax \in Nat \ {0}
      /\ p.shown \in Frames \cup {NoFrame} /\ p.current \in Actions
  BY TypeFacts DEF TypeOK
<1>2. /\ p.shown # NoFrame => p.shown.action = p.current
      /\ p.shown \in {NoFrame, greeting[c]} \/ Number(p.shown) <= Number(got[c])
      /\ greeting[c] # NoFrame => greeting[c].index = 0
      /\ \A t \in ToSet(p.tails) : /\ t.action = p.current /\ t.index > 0
                                   /\ Number(p.shown) < Number(t)
                                   /\ Number(t) <= Number(got[c])
      /\ Sorted(p.tails)
  BY DEF ClientInv, PageInv
<1>3. /\ p = BlankPage => p.tails = <<>> /\ p.shown = NoFrame
      /\ ToSet(<<>>) = {} /\ Sorted(<<>>) /\ <<>> \in Seq(Frames) /\ Len(<<>>) = 0
  BY EmptyFacts DEF BlankPage, Sorted
<1>4. /\ f.action \in Actions /\ f.index \in Nat /\ Number(f) \in Int /\ f # NoFrame
      /\ Number(got[c]) \in Int /\ \A t \in Frames \cup {NoFrame} : Number(t) \in Int
      /\ \A t \in ToSet(p.tails) : t \in Frames
  BY <1>1, FrameFacts, NoFrameFacts, TypeFacts, Members, SMTT(30)
<1> HIDE DEF p
<1>5. CASE f.index = 0
  <2>1. q = [current |-> f.action, shown |-> f,
             tails |-> IF f.action = p.current THEN p.tails ELSE <<>>]
    BY <1>5 DEF Presented
  <2> DEFINE ts == IF f.action = p.current THEN p.tails ELSE <<>>
  <2>2. /\ ts \in Seq(Frames) /\ Len(ts) <= TailMax /\ Sorted(ts)
        /\ \A t \in ToSet(ts) : t \in ToSet(p.tails) /\ f.action = p.current
        /\ p.tails = <<>> => ts = <<>>
    BY <1>1, <1>2, <1>3
  <2>3. q.tails = ts /\ q.current = f.action /\ q.shown = f
    BY <2>1
  <2>4. q \in [current : Actions, tails : Seq(Frames), shown : Frames \cup {NoFrame}]
    <3> HIDE DEF ts
    <3>1. q = [current |-> f.action, shown |-> f, tails |-> ts]
      BY <2>1 DEF ts
    <3> QED
      BY <1>4, <2>2, <3>1
  <2>5. ASSUME NEW t \in ToSet(ts)
        PROVE  /\ t.action = f.action /\ t.index > 0 /\ Number(f) < Number(t) /\ Number(t) <= last
    <3>1. t \in ToSet(p.tails) /\ f.action = p.current /\ t \in Frames
      BY <1>4, <2>2, <2>5
    <3>2. t.action = f.action /\ f.index < t.index
      BY <1>2, <1>5, <3>1
    <3>3. Number(f) < Number(t)
      BY <3>1, <3>2, NumberOrder
    <3>4. Number(t) <= last
      <4>1. p # BlankPage
        BY <1>3, <3>1
      <4>2. Number(got[c]) < Number(f) /\ last = Number(f)
        BY <4>1 DEF p
      <4> QED
        BY <1>2, <1>4, <3>1, <4>2
    <3> QED
      BY <1>2, <3>1, <3>2, <3>3, <3>4
  <2>6. f = g \/ Number(f) <= last
    BY <1>4
  <2> HIDE DEF q, ts
  <2>7. /\ q \in [current : Actions, tails : Seq(Frames), shown : Frames \cup {NoFrame}]
        /\ Len(q.tails) <= TailMax /\ Sorted(q.tails)
        /\ q.current = f.action /\ q.shown = f /\ q.shown.action = q.current
        /\ q.shown \in {NoFrame, g} \/ Number(q.shown) <= last
        /\ \A t \in ToSet(q.tails) : /\ t.action = q.current /\ t.index > 0
                                     /\ Number(q.shown) < Number(t) /\ Number(t) <= last
    BY <2>2, <2>3, <2>4, <2>5, <2>6
  <2> QED
    BY <1>5, <2>7 DEF p, q
<1>6. CASE f.index # 0
  <2>1. Number(got[c]) < Number(f) /\ last = Number(f) /\ g = greeting[c]
    BY <1>6
  <2>2. p.shown \in {NoFrame, g} \/ Number(p.shown) <= last
    BY <1>1, <1>2, <1>4, <2>1
  <2>3. CASE f.action # p.current
    <3>1. q = p
      BY <1>6, <2>3 DEF Presented
    <3>2. \A t \in ToSet(p.tails) : Number(t) <= last
      BY <1>2, <1>4, <2>1
    <3> HIDE DEF q
    <3> QED
      BY <1>1, <1>2, <1>6, <2>2, <3>1, <3>2 DEF p, q
  <2>4. CASE f.action = p.current
    <3> DEFINE ts == Append(kept, f)
    <3>1. q = [p EXCEPT !.tails = ts]
      BY <1>6, <2>4 DEF Presented
    <3>2. /\ kept \in Seq(Frames) /\ Len(kept) < TailMax /\ Sorted(kept)
          /\ ToSet(kept) \subseteq ToSet(p.tails)
      <4>1. CASE Len(p.tails) >= TailMax
        <5>1. /\ p.tails # <<>>
          BY <1>1, <1>3, <4>1
        <5>2. Tail(p.tails) \in Seq(Frames) /\ Without(Tail(p.tails), p.tails, 1)
          BY <1>1, <5>1, TailFacts
        <5>3. Sorted(Tail(p.tails)) /\ ToSet(Tail(p.tails)) \subseteq ToSet(p.tails)
          BY <1>1, <1>2, <5>2, WithoutFacts
        <5>4. Len(Tail(p.tails)) = Len(p.tails) - 1
          BY <5>2 DEF Without
        <5> QED
          BY <1>1, <4>1, <5>2, <5>3, <5>4
      <4>2. CASE ~(Len(p.tails) >= TailMax)
        BY <1>1, <1>2, <4>2
      <4> QED
        BY <4>1, <4>2
    <3> HIDE DEF kept
    <3>3. \A t \in ToSet(kept) : t \in Frames /\ Number(t) < Number(f) /\ Number(t) <= last
      BY <1>2, <1>4, <2>1, <3>2
    <3>4. /\ ts \in Seq(Frames) /\ Len(ts) = Len(kept) + 1 /\ Len(kept) \in Nat
          /\ ToSet(ts) = ToSet(kept) \cup {f}
      BY <3>2, AppendFacts
    <3>5. Sorted(ts)
      BY <3>2, <3>3, SortedAppend DEF FramesIn
    <3> HIDE DEF ts
    <3>6. /\ q.tails = ts /\ q.current = p.current /\ q.shown = p.shown
          /\ q \in [current : Actions, tails : Seq(Frames), shown : Frames \cup {NoFrame}]
      BY <1>1, <3>1, <3>4
    <3>7. Number(p.shown) < Number(f)
      <4>1. CASE p.shown = NoFrame
        <5>1. Number(f) \in Nat
          BY FrameFacts
        <5> QED
          BY <4>1, <5>1, NoFrameFacts
      <4>2. CASE p.shown # NoFrame /\ p.shown = greeting[c]
        <5>1. p.shown \in Frames /\ p.shown.action = f.action /\ p.shown.index < f.index
          BY <1>1, <1>2, <1>4, <1>6, <2>4, <4>2
        <5> QED
          BY <5>1, NumberOrder
      <4>3. CASE Number(p.shown) <= Number(got[c])
        BY <1>1, <1>4, <2>1, <4>3
      <4> QED
        BY <1>2, <4>1, <4>2, <4>3
    <3>8. ASSUME NEW t \in ToSet(ts)
          PROVE  /\ t.action = p.current /\ t.index > 0
                 /\ Number(p.shown) < Number(t) /\ Number(t) <= last
      BY <1>2, <1>4, <1>6, <2>1, <2>4, <3>2, <3>3, <3>4, <3>7, <3>8, SMTT(30)
    <3>9. Len(ts) <= TailMax
      BY <1>1, <3>2, <3>4
    <3> HIDE DEF q
    <3> QED
      BY <1>2, <1>6, <2>2, <3>5, <3>6, <3>8, <3>9 DEF p, q
  <2> QED
    BY <2>3, <2>4
<1> QED
  BY <1>4, <1>5, <1>6

\* What has arrived is older than all that has not.
LEMMA HeadIsOldest ==
    ASSUME TypeOK, NEW c \in Clients, ClientInv(c), NEW e \in Items, wire[c] # <<>>,
           e = wire[c][1], NEW w \in Seq(Items), Without(w, wire[c], 1)
    PROVE  LET rest == FramesIn(bus) \cup FramesIn(out[c]) \cup FramesIn(w)
           IN  /\ rest \subseteq Stream(c) /\ Stream(c) \subseteq rest \cup {e}
               /\ e \in Frames => /\ e \in Stream(c) /\ Number(got[c]) < Number(e)
                                  /\ Number(e) <= Number(newest)
                                  /\ \A f \in rest : Number(e) < Number(f)
               /\ e \notin Frames => rest = Stream(c)
               /\ Sorted(w) /\ FramesIn(w) \subseteq FramesIn(wire[c])
<1> DEFINE rest == FramesIn(bus) \cup FramesIn(out[c]) \cup FramesIn(w)
<1>1. /\ wire[c] \in Seq(Items) /\ Sorted(wire[c])
      /\ Below(FramesIn(wire[c]), FramesIn(out[c]))
      /\ Below(FramesIn(wire[c]) \cup FramesIn(out[c]), FramesIn(bus))
      /\ Below({got[c]}, Stream(c))
      /\ \A f \in Stream(c) : Number(f) <= Number(newest)
      /\ Stream(c) \subseteq Frames
  BY TypeFacts DEF ClientInv, StreamInv
<1>2. /\ Len(wire[c]) \in Nat \ {0} /\ 1 \in 1..Len(wire[c])
  BY <1>1, TailFacts
<1>3. /\ FramesIn(w) \subseteq FramesIn(wire[c])
      /\ FramesIn(wire[c]) \subseteq FramesIn(w) \cup {e}
      /\ Sorted(w) /\ (IsFrame(e) => \A f \in FramesIn(w) : Number(e) < Number(f))
  BY <1>1, WithoutFacts
<1>4. IsFrame(e) <=> e \in Frames
  BY ItemFacts
<1>5. rest \subseteq Stream(c) /\ Stream(c) \subseteq rest \cup {e}
  BY <1>3 DEF Stream
<1>6. ASSUME e \in Frames
      PROVE  /\ e \in Stream(c) /\ Number(got[c]) < Number(e) /\ Number(e) <= Number(newest)
             /\ \A f \in rest : Number(e) < Number(f)
  <2>1. e \in FramesIn(wire[c])
    BY <1>1, <1>2, <1>4, <1>6, Members
  <2>2. e \in Stream(c)
    BY <2>1 DEF Stream
  <2> QED
    BY <1>1, <1>3, <1>4, <1>6, <2>1, <2>2 DEF Below
<1>7. e \notin Frames => rest = Stream(c)
  BY <1>1, <1>5
<1> QED
  BY <1>3, <1>5, <1>6, <1>7

\* The page of the client a frame, or its greeting, arrives at.
LEMMA ReceivedPage ==
    ASSUME IInv, NEW c \in Clients, Receive(c)
    PROVE  \E e \in Items :
        /\ wire[c] # <<>> /\ e = wire[c][1] /\ wire' = [wire EXCEPT ![c] = Tail(wire[c])]
        /\ wire'[c] \in Seq(Items) /\ Without(wire'[c], wire[c], 1)
        /\ \/ e = Note /\ UNCHANGED <<page, got>>
           \/ /\ e = Latest(greeting[c]) /\ greeting[c] \in Frames /\ greeting[c].index = 0
              /\ got' = got /\ page[c] = BlankPage
              /\ page'[c] = Presented(page[c], greeting[c])
           \/ /\ e \in Frames /\ got'[c] = e
              /\ page'[c] = Presented(page[c], e)
        /\ \A f \in Frames :
               e = Latest(f) \/ e = f =>
                   /\ f.index = 0 => page'[c].current = f.action /\ page'[c].shown = f
                   /\ f.index # 0 => /\ page'[c].current = page[c].current
                                     /\ page'[c].shown = page[c].shown
        /\ page' \in [Clients -> [current : Actions, tails : Seq(Frames),
                                  shown : Frames \cup {NoFrame}]]
        /\ got' \in [Clients -> Frames \cup {NoFrame}]
        /\ Len(page'[c].tails) <= TailMax
        /\ page'[c].shown # NoFrame => page'[c].shown.action = page'[c].current
        /\ page'[c].shown \in {NoFrame, greeting[c]} \/ Number(page'[c].shown) <= Number(got'[c])
        /\ \A t \in ToSet(page'[c].tails) :
               /\ t.action = page'[c].current /\ t.index > 0
               /\ Number(page'[c].shown) < Number(t) /\ Number(t) <= Number(got'[c])
        /\ Sorted(page'[c].tails)
        /\ \A d \in Clients : d # c => page'[d] = page[d] /\ got'[d] = got[d]
        /\ UNCHANGED <<busVars, loopVars, conn, out, greeting, overflow>>
<1>1. TypeOK /\ ClientInv(c)
  BY DEF IInv
<1>2. PICK e \in Items :
        /\ wire[c] # <<>> /\ e = wire[c][1]
        /\ wire' = [wire EXCEPT ![c] = Tail(wire[c])]
        /\ wire'[c] \in Seq(Items) /\ Without(wire'[c], wire[c], 1)
        /\ \/ e = Note /\ UNCHANGED <<page, got>>
           \/ /\ e = Latest(greeting[c]) /\ greeting[c] \in Frames /\ got' = got
              /\ page[c] = BlankPage
              /\ page' = [page EXCEPT ![c] = Presented(page[c], greeting[c])]
           \/ /\ e \in Frames /\ got' = [got EXCEPT ![c] = e]
              /\ page' = [page EXCEPT ![c] = Presented(page[c], e)]
        /\ UNCHANGED <<busVars, loopVars, conn, out, greeting, overflow>>
  BY <1>1, ReceiveFacts
<1>3. /\ page \in [Clients -> [current : Actions, tails : Seq(Frames),
                               shown : Frames \cup {NoFrame}]]
      /\ got \in [Clients -> Frames \cup {NoFrame}] /\ Number(got[c]) \in Int
      /\ greeting[c] \in Frames \cup {NoFrame} /\ Len(page[c].tails) <= TailMax
  BY <1>1, TypeFacts DEF TypeOK
<1>4. /\ greeting[c] # NoFrame => greeting[c].index = 0
      /\ page[c].shown # NoFrame => page[c].shown.action = page[c].current
      /\ page[c].shown \in {NoFrame, greeting[c]} \/ Number(page[c].shown) <= Number(got[c])
      /\ \A t \in ToSet(page[c].tails) : /\ t.action = page[c].current /\ t.index > 0
                                         /\ Number(page[c].shown) < Number(t)
                                         /\ Number(t) <= Number(got[c])
      /\ Sorted(page[c].tails)
  BY <1>1 DEF ClientInv, PageInv
<1>5. /\ \A f \in Frames : f # Note /\ Latest(f) # Note /\ f # NoFrame
      /\ \A f, g \in Frames : Latest(f) # g /\ (Latest(f) = Latest(g) => f = g)
  BY ItemFacts, FrameFacts
<1>6. CASE e = Note /\ UNCHANGED <<page, got>>
  <2>1. \A f \in Frames : ~(e = Latest(f) \/ e = f)
    BY <1>5, <1>6
  <2> QED
    BY <1>2, <1>3, <1>4, <1>6, <2>1
<1>7. CASE /\ e = Latest(greeting[c]) /\ greeting[c] \in Frames /\ got' = got
           /\ page[c] = BlankPage
           /\ page' = [page EXCEPT ![c] = Presented(page[c], greeting[c])]
  <2> DEFINE q == Presented(page[c], greeting[c])
  <2>1. greeting[c].index = 0
    BY <1>4, <1>5, <1>7
  <2>2. /\ q \in [current : Actions, tails : Seq(Frames), shown : Frames \cup {NoFrame}]
        /\ Len(q.tails) <= TailMax /\ q.current = greeting[c].action /\ q.shown = greeting[c]
        /\ q.shown.action = q.current
        /\ \A t \in ToSet(q.tails) : /\ t.action = q.current /\ t.index > 0
                                     /\ Number(q.shown) < Number(t)
                                     /\ Number(t) <= Number(got[c])
        /\ Sorted(q.tails)
    BY <1>1, <1>3, <1>5, <1>7, <2>1, PresentedFacts
  <2> HIDE DEF q
  <2>3. page'[c] = q /\ \A d \in Clients : d # c => page'[d] = page[d]
    BY <1>3, <1>7 DEF q
  <2>4. page' \in [Clients -> [current : Actions, tails : Seq(Frames),
                               shown : Frames \cup {NoFrame}]]
    BY <1>3, <1>7, <2>2 DEF q
  <2>5. \A f \in Frames : e = Latest(f) \/ e = f => f = greeting[c]
    BY <1>5, <1>7
  <2>6. page'[c] = Presented(page[c], greeting[c])
    BY <2>3 DEF q
  <2> QED
    BY <1>2, <1>3, <1>7, <2>1, <2>2, <2>3, <2>4, <2>5, <2>6
<1>8. CASE /\ e \in Frames /\ got' = [got EXCEPT ![c] = e]
           /\ page' = [page EXCEPT ![c] = Presented(page[c], e)]
  <2> DEFINE q == Presented(page[c], e)
  <2>1. Number(got[c]) < Number(e) /\ Number(e) \in Int
    <3> DEFINE w == wire'[c]
    <3>1. w \in Seq(Items) /\ Without(w, wire[c], 1)
      BY <1>2
    <3> HIDE DEF w
    <3>2. Number(got[c]) < Number(e)
      BY <1>1, <1>2, <1>8, <3>1, HeadIsOldest
    <3> QED
      BY <1>8, <3>2, FrameFacts
  <2>2. /\ q \in [current : Actions, tails : Seq(Frames), shown : Frames \cup {NoFrame}]
        /\ Len(q.tails) <= TailMax
        /\ e.index = 0 => q.current = e.action /\ q.shown = e
        /\ e.index # 0 => q.current = page[c].current /\ q.shown = page[c].shown
        /\ q.shown # NoFrame => q.shown.action = q.current
        /\ q.shown \in {NoFrame, greeting[c]} \/ Number(q.shown) <= Number(e)
        /\ \A t \in ToSet(q.tails) : /\ t.action = q.current /\ t.index > 0
                                     /\ Number(q.shown) < Number(t)
                                     /\ Number(t) <= Number(e)
        /\ Sorted(q.tails)
    BY <1>1, <1>3, <1>8, <2>1, PresentedFacts
  <2> HIDE DEF q
  <2>3. /\ page'[c] = q /\ got'[c] = e
        /\ \A d \in Clients : d # c => page'[d] = page[d] /\ got'[d] = got[d]
    BY <1>3, <1>8 DEF q
  <2>4. /\ page' \in [Clients -> [current : Actions, tails : Seq(Frames),
                                  shown : Frames \cup {NoFrame}]]
        /\ got' \in [Clients -> Frames \cup {NoFrame}]
    BY <1>3, <1>8, <2>2 DEF q
  <2>5. \A f \in Frames : e = Latest(f) \/ e = f => f = e
    BY <1>5, <1>8
  <2>6. page'[c] = Presented(page[c], e)
    BY <2>3 DEF q
  <2>7. \A f \in Frames :
           e = Latest(f) \/ e = f =>
               /\ f.index = 0 => page'[c].current = f.action /\ page'[c].shown = f
               /\ f.index # 0 => /\ page'[c].current = page[c].current
                                 /\ page'[c].shown = page[c].shown
    BY <2>2, <2>3, <2>5
  <2>8. /\ Len(page'[c].tails) <= TailMax /\ Sorted(page'[c].tails)
        /\ page'[c].shown # NoFrame => page'[c].shown.action = page'[c].current
        /\ page'[c].shown \in {NoFrame, greeting[c]} \/ Number(page'[c].shown) <= Number(got'[c])
        /\ \A t \in ToSet(page'[c].tails) :
               /\ t.action = page'[c].current /\ t.index > 0
               /\ Number(page'[c].shown) < Number(t) /\ Number(t) <= Number(got'[c])
    BY <2>2, <2>3
  <2>9. /\ wire[c] # <<>> /\ e = wire[c][1] /\ wire' = [wire EXCEPT ![c] = Tail(wire[c])]
        /\ wire'[c] \in Seq(Items) /\ Without(wire'[c], wire[c], 1)
        /\ UNCHANGED <<busVars, loopVars, conn, out, greeting, overflow>>
    BY <1>2
  <2>10. e \in Frames /\ got'[c] = e /\ page'[c] = Presented(page[c], e)
    BY <1>8, <2>3, <2>6
  <2>11. \A d \in Clients : d # c => page'[d] = page[d] /\ got'[d] = got[d]
    BY <2>3
  <2> WITNESS e \in Items
  <2> QED
    BY <2>4, <2>7, <2>8, <2>9, <2>10, <2>11, SMTT(30)
<1> QED
  BY <1>2, <1>6, <1>7, <1>8

LEMMA ReceiveStep == ASSUME IInv, NEW c \in Clients, Receive(c) PROVE IInv'
<1> DEFINE w == wire'[c]
<1>1. TypeOK /\ BusInv /\ ClientInv(c)
  BY DEF IInv
<1>2. PICK e \in Items :
        /\ wire[c] # <<>> /\ e = wire[c][1] /\ wire' = [wire EXCEPT ![c] = Tail(wire[c])]
        /\ w \in Seq(Items) /\ Without(w, wire[c], 1)
        /\ \/ e = Note /\ UNCHANGED <<page, got>>
           \/ /\ e = Latest(greeting[c]) /\ greeting[c] \in Frames /\ greeting[c].index = 0
              /\ got' = got /\ page[c] = BlankPage
           \/ e \in Frames /\ got'[c] = e
        /\ \A f \in Frames :
               e = Latest(f) \/ e = f =>
                   /\ f.index = 0 => page'[c].current = f.action /\ page'[c].shown = f
                   /\ f.index # 0 => /\ page'[c].current = page[c].current
                                     /\ page'[c].shown = page[c].shown
        /\ page' \in [Clients -> [current : Actions, tails : Seq(Frames),
                                  shown : Frames \cup {NoFrame}]]
        /\ got' \in [Clients -> Frames \cup {NoFrame}]
        /\ Len(page'[c].tails) <= TailMax
        /\ page'[c].shown # NoFrame => page'[c].shown.action = page'[c].current
        /\ page'[c].shown \in {NoFrame, greeting[c]} \/ Number(page'[c].shown) <= Number(got'[c])
        /\ \A t \in ToSet(page'[c].tails) :
               /\ t.action = page'[c].current /\ t.index > 0
               /\ Number(page'[c].shown) < Number(t) /\ Number(t) <= Number(got'[c])
        /\ Sorted(page'[c].tails)
        /\ \A d \in Clients : d # c => page'[d] = page[d] /\ got'[d] = got[d]
        /\ UNCHANGED <<busVars, loopVars, conn, out, greeting, overflow>>
  BY ReceivedPage, SMTT(30)
<1>3. /\ wire[c] \in Seq(Items) /\ Len(wire[c]) \in Nat \ {0} /\ Len(w) = Len(wire[c]) - 1
      /\ \A j \in 1..(Len(wire[c]) - 1) : w[j] = wire[c][j + 1]
      /\ \A d \in Clients : d # c => wire'[d] = wire[d]
  <2>1. wire[c] \in Seq(Items) /\ Len(wire[c]) \in Nat \ {0}
    BY <1>1, <1>2, TypeFacts, TailFacts
  <2> HIDE DEF w
  <2> QED
    BY <1>1, <1>2, <2>1 DEF Without, TypeOK
<1>4. /\ Stream(c)' = FramesIn(bus) \cup FramesIn(out[c]) \cup FramesIn(w)
      /\ Stream(c)' \subseteq Stream(c) /\ Stream(c) \subseteq Stream(c)' \cup {e}
      /\ e \in Frames => /\ e \in Stream(c) /\ Number(got[c]) < Number(e)
                         /\ Number(e) <= Number(newest)
                         /\ \A f \in Stream(c)' : Number(e) < Number(f)
      /\ e \notin Frames => Stream(c)' = Stream(c)
      /\ Sorted(w) /\ FramesIn(w) \subseteq FramesIn(wire[c])
      /\ FramesIn(out[c])' = FramesIn(out[c]) /\ FramesIn(bus)' = FramesIn(bus)
  <2>1. /\ Stream(c)' = FramesIn(bus) \cup FramesIn(out[c]) \cup FramesIn(w)
        /\ FramesIn(out[c])' = FramesIn(out[c]) /\ FramesIn(bus)' = FramesIn(bus)
    BY <1>2 DEF Stream, busVars
  <2> HIDE DEF w
  <2>2. /\ Stream(c)' \subseteq Stream(c) /\ Stream(c) \subseteq Stream(c)' \cup {e}
        /\ e \in Frames => /\ e \in Stream(c) /\ Number(got[c]) < Number(e)
                           /\ Number(e) <= Number(newest)
                           /\ \A f \in Stream(c)' : Number(e) < Number(f)
        /\ e \notin Frames => Stream(c)' = Stream(c)
    BY <1>1, <1>2, <2>1, HeadIsOldest
  <2>3. Sorted(w) /\ FramesIn(w) \subseteq FramesIn(wire[c])
    BY <1>1, <1>2, HeadIsOldest
  <2> QED
    BY <2>1, <2>2, <2>3
<1> HIDE DEF w
<1>5. /\ e = Note => e \notin Frames /\ \A f \in Frames : e # Latest(f)
      /\ e = Latest(greeting[c]) /\ greeting[c] \in Frames => e \notin Frames /\ e # Note
      /\ e \in Frames => e # Note /\ \A f \in Frames : e # Latest(f)
  BY ItemFacts, FrameFacts
<1>6. TypeOK'
  <2>1. /\ wire' \in [Clients -> Seq(Items)]
        /\ {got', greeting'} \subseteq [Clients -> Frames \cup {NoFrame}]
    <3>1. wire' \in [Clients -> Seq(Items)]
      <4>1. Tail(wire[c]) \in Seq(Items)
        BY <1>2, <1>3
      <4> QED
        BY <1>1, <1>2, <4>1 DEF TypeOK
    <3> QED
      BY <1>1, <1>2, <3>1 DEF TypeOK
  <2>2. \A d \in Clients : Len(out'[d]) <= OutMax /\ Len(page'[d].tails) <= TailMax
    BY <1>1, <1>2 DEF TypeOK
  <2> QED
    BY <1>1, <1>2, <2>1, <2>2 DEF TypeOK, busVars, loopVars
<1>7. ClientInv(c)'
  <2>1. StreamInv(c)'
    <3>1. /\ Sorted(out[c]) /\ Below(FramesIn(w), FramesIn(out[c]))
          /\ Below(FramesIn(w) \cup FramesIn(out[c]), FramesIn(bus))
      BY <1>1, <1>4 DEF ClientInv, StreamInv, Below
    <3>2. /\ Below({got'[c]}, Stream(c)')
          /\ \A f \in Stream(c)' \cup {got'[c]} : Number(f) <= Number(newest)
      <4>1. CASE e \in Frames
        BY <1>1, <1>2, <1>4, <1>5, <4>1 DEF ClientInv, StreamInv, Below
      <4>2. CASE e \notin Frames
        BY <1>1, <1>2, <1>4, <4>2 DEF ClientInv, StreamInv, Below
      <4> QED
        BY <4>1, <4>2
    <3>3. /\ (out[c])' = out[c] /\ newest' = newest /\ FramesIn(wire[c])' = FramesIn(w)
      BY <1>2 DEF w, busVars
    <3> QED
      BY <1>4, <3>1, <3>2, <3>3 DEF StreamInv, w
  <2>2. PageInv(c)'
    <3>1. ASSUME conn[c] \in {"away", "status"}
          PROVE  /\ e = Note /\ \A i \in 1..Len(w) : w[i] = Note
                 /\ conn[c] # "away"
      <4>1. \A i \in 1..Len(wire[c]) : wire[c][i] = Note
        BY <1>1, <3>1 DEF ClientInv, PageInv
      <4>2. conn[c] # "away"
        BY <1>1, <1>2 DEF ClientInv, PageInv
      <4>3. e = Note
        <5>1. 1 \in 1..Len(wire[c])
          BY <1>3
        <5> QED
          BY <1>2, <4>1, <5>1
      <4>4. ASSUME NEW i \in 1..Len(w) PROVE w[i] = Note
        <5>1. i + 1 \in 1..Len(wire[c]) /\ i \in 1..(Len(wire[c]) - 1)
          BY <1>3
        <5> QED
          BY <1>3, <4>1, <5>1
      <4> QED
        BY <4>2, <4>3, <4>4
    <3>2. ASSUME NEW i \in 1..Len(w), w[i].kind = "latest"
          PROVE  /\ w[i] = Latest(greeting[c]) /\ greeting[c] # NoFrame
                 /\ page'[c] = BlankPage /\ \A j \in 1..(i - 1) : w[j] = Note
      <4>1. /\ i + 1 \in 1..Len(wire[c]) /\ w[i] = wire[c][i + 1] /\ 1 \in 1..i
        BY <1>3
      <4>2. /\ w[i] = Latest(greeting[c]) /\ greeting[c] # NoFrame /\ page[c] = BlankPage
            /\ \A j \in 1..i : wire[c][j] = Note
        <5>1. /\ wire[c][i + 1] = Latest(greeting[c]) /\ greeting[c] # NoFrame
              /\ page[c] = BlankPage /\ \A j \in 1..(i + 1 - 1) : wire[c][j] = Note
          <6>1. \A k \in 1..Len(wire[c]) : wire[c][k].kind = "latest" =>
                    /\ wire[c][k] = Latest(greeting[c]) /\ greeting[c] # NoFrame
                    /\ page[c] = BlankPage /\ \A j \in 1..(k - 1) : wire[c][j] = Note
            BY <1>1 DEF ClientInv, PageInv
          <6>2. wire[c][i + 1].kind = "latest"
            BY <3>2, <4>1
          <6> QED
            BY <4>1, <6>1, <6>2
        <5> QED
          BY <4>1, <5>1
      <4>3. e = Note /\ page'[c] = page[c]
        BY <1>2, <1>5, <4>1, <4>2
      <4>4. \A j \in 1..(i - 1) : w[j] = Note
        <5> TAKE j \in 1..(i - 1)
        <5>1. j + 1 \in 1..i /\ j \in 1..(Len(wire[c]) - 1)
          BY <1>3
        <5> QED
          BY <1>3, <4>2, <5>1
      <4> QED
        BY <4>2, <4>3, <4>4
    <3>3. /\ conn'[c] = conn[c] /\ out'[c] = out[c] /\ greeting'[c] = greeting[c]
          /\ wire'[c] = w /\ (greeting[c] # NoFrame => greeting[c].index = 0)
      BY <1>1, <1>2 DEF ClientInv, PageInv, w
    <3>4. conn[c] \in {"away", "status"} =>
              /\ page'[c] = BlankPage /\ got'[c] = NoFrame /\ greeting[c] = NoFrame
      BY <1>1, <1>2, <1>5, <3>1 DEF ClientInv, PageInv
    <3>5. /\ conn'[c] = "away" => out'[c] = <<>> /\ wire'[c] = <<>>
          /\ conn'[c] \in {"away", "status"} =>
                 /\ page'[c] = BlankPage /\ got'[c] = NoFrame /\ greeting'[c] = NoFrame
                 /\ \A i \in 1..Len(wire'[c]) : wire'[c][i] = Note
      BY <3>1, <3>3, <3>4
    <3>6. \A i \in 1..Len(wire'[c]) : wire'[c][i].kind = "latest" =>
              /\ wire'[c][i] = Latest(greeting'[c]) /\ greeting'[c] # NoFrame
              /\ page'[c] = BlankPage
              /\ \A j \in 1..(i - 1) : wire'[c][j] = Note
      BY <3>2, <3>3
    <3> QED
      BY <1>2, <3>3, <3>5, <3>6 DEF PageInv
  <2>3. NewestInv(c)'
    <3>1. SUFFICES ASSUME conn[c] \in {"status", "latest", "open"}, ~overflow[c],
                          latest # NoFrame
                   PROVE  /\ latest \in Stream(c)' \/ \A f \in Stream(c)' : Number(latest) < Number(f)
                          /\ latest \notin Stream(c)' /\ conn[c] # "status" =>
                               \/ Latest(latest) \in ToSet(w)
                               \/ page'[c].current = latest.action /\ page'[c].shown # NoFrame
      BY <1>2 DEF NewestInv, Passed, w, busVars
    <3>2. /\ latest \in Stream(c) \/ \A f \in Stream(c) : Number(latest) < Number(f)
          /\ latest \notin Stream(c) /\ conn[c] # "status" =>
               \/ Latest(latest) \in ToSet(wire[c])
               \/ page[c].current = latest.action /\ page[c].shown # NoFrame
      BY <1>1, <3>1 DEF ClientInv, NewestInv, Passed
    <3>3. /\ latest \in Frames /\ latest # NoFrame /\ latest.index = 0
          /\ latest.action = newest.action /\ newest \in Frames /\ newest.action \in Nat
      <4>1. /\ latest \in Frames /\ latest.action = newest.action /\ latest.index = 0
            /\ newest \in Frames \cup {NoFrame}
        BY <1>1, <3>1, TypeFacts DEF BusInv
      <4>2. latest.action \in Nat
        BY <4>1, FrameFacts
      <4> QED
        BY <3>1, <4>1, <4>2, NoFrameFacts
    <3>4. CASE latest \in Stream(c)
      <4>1. latest \notin Stream(c)' => latest = e
        BY <1>4, <3>4
      <4>2. latest = e => page'[c].current = latest.action /\ page'[c].shown # NoFrame
        BY <1>2, <3>3
      <4>3. latest = e => \A f \in Stream(c)' : Number(latest) < Number(f)
        BY <1>4, <3>3
      <4> QED
        BY <4>1, <4>2, <4>3
    <3>5. CASE latest \notin Stream(c)
      <4>1. \A f \in Stream(c)' : Number(latest) < Number(f)
        BY <1>4, <3>2, <3>5
      <4>2. CASE conn[c] # "status" /\ Latest(latest) \in ToSet(wire[c])
        <5>1. ToSet(wire[c]) \subseteq ToSet(w) \cup {e}
          BY <1>2, <1>3, WithoutFacts
        <5>2. e = Latest(latest) => page'[c].current = latest.action /\ page'[c].shown # NoFrame
          BY <1>2, <3>3
        <5> QED
          BY <4>1, <4>2, <5>1, <5>2
      <4>3. CASE page[c].current = latest.action /\ page[c].shown # NoFrame
        <5>1. page'[c].current = page[c].current /\ page'[c].shown = page[c].shown
          <6>1. CASE e = Note
            BY <1>2, <1>5, <6>1
          <6>2. CASE e \in Frames
            <7>1. Number(latest) < Number(e) /\ Number(e) <= Number(newest)
              BY <1>4, <3>2, <3>5, <6>2
            <7>2. /\ latest.action <= e.action /\ e.action <= newest.action
                  /\ e.action \in Nat /\ e.index \in Nat
              <8>1. Number(e) \in Nat /\ Number(newest) \in Nat /\ e.action \in Nat /\ e.index \in Nat
                BY <3>3, <6>2, FrameFacts
              <8>2. ~(newest.action < e.action)
                BY <3>3, <6>2, <7>1, <8>1, NumberOrder
              <8> QED
                BY <3>3, <6>2, <7>1, <8>1, <8>2, NumberOrder
            <7>3. latest.action = e.action
              BY <3>3, <7>2
            <7>4. latest.index < e.index
              BY <3>3, <6>2, <7>1, <7>3, NumberOrder
            <7>5. e.index # 0
              BY <3>3, <7>2, <7>4
            <7> QED
              BY <1>2, <6>2, <7>5
          <6>3. CASE page[c] = BlankPage
            BY <4>3, <6>3 DEF BlankPage
          <6> QED
            BY <1>2, <6>1, <6>2, <6>3
        <5> QED
          BY <4>1, <4>3, <5>1
      <4> QED
        BY <3>2, <3>5, <4>1, <4>2, <4>3
    <3> QED
      BY <3>4, <3>5
  <2> QED
    BY <2>1, <2>2, <2>3 DEF ClientInv
<1> QED
  BY <1>2, <1>3, <1>6, <1>7, OneClient

\* What the timer draws.
LEMMA DrawTailFacts ==
    ASSUME IInv, NEW c \in Clients, DrawTail(c)
    PROVE  \E f \in Frames, ts \in Seq(Frames) :
        /\ page' = [page EXCEPT ![c] = [current |-> page[c].current, tails |-> ts, shown |-> f]]
        /\ page[c] # BlankPage
        /\ f.action = page[c].current /\ f.index > 0
        /\ Number(page[c].shown) < Number(f) /\ Number(f) <= Number(got[c])
        /\ Len(ts) <= TailMax /\ Sorted(ts)
        /\ \A t \in ToSet(ts) : /\ t.action = page[c].current /\ t.index > 0
                                /\ Number(f) < Number(t) /\ Number(t) <= Number(got[c])
        /\ UNCHANGED <<busVars, loopVars, conn, out, wire, got, greeting, overflow>>
<1> DEFINE p == page[c]
           f == Head(p.tails)
           ts == Tail(p.tails)
<1>1. /\ p \in [current : Actions, tails : Seq(Frames), shown : Frames \cup {NoFrame}]
      /\ p.tails \in Seq(Frames) /\ Len(p.tails) <= TailMax /\ TailMax \in Nat
      /\ p.tails # <<>>
  BY TypeFacts DEF IInv, TypeOK, DrawTail
<1>2. /\ Sorted(p.tails)
      /\ \A t \in ToSet(p.tails) : /\ t.action = p.current /\ t.index > 0
                                   /\ Number(p.shown) < Number(t)
                                   /\ Number(t) <= Number(got[c])
  BY DEF IInv, ClientInv, PageInv
<1>3. /\ f \in Frames /\ f = p.tails[1] /\ ts \in Seq(Frames)
      /\ Without(ts, p.tails, 1) /\ Len(p.tails) \in Nat \ {0}
  BY <1>1, TailFacts
<1> HIDE DEF f, ts, p
<1>4. f \in ToSet(p.tails)
  <2>1. 1 \in 1..Len(p.tails)
    BY <1>3
  <2> QED
    BY <1>1, <1>3, <2>1, Members
<1>5. /\ ToSet(ts) \subseteq ToSet(p.tails) /\ Sorted(ts) /\ Len(ts) <= TailMax
      /\ ToSet(ts) \subseteq Frames
      /\ \A t \in ToSet(ts) : Number(f) < Number(t)
  <2>1. /\ ToSet(ts) \subseteq ToSet(p.tails) /\ Sorted(ts)
        /\ IsFrame(f) => \A g \in FramesIn(ts) : Number(f) < Number(g)
    BY <1>1, <1>2, <1>3, WithoutFacts
  <2>2. ToSet(ts) \subseteq Frames
    BY <1>3, Members
  <2>3. \A t \in ToSet(ts) : Number(f) < Number(t)
    BY <1>3, <2>1, <2>2, FrameFacts DEF FramesIn
  <2>4. Len(ts) <= TailMax
    BY <1>1, <1>3 DEF Without
  <2> QED
    BY <2>1, <2>2, <2>3, <2>4
<1>6. page' = [page EXCEPT ![c] = [current |-> p.current, tails |-> ts, shown |-> f]]
  <2>1. page' = [page EXCEPT ![c] = [p EXCEPT !.tails = ts, !.shown = f]]
    BY <1>1, <1>2, <1>4 DEF DrawTail, IInv, TypeOK, f, ts, p
  <2>2. [p EXCEPT !.tails = ts, !.shown = f] = [current |-> p.current, tails |-> ts, shown |-> f]
    <3> DEFINE r == [p EXCEPT !.tails = ts, !.shown = f]
    <3>1. /\ r \in [current : Actions, tails : Seq(Frames), shown : Frames \cup {NoFrame}]
          /\ r.current = p.current /\ r.tails = ts /\ r.shown = f
      BY <1>1, <1>3
    <3> HIDE DEF r
    <3>2. r = [current |-> r.current, tails |-> r.tails, shown |-> r.shown]
      BY <3>1
    <3>3. r = [current |-> p.current, tails |-> ts, shown |-> f]
      BY <3>1, <3>2
    <3> QED
      BY <3>3 DEF r
  <2> QED
    BY <2>1, <2>2
<1>7. p # BlankPage
  BY <1>1 DEF BlankPage
<1>8. UNCHANGED <<busVars, loopVars, conn, out, wire, got, greeting, overflow>>
  BY DEF DrawTail
<1> QED
  BY <1>2, <1>3, <1>4, <1>5, <1>6, <1>7, <1>8, ZenonT(60) DEF p

LEMMA DrawTailStep == ASSUME IInv, NEW c \in Clients, DrawTail(c) PROVE IInv'
<1>1. TypeOK /\ ClientInv(c)
  BY DEF IInv
<1>2. PICK f \in Frames, ts \in Seq(Frames) :
        /\ page' = [page EXCEPT ![c] = [current |-> page[c].current, tails |-> ts, shown |-> f]]
        /\ page[c] # BlankPage
        /\ f.action = page[c].current /\ f.index > 0
        /\ Number(page[c].shown) < Number(f) /\ Number(f) <= Number(got[c])
        /\ Len(ts) <= TailMax /\ Sorted(ts)
        /\ \A t \in ToSet(ts) : /\ t.action = page[c].current /\ t.index > 0
                                /\ Number(f) < Number(t) /\ Number(t) <= Number(got[c])
        /\ UNCHANGED <<busVars, loopVars, conn, out, wire, got, greeting, overflow>>
  BY DrawTailFacts
<1>3. /\ page[c].current \in Actions /\ f # NoFrame
      /\ page \in [Clients -> [current : Actions, tails : Seq(Frames),
                               shown : Frames \cup {NoFrame}]]
  BY <1>1, FrameFacts DEF TypeOK
<1>4. /\ page'[c].current = page[c].current /\ page'[c].tails = ts /\ page'[c].shown = f
      /\ \A d \in Clients : d # c => page'[d] = page[d]
      /\ page' \in [Clients -> [current : Actions, tails : Seq(Frames),
                                shown : Frames \cup {NoFrame}]]
  BY <1>2, <1>3
<1>5. TypeOK'
  <2>1. \A d \in Clients : Len(out'[d]) <= OutMax /\ Len(page'[d].tails) <= TailMax
    BY <1>1, <1>2, <1>4 DEF TypeOK
  <2> QED
    BY <1>1, <1>2, <1>4, <2>1 DEF TypeOK, busVars, loopVars
<1>6. ClientInv(c)'
  <2>1. Stream(c)' = Stream(c)
    BY <1>2 DEF Stream, busVars
  <2>2. StreamInv(c)'
    BY <1>1, <1>2, <2>1 DEF ClientInv, StreamInv, busVars
  <2>3. PageInv(c)'
    <3>1. /\ conn[c] \notin {"away", "status"}
          /\ \A i \in 1..Len(wire[c]) : wire[c][i].kind # "latest"
          /\ greeting[c] # NoFrame => greeting[c].index = 0
      BY <1>1, <1>2 DEF ClientInv, PageInv
    <3> QED
      BY <1>2, <1>4, <3>1 DEF PageInv
  <2>4. NewestInv(c)'
    BY <1>1, <1>2, <1>3, <1>4, <2>1 DEF ClientInv, NewestInv, Passed, busVars
  <2> QED
    BY <2>2, <2>3, <2>4 DEF ClientInv
<1> QED
  BY <1>2, <1>4, <1>5, <1>6, OneClient

LEMMA NextHolds == IInv /\ [Next]_vars => IInv'
<1> SUFFICES ASSUME IInv, [Next]_vars PROVE IInv'
  OBVIOUS
<1>1. CASE PublishFrame
  BY <1>1, PublishFrameStep
<1>2. CASE PublishNote
  BY <1>2, PublishNoteStep
<1>3. CASE Broadcast
  BY <1>3, BroadcastStep
<1>4. CASE Signals \/ RunCallback \/ WaitForEvents \/ WakeUp \/ UNCHANGED vars
  BY <1>4, LoopStep
<1>5. ASSUME NEW c \in Clients, Handler(c) \/ Page(c) \/ Connect(c) \/ Disconnect(c)
      PROVE  IInv'
  BY <1>5, ConnectStep, GreetStep, OpenStep, SendStep, DisconnectStep, ReceiveStep, DrawTailStep
     DEF Handler, Page
<1> QED
  BY <1>1, <1>2, <1>3, <1>4, <1>5 DEF Next, Loop

-----------------------------------------------------------------------------
(* Theorems *)

\* The invariant holds in every state of EventBus, the client queues, the
\* websocket handlers and the pages, for any number of clients.
THEOREM InductiveInvariant == Spec => []IInv
<1>1. Init => IInv
  BY InitHolds
<1>2. IInv /\ [Next]_vars => IInv'
  BY NextHolds
<1> QED
  BY <1>1, <1>2, PTL DEF Spec

\* Every variable keeps its type, every buffer its bound.
THEOREM TypeCorrect == Spec => []TypeOK
<1>1. IInv => TypeOK
  BY DEF IInv
<1> QED
  BY <1>1, InductiveInvariant, PTL

\* EventBus.publish never loses the wake-up of broadcast_loop: it appends
\* under the lock and signals afterwards, and the loop checks before it waits.
THEOREM WakeUpAlwaysComes == Spec => []WakeUpComes
<1>1. IInv => WakeUpComes
  BY DEF IInv
<1> QED
  BY <1>1, InductiveInvariant, PTL

\* A page nothing was dropped on and that has read what is on its way shows
\* the newest action, whenever its websocket handler registered it: what is
\* published while the greeting is sent waits in its queue.
THEOREM PageMissesNothing == Spec => []MissesNothing
<1>1. IInv => MissesNothing
  <2> SUFFICES ASSUME IInv, NEW c \in Clients, Drained(c), ~overflow[c], latest # NoFrame
               PROVE  page[c].current = latest.action /\ page[c].shown # NoFrame
    BY DEF MissesNothing
  <2>1. Stream(c) = {} /\ ToSet(wire[c]) = {} /\ conn[c] = "open"
    BY EmptyFacts DEF Drained, Stream
  <2> QED
    BY <2>1 DEF IInv, ClientInv, NewestInv
<1> QED
  BY <1>1, InductiveInvariant, PTL

-----------------------------------------------------------------------------
(* Order *)

\* What a step does to the frames on their way to client c: a newer one comes,
\* the oldest one is read, or some are lost.
Enters(c) ==
    /\ newest' \in Frames /\ Number(newest) < Number(newest')
    /\ Stream(c)' \subseteq Stream(c) \cup {newest'}
    /\ got'[c] = got[c]

IsRead(c) ==
    /\ got'[c] \in Stream(c) /\ Stream(c)' = Stream(c) \ {got'[c]}
    /\ \A f \in Stream(c) : Number(got'[c]) <= Number(f)
    /\ newest' = newest

AreLost(c) == Stream(c)' \subseteq Stream(c) /\ newest' = newest /\ got'[c] = got[c]

Moves(c) == Enters(c) \/ IsRead(c) \/ AreLost(c)

LEMMA PublishMoves ==
    ASSUME IInv, PublishFrame \/ PublishNote, NEW c \in Clients PROVE Moves(c)
<1>1. TypeOK /\ BusInv
  BY DEF IInv
<1>2. UNCHANGED <<wire, out, got>>
  BY DEF PublishFrame, PublishNote
<1>3. CASE PublishFrame
  <2>1. PICK f \in NextFrames : Publish("jpeg", f) /\ newest' = f
    BY <1>3 DEF PublishFrame
  <2>2. f \in Frames /\ Number(newest) < Number(f)
    BY <1>1, NextFrameFacts
  <2>3. f \in Events /\ "jpeg" \in Publishers
    BY <2>2 DEF Events, Publishers
  <2>4. FramesIn(bus') \subseteq FramesIn(bus) \cup ({f} \cap Frames)
    BY <1>1, <2>1, <2>3, PublishFacts
  <2>5. Stream(c)' \subseteq Stream(c) \cup {f}
    BY <1>2, <2>4 DEF Stream
  <2> QED
    BY <1>2, <2>1, <2>2, <2>5 DEF Moves, Enters
<1>4. CASE PublishNote
  <2>1. Publish("other", Note) /\ newest' = newest
    BY <1>4 DEF PublishNote
  <2>2. Note \in Events /\ "other" \in Publishers /\ Note \notin Frames
    BY FrameFacts DEF Events, Publishers
  <2>3. FramesIn(bus') \subseteq FramesIn(bus) \cup ({Note} \cap Frames)
    BY <1>1, <2>1, <2>2, PublishFacts
  <2>4. Stream(c)' \subseteq Stream(c)
    BY <1>2, <2>2, <2>3 DEF Stream
  <2> QED
    BY <1>2, <2>1, <2>4 DEF Moves, AreLost
<1> QED
  BY <1>3, <1>4

LEMMA BroadcastMoves == ASSUME IInv, Broadcast, NEW c \in Clients PROVE Moves(c)
<1> DEFINE e == Head(bus)
<1>1. /\ bus # <<>> /\ bus' = Tail(bus)
      /\ out' = [d \in Clients |-> IF Registered(d) THEN Put(out[d], e) ELSE out[d]]
      /\ UNCHANGED <<newest, wire, got>>
  BY DEF Broadcast
<1>2. /\ TypeOK /\ bus \in Seq(Events) /\ Len(bus) \in Nat \ {0}
      /\ e \in Events /\ e = bus[1] /\ bus' \in Seq(Events) /\ Without(bus', bus, 1)
      /\ IsFrame(e) <=> e \in Frames
  BY <1>1, TypeFacts, TailFacts, ItemFacts DEF IInv
<1> HIDE DEF e
<1>3. FramesIn(bus') \subseteq FramesIn(bus)
  BY <1>2, WithoutFacts
<1>4. {e} \cap Frames \subseteq FramesIn(bus)
  <2>1. 1 \in 1..Len(bus)
    BY <1>2
  <2> QED
    BY <1>2, <2>1, Members
<1>5. FramesIn(out'[c]) \subseteq FramesIn(out[c]) \cup ({e} \cap Frames)
  <2>1. out[c] \in Seq(Events) /\ Len(out[c]) <= OutMax
    BY <1>2, TypeFacts
  <2>2. CASE Registered(c)
    BY <1>1, <1>2, <2>1, <2>2, PutKeeps
  <2>3. CASE ~Registered(c)
    BY <1>1, <2>3
  <2> QED
    BY <2>2, <2>3
<1>6. Stream(c)' \subseteq Stream(c)
  BY <1>1, <1>3, <1>4, <1>5 DEF Stream
<1> QED
  BY <1>1, <1>6 DEF Moves, AreLost

\* The steps of client c; those of another client do not concern it.
LEMMA ClientMoves ==
    ASSUME IInv, NEW d \in Clients, Handler(d) \/ Page(d) \/ Connect(d) \/ Disconnect(d),
           NEW c \in Clients
    PROVE  Moves(c)
<1>1. TypeOK /\ ClientInv(c) /\ ClientInv(d)
  BY DEF IInv
<1>2. /\ wire \in [Clients -> Seq(Items)] /\ out \in [Clients -> Seq(Events)]
      /\ got \in [Clients -> Frames \cup {NoFrame}]
  BY <1>1 DEF TypeOK, Events
<1>3. UNCHANGED busVars
  BY DEF Handler, Greet, Open, Send, Page, Receive, DrawTail, Connect, Disconnect
<1>4. CASE c # d
  <2>1. wire'[c] = wire[c] /\ out'[c] = out[c] /\ got'[c] = got[c]
    BY <1>2, <1>4 DEF Handler, Greet, Open, Send, Page, Receive, DrawTail, Connect, Disconnect
  <2> QED
    BY <1>3, <2>1 DEF Moves, AreLost, Stream, busVars
<1>5. CASE c = d /\ Greet(c)
  <2>1. UNCHANGED <<out, got>>
    BY <1>5 DEF Greet
  <2>2. FramesIn(wire'[c]) = FramesIn(wire[c])
    <3>1. CASE latest = NoFrame
      BY <1>5, <3>1 DEF Greet
    <3>2. CASE latest # NoFrame
      <4>1. latest \in Frames
        BY <1>1, <3>2, TypeFacts
      <4>2. Latest(latest) \in Items /\ ~IsFrame(Latest(latest))
        BY <4>1, ItemFacts DEF IsFrame
      <4>3. wire'[c] = Append(wire[c], Latest(latest))
        BY <1>2, <1>5, <3>2 DEF Greet
      <4> DEFINE l == Latest(latest)
      <4> HIDE DEF l
      <4>4. l \in Items /\ ~IsFrame(l) /\ wire'[c] = Append(wire[c], l) /\ wire[c] \in Seq(Items)
        BY <1>2, <4>2, <4>3 DEF l
      <4> QED
        BY <4>4, AppendFacts
    <3> QED
      BY <3>1, <3>2
  <2> QED
    BY <1>3, <2>1, <2>2 DEF Moves, AreLost, Stream, busVars
<1>6. CASE c = d /\ Open(c)
  BY <1>3, <1>6 DEF Open, Moves, AreLost, Stream, busVars
<1>7. CASE c = d /\ Send(c)
  <2> DEFINE e == Head(out[c])
  <2>1. /\ out[c] # <<>> /\ wire'[c] = Append(wire[c], e) /\ out'[c] = Tail(out[c])
        /\ got' = got
    BY <1>2, <1>7 DEF Send
  <2>2. /\ e \in Events /\ e \in Items /\ e = out[c][1] /\ out'[c] \in Seq(Events)
        /\ Without(out'[c], out[c], 1) /\ Len(out[c]) \in Nat \ {0}
    BY <1>2, <2>1, TailFacts, ItemFacts
  <2> HIDE DEF e
  <2>3. FramesIn(out'[c]) \subseteq FramesIn(out[c])
    BY <1>2, <2>2, WithoutFacts
  <2>4. IsFrame(e) => e \in FramesIn(out[c])
    <3>1. 1 \in 1..Len(out[c])
      BY <2>2
    <3> QED
      BY <1>2, <2>2, <3>1, Members
  <2>5. FramesIn(wire'[c]) \subseteq FramesIn(wire[c]) \cup FramesIn(out[c])
    <3>1. CASE IsFrame(e)
      BY <1>2, <2>1, <2>2, <2>4, <3>1, AppendFacts
    <3>2. CASE ~IsFrame(e)
      BY <1>2, <2>1, <2>2, <3>2, AppendFacts
    <3> QED
      BY <3>1, <3>2
  <2> QED
    BY <1>3, <2>1, <2>3, <2>5 DEF Moves, AreLost, Stream, busVars
<1>8. CASE c = d /\ Connect(c)
  <2>1. wire'[c] = <<Note>> /\ UNCHANGED <<out, got>>
    BY <1>2, <1>8 DEF Connect
  <2> QED
    BY <1>3, <2>1, NoteAlone DEF Moves, AreLost, Stream, busVars
<1>9. CASE c = d /\ Disconnect(c)
  <2>1. wire'[c] = <<>> /\ out'[c] \in {<<>>, out[c]} /\ got' = got
    BY <1>2, <1>9 DEF Disconnect
  <2> QED
    BY <1>3, <2>1, EmptyFacts DEF Moves, AreLost, Stream, busVars
<1>10. CASE c = d /\ DrawTail(c)
  BY <1>3, <1>10 DEF DrawTail, Moves, AreLost, Stream, busVars
<1>11. CASE c = d /\ Receive(c)
  <2>1. PICK e \in Items :
          /\ wire[c] # <<>> /\ e = wire[c][1]
          /\ wire'[c] \in Seq(Items) /\ Without(wire'[c], wire[c], 1)
          /\ \/ e = Note /\ UNCHANGED <<page, got>>
             \/ e = Latest(greeting[c]) /\ greeting[c] \in Frames /\ got' = got
             \/ e \in Frames /\ got'[c] = e
          /\ UNCHANGED <<busVars, loopVars, conn, out, greeting, overflow>>
    BY <1>11, ReceivedPage
  <2> DEFINE w == wire'[c]
             rest == FramesIn(bus) \cup FramesIn(out[c]) \cup FramesIn(w)
  <2>2. Stream(c)' = rest
    BY <2>1 DEF Stream, busVars
  <2>3. w \in Seq(Items) /\ Without(w, wire[c], 1)
    BY <2>1
  <2> HIDE DEF w
  <2>4. /\ rest \subseteq Stream(c) /\ Stream(c) \subseteq rest \cup {e}
        /\ e \in Frames => /\ e \in Stream(c) /\ \A f \in rest : Number(e) < Number(f)
        /\ \A f \in rest : f \in Frames
    <3>1. /\ rest \subseteq Stream(c) /\ Stream(c) \subseteq rest \cup {e}
          /\ e \in Frames => e \in Stream(c) /\ \A f \in rest : Number(e) < Number(f)
      BY <1>1, <2>1, <2>3, HeadIsOldest
    <3> QED
      BY <1>1, <3>1, TypeFacts
  <2> HIDE DEF rest
  <2>5. CASE e \in Frames /\ got'[c] = e
    <3>1. Number(e) \in Nat /\ \A f \in rest : Number(f) \in Nat
      BY <2>4, <2>5, FrameFacts
    <3>2. e \notin rest
      BY <2>4, <2>5, <3>1
    <3>3. rest = Stream(c) \ {e}
      BY <2>4, <3>2
    <3>4. \A f \in Stream(c) : Number(e) <= Number(f)
      BY <2>4, <2>5, <3>1
    <3> QED
      BY <1>3, <2>2, <2>4, <2>5, <3>3, <3>4 DEF Moves, IsRead, busVars
  <2>6. CASE got' = got
    BY <1>3, <2>2, <2>4, <2>6 DEF Moves, AreLost, busVars
  <2> QED
    BY <2>1, <2>5, <2>6
<1> QED
  BY <1>4, <1>5, <1>6, <1>7, <1>8, <1>9, <1>10, <1>11 DEF Handler, Page

LEMMA EveryStepMoves == ASSUME IInv, [Next]_vars, NEW c \in Clients PROVE Moves(c)
<1>1. CASE Signals \/ RunCallback \/ WaitForEvents \/ WakeUp \/ UNCHANGED vars
  <2>1. UNCHANGED <<bus, newest, out, wire, got>>
    BY <1>1 DEF Signals, Signal, RunCallback, WaitForEvents, WakeUp, vars, busVars, clientVars
  <2> QED
    BY <2>1 DEF Moves, AreLost, Stream
<1> QED
  BY <1>1, PublishMoves, BroadcastMoves, ClientMoves DEF Next, Loop

\* Numbers tell frames apart, so that what holds of frames holds of numbers.
LEMMA MovesNumbers ==
    ASSUME IInv, NEW c \in Clients, Moves(c)
    PROVE  [Channel(c)!Next]_(Channel(c)!vars)
<1> DEFINE F(S) == {Number(f) : f \in S}
<1>1. Stream(c) \subseteq Frames
  BY TypeFacts DEF IInv
<1>2. CASE Enters(c)
  <2>1. F(Stream(c)') \subseteq F(Stream(c)) \cup {Number(newest')}
    BY <1>2 DEF Enters
  <2>2. Number(newest') > Number(newest) /\ Number(got'[c]) = Number(got[c])
    <3>1. Number(newest) \in Int /\ Number(newest') \in Int
      BY <1>2, TypeFacts, FrameFacts DEF Enters, IInv
    <3> QED
      BY <1>2, <3>1 DEF Enters
  <2>3. Channel(c)!Send
    BY <2>1, <2>2 DEF Channel!Send, Stream
  <2> QED
    BY <2>3 DEF Channel!Next
<1>3. CASE IsRead(c)
  <2> DEFINE e == got'[c]
  <2>1. /\ Number(e) \in F(Stream(c)) /\ \A n \in F(Stream(c)) : Number(e) <= n
        /\ Number(newest') = Number(newest)
    BY <1>3 DEF IsRead
  <2>2. F(Stream(c)') = F(Stream(c)) \ {Number(e)}
    <3>1. e \in Stream(c) /\ Stream(c)' = Stream(c) \ {e}
      BY <1>3 DEF IsRead
    <3>2. \A f \in Stream(c) : Number(f) = Number(e) => f = e
      BY <1>1, <3>1, NumberOrder
    <3> HIDE DEF e
    <3> QED
      BY <3>1, <3>2
  <2>3. Channel(c)!Deliver
    BY <2>1, <2>2 DEF Channel!Deliver, Stream
  <2> QED
    BY <2>3 DEF Channel!Next
<1>4. CASE AreLost(c)
  <2>1. /\ F(Stream(c)') \subseteq F(Stream(c))
        /\ Number(newest') = Number(newest) /\ Number(got'[c]) = Number(got[c])
    BY <1>4 DEF AreLost
  <2>2. Channel(c)!Lose
    BY <2>1 DEF Channel!Lose, Stream
  <2> QED
    BY <2>2 DEF Channel!Next
<1> QED
  BY <1>2, <1>3, <1>4 DEF Moves

\* Between EventBus.publish and onmessage of the page every client sees an
\* order-preserving lossy channel: EventDelivery implements LossyFifo once for
\* each client.
THEOREM EveryClientInOrder == Spec => ClientsInOrder
<1>1. Init => \A c \in Clients : Channel(c)!Init
  <2> SUFFICES ASSUME Init, NEW c \in Clients PROVE Channel(c)!Init
    OBVIOUS
  <2>1. newest = NoFrame /\ got[c] = NoFrame /\ Stream(c) = {}
    BY EmptyFacts DEF Init, Stream
  <2> QED
    BY <2>1, NoFrameFacts DEF Channel!Init, Stream
<1>2. IInv /\ [Next]_vars => [\A c \in Clients : [Channel(c)!Next]_(Channel(c)!vars)]_vars
  BY EveryStepMoves, MovesNumbers
<1> QED
  BY <1>1, <1>2, InductiveInvariant, PTL DEF Spec, ClientsInOrder

-----------------------------------------------------------------------------
(* The screen *)

LEMMA ScreenLemma == ASSUME IInv, [Next]_vars PROVE ScreenStep
<1>1. TypeOK
  BY DEF IInv
<1> SUFFICES ASSUME NEW c \in Clients,
                    page'[c].shown # page[c].shown,
                    NoFrame \notin {page[c].shown, page'[c].shown}
             PROVE  /\ \/ Number(page'[c].shown) > Number(page[c].shown)
                       \/ page[c].shown = greeting[c]
                    /\ page'[c].shown.index > 0 =>
                           page'[c].shown.action = page[c].shown.action
  BY DEF ScreenStep
<1>2. /\ page[c].shown \in Frames /\ Number(page[c].shown) \in Nat
      /\ page[c].shown.action = page[c].current
      /\ page[c].shown = greeting[c] \/ Number(page[c].shown) <= Number(got[c])
      /\ Number(got[c]) \in Int
  <2>1. page[c].shown \in Frames /\ Number(got[c]) \in Int
    BY <1>1, TypeFacts
  <2> QED
    BY <2>1, FrameFacts DEF IInv, ClientInv, PageInv
<1>3. CASE Receive(c)
  <2>1. PICK e \in Items :
          /\ wire[c] # <<>> /\ e = wire[c][1]
          /\ wire'[c] \in Seq(Items) /\ Without(wire'[c], wire[c], 1)
          /\ \/ e = Note /\ UNCHANGED <<page, got>>
             \/ e = Latest(greeting[c]) /\ page[c] = BlankPage
             \/ e \in Frames /\ got'[c] = e
          /\ \A f \in Frames :
               e = Latest(f) \/ e = f =>
                   /\ f.index = 0 => page'[c].current = f.action /\ page'[c].shown = f
                   /\ f.index # 0 => /\ page'[c].current = page[c].current
                                     /\ page'[c].shown = page[c].shown
    BY <1>3, ReceivedPage
  <2>2. e \in Frames /\ e.index = 0 /\ page'[c].shown = e
    BY <2>1 DEF BlankPage
  <2>3. Number(got[c]) < Number(e) /\ Number(e) \in Nat
    <3> DEFINE w == wire'[c]
    <3>1. w \in Seq(Items) /\ Without(w, wire[c], 1)
      BY <2>1
    <3> HIDE DEF w
    <3>2. Number(got[c]) < Number(e)
      BY <1>1, <2>1, <2>2, <3>1, HeadIsOldest DEF IInv
    <3> QED
      BY <2>2, <3>2, FrameFacts
  <2> QED
    BY <1>2, <2>2, <2>3
<1>4. CASE DrawTail(c)
  <2>1. PICK f \in Frames, ts \in Seq(Frames) :
          /\ page' = [page EXCEPT ![c] =
                         [current |-> page[c].current, tails |-> ts, shown |-> f]]
          /\ f.action = page[c].current /\ Number(page[c].shown) < Number(f)
    BY <1>4, DrawTailFacts
  <2>2. page'[c].shown = f /\ Number(f) \in Nat
    BY <1>1, <2>1, FrameFacts DEF TypeOK
  <2> QED
    BY <1>2, <2>1, <2>2
<1>5. CASE Disconnect(c)
  <2>1. page'[c] = BlankPage
    BY <1>1, <1>5 DEF Disconnect, TypeOK
  <2> QED
    BY <2>1 DEF BlankPage
<1>6. page'[c] # page[c] => Receive(c) \/ DrawTail(c) \/ Disconnect(c)
  <2>1. CASE \/ PublishFrame \/ PublishNote \/ Signals \/ Loop \/ UNCHANGED vars
             \/ \E d \in Clients : Handler(d) \/ Connect(d)
    <3>1. page' = page
      BY <2>1 DEF PublishFrame, PublishNote, Signals, Signal, Loop, RunCallback, Broadcast,
                  WaitForEvents, WakeUp, vars, clientVars, Handler, Greet, Open, Send, Connect
    <3> QED
      BY <3>1
  <2>2. CASE \E d \in Clients : Page(d) \/ Disconnect(d)
    <3>1. PICK d \in Clients : Receive(d) \/ DrawTail(d) \/ Disconnect(d)
      BY <2>2 DEF Page
    <3>2. d # c => page'[c] = page[c]
      BY <1>1, <3>1 DEF Receive, DrawTail, Disconnect, TypeOK
    <3> QED
      BY <3>1, <3>2
  <2> QED
    BY <2>1, <2>2 DEF Next
<1> QED
  BY <1>3, <1>4, <1>5, <1>6

\* receiveFrame and the timer of web/app.js never take the screen back to an
\* older frame, except after the greeting, and draw a tail only on top of a
\* frame of its own action.
THEOREM ScreenAlwaysForward == Spec => ScreenGoesForward
<1>1. IInv /\ [Next]_vars => [ScreenStep]_vars
  BY ScreenLemma
<1> QED
  BY <1>1, InductiveInvariant, PTL DEF Spec, ScreenGoesForward
=============================================================================
