-------------------------- MODULE TouchPathProofs --------------------------
(***************************************************************************)
(* Proofs about TouchPath for every number of fingers, samples and events  *)
(* on the link.                                                            *)
(***************************************************************************)
EXTENDS TouchPath, TLAPS, SequenceTheorems, FiniteSetTheorems

-----------------------------------------------------------------------------
(***************************************************************************)
(* Three facts about a link l with the buffered move b, the fingers f, the *)
(* samples n, the last samples la, the displaced d and the host's state s, *)
(* pointer a and cursor c.  They are stated of values, not of variables:   *)
(* a transition sends the buffered move and then its own events.           *)
(***************************************************************************)
UpOf(event, p) == event.phase = "Up" /\ event.pointer = p
DownOf(event, p) == event.phase = "Down" /\ event.pointer = p

\* Positions do not decrease from the cursor over the link to the buffer.
Ordered(l, b, n, c) ==
    /\ n \in 0..MaxSamples /\ c \in 0..n
    /\ \A i \in 1..Len(l) : c <= l[i].at /\ l[i].at <= n
    /\ \A i, j \in 1..Len(l) : i <= j => l[i].at <= l[j].at
    /\ b # NoEvent => /\ c <= b.at /\ b.at <= n
                      /\ \A i \in 1..Len(l) : l[i].at <= b.at

\* Every press is of a finger on the screen or has its release behind it, and
\* no finger's presses follow each other without a release.
Ended(l, f, s, a) ==
    /\ \A i \in 1..Len(l) : l[i].phase = "Down" =>
          l[i].pointer \in f \/ \E j \in i + 1..Len(l) : UpOf(l[j], l[i].pointer)
    /\ s # "Idle" => a \in f \/ \E j \in 1..Len(l) : UpOf(l[j], a)
    /\ \A i, k \in 1..Len(l) :
          i < k /\ l[i].phase = "Down" /\ DownOf(l[k], l[i].pointer) =>
              \E j \in i + 1..k - 1 : UpOf(l[j], l[i].pointer)
    /\ s # "Idle" => \A k \in 1..Len(l) :
          DownOf(l[k], a) => \E j \in 1..k - 1 : UpOf(l[j], a)

\* The newest event of a finger that was not displaced is its last sample, and
\* the cursor is, when none of its events is on its way.
Newest(l, b, i) ==
    /\ b.pointer # l[i].pointer
    /\ \A j \in i + 1..Len(l) : l[j].pointer # l[i].pointer

Followed(l, b, f, la, d, s, a, c) ==
    /\ d \subseteq f
    /\ b # NoEvent => b.pointer \in f /\ b.phase = "Move"
    /\ b # NoEvent /\ b.pointer \notin d => b.at = la[b.pointer]
    /\ \A i \in 1..Len(l) :
          l[i].pointer \notin d /\ Newest(l, b, i) => l[i].at = la[l[i].pointer]
    /\ s # "Idle" /\ a \notin d /\ b.pointer # a /\ (\A i \in 1..Len(l) : l[i].pointer # a)
          => c = la[a]

-----------------------------------------------------------------------------
(***************************************************************************)
(* Events put on the link.                                                 *)
(***************************************************************************)
LEMMA Joined ==
    ASSUME NEW l \in Seq(Event), NEW m \in Seq(Event)
    PROVE  /\ l \o m \in Seq(Event)
           /\ Len(l) \in Nat /\ Len(m) \in Nat /\ Len(l \o m) = Len(l) + Len(m)
           /\ \A i \in 1..Len(l) : (l \o m)[i] = l[i]
           /\ \A i \in 1..Len(m) : (l \o m)[Len(l) + i] = m[i]
           /\ \A i \in 1..Len(l \o m) :
                 i \in 1..Len(l) \/ (i - Len(l) \in 1..Len(m) /\ (l \o m)[i] = m[i - Len(l)])
<1>1. /\ l \o m \in Seq(Event) /\ Len(l \o m) = Len(l) + Len(m)
      /\ \A i \in 1..Len(l) + Len(m) :
            (l \o m)[i] = IF i <= Len(l) THEN l[i] ELSE m[i - Len(l)]
      /\ Len(l) \in Nat /\ Len(m) \in Nat
  BY ConcatProperties, LenProperties
<1>2. \A i \in 1..Len(l) : (l \o m)[i] = l[i]
  BY <1>1
<1>3. \A i \in 1..Len(m) : (l \o m)[Len(l) + i] = m[i]
  <2> SUFFICES ASSUME NEW i \in 1..Len(m) PROVE (l \o m)[Len(l) + i] = m[i]
    OBVIOUS
  <2>1. Len(l) + i \in 1..Len(l) + Len(m) /\ ~(Len(l) + i <= Len(l)) /\ (Len(l) + i) - Len(l) = i
    BY <1>1
  <2>2. QED
    BY <1>1, <2>1
<1>4. \A i \in 1..Len(l \o m) :
         i \in 1..Len(l) \/ (i - Len(l) \in 1..Len(m) /\ (l \o m)[i] = m[i - Len(l)])
  BY <1>1
<1>5. QED
  BY <1>1, <1>2, <1>3, <1>4

LEMMA OrderedMore ==
    ASSUME NEW l \in Seq(Event), NEW m \in Seq(Event), NEW b, NEW n, NEW c, Ordered(l, b, n, c),
           NEW n2 \in n..MaxSamples, NEW at \in c..n2,
           \A i \in 1..Len(l) : l[i].at <= at,
           \A i \in 1..Len(m) : m[i].at = at
    PROVE  Ordered(l \o m, NoEvent, n2, c)
<1> DEFINE r == l \o m
<1>1. /\ Len(l) \in Nat /\ Len(m) \in Nat /\ Len(r) = Len(l) + Len(m)
      /\ \A i \in 1..Len(l) : r[i] = l[i]
      /\ \A i \in 1..Len(r) : i \in 1..Len(l) \/ (i - Len(l) \in 1..Len(m) /\ r[i] = m[i - Len(l)])
  BY Joined
<1> HIDE DEF r
<1>2. \A i \in 1..Len(l) : l[i].at \in Nat
  <2>1. \A i \in 1..Len(l) : l[i] \in Event
    BY ElementOfSeq
  <2>2. \A e \in Event : e.at \in Nat
    BY DEF Event
  <2>3. QED
    BY <2>1, <2>2
<1>3. /\ n \in Nat /\ c \in Nat /\ c <= n /\ n2 \in Nat /\ at \in Nat /\ n2 \in 0..MaxSamples
      /\ c \in 0..n2 /\ n <= n2 /\ at <= n2 /\ c <= at
  <2>1. MaxSamples \in Nat
    BY TouchAssumption
  <2>2. QED
    BY <2>1 DEF Ordered
<1>4. \A i \in 1..Len(r) : c <= r[i].at /\ r[i].at <= n2
  <2> SUFFICES ASSUME NEW i \in 1..Len(r) PROVE c <= r[i].at /\ r[i].at <= n2
    OBVIOUS
  <2>1. CASE i \in 1..Len(l)
    <3>1. c <= l[i].at /\ l[i].at <= n /\ r[i] = l[i]
      BY <1>1, <2>1 DEF Ordered
    <3>2. QED
      BY <1>2, <1>3, <2>1, <3>1
  <2>2. CASE i - Len(l) \in 1..Len(m) /\ r[i] = m[i - Len(l)]
    BY <1>3, <2>2
  <2>3. QED
    BY <1>1, <2>1, <2>2
<1>5. \A i, j \in 1..Len(r) : i <= j => r[i].at <= r[j].at
  <2> SUFFICES ASSUME NEW i \in 1..Len(r), NEW j \in 1..Len(r), i <= j
               PROVE  r[i].at <= r[j].at
    OBVIOUS
  <2>1. CASE j \in 1..Len(l)
    <3>1. i \in 1..Len(l)
      BY <1>1, <2>1
    <3>2. QED
      BY <1>1, <2>1, <3>1 DEF Ordered
  <2>2. CASE j - Len(l) \in 1..Len(m) /\ r[j] = m[j - Len(l)]
    <3>1. r[j].at = at
      BY <2>2
    <3>2. r[i].at <= at
      <4>1. CASE i \in 1..Len(l)
        BY <1>1, <4>1
      <4>2. CASE i - Len(l) \in 1..Len(m) /\ r[i] = m[i - Len(l)]
        BY <1>3, <4>2
      <4>3. QED
        BY <1>1, <4>1, <4>2
    <3>3. QED
      BY <3>1, <3>2
  <2>3. QED
    BY <1>1, <2>1, <2>2
<1>6. QED
  BY <1>3, <1>4, <1>5 DEF Ordered, r

LEMMA EndedMore ==
    ASSUME NEW l \in Seq(Event), NEW m \in Seq(Event), NEW f, NEW f2, NEW s, NEW a,
           Ended(l, f, s, a),
           \A p \in f \ f2 : \E j \in 1..Len(m) : UpOf(m[j], p),
           \A i \in 1..Len(m) : m[i].phase = "Down" =>
               i = 1 /\ Len(m) = 1 /\ m[i].pointer \in f2 \ f
    PROVE  Ended(l \o m, f2, s, a)
<1> DEFINE r == l \o m
<1>1. /\ Len(l) \in Nat /\ Len(m) \in Nat /\ Len(r) = Len(l) + Len(m)
      /\ \A i \in 1..Len(l) : r[i] = l[i]
      /\ \A i \in 1..Len(m) : r[Len(l) + i] = m[i]
      /\ \A i \in 1..Len(r) : i \in 1..Len(l) \/ (i - Len(l) \in 1..Len(m) /\ r[i] = m[i - Len(l)])
  BY Joined
<1> HIDE DEF r
\* A finger that was down is down, or its release is among the new events.
<1>2. ASSUME NEW p \in f
      PROVE  p \in f2 \/ \E j \in Len(l) + 1..Len(r) : UpOf(r[j], p)
  <2>1. CASE p \notin f2
    <3>1. PICK j \in 1..Len(m) : UpOf(m[j], p)
      BY <2>1
    <3>2. Len(l) + j \in Len(l) + 1..Len(r) /\ r[Len(l) + j] = m[j]
      BY <1>1
    <3>3. QED
      BY <3>1, <3>2
  <2>2. QED
    BY <2>1
\* A release on the link stays there.
<1>3. ASSUME NEW p, NEW i \in 0..Len(l), NEW j \in i + 1..Len(l), UpOf(l[j], p)
      PROVE  \E k \in i + 1..Len(r) : UpOf(r[k], p)
  <2>1. j \in i + 1..Len(r) /\ r[j] = l[j]
    BY <1>1
  <2>2. QED
    BY <1>3, <2>1
<1>4. ASSUME NEW i \in 1..Len(r), r[i].phase = "Down"
      PROVE  r[i].pointer \in f2 \/ \E j \in i + 1..Len(r) : UpOf(r[j], r[i].pointer)
  <2>1. CASE i \in 1..Len(l)
    <3>1. r[i] = l[i] /\ i \in 0..Len(l)
      BY <1>1, <2>1
    <3>2. CASE l[i].pointer \in f
      <4>1. \A j \in Len(l) + 1..Len(r) : j \in i + 1..Len(r)
        BY <1>1, <2>1
      <4>2. QED
        BY <1>2, <3>1, <3>2, <4>1
    <3>3. CASE \E j \in i + 1..Len(l) : UpOf(l[j], l[i].pointer)
      BY <1>3, <3>1, <3>3
    <3>4. QED
      BY <1>4, <2>1, <3>1, <3>2, <3>3 DEF Ended
  <2>2. CASE i - Len(l) \in 1..Len(m) /\ r[i] = m[i - Len(l)]
    BY <1>4, <2>2
  <2>3. QED
    BY <1>1, <2>1, <2>2
<1>5. ASSUME s # "Idle"
      PROVE  a \in f2 \/ \E j \in 1..Len(r) : UpOf(r[j], a)
  <2>1. CASE a \in f
    <3>1. \A j \in Len(l) + 1..Len(r) : j \in 1..Len(r)
      BY <1>1
    <3>2. QED
      BY <1>2, <2>1, <3>1
  <2>2. CASE \E j \in 1..Len(l) : UpOf(l[j], a)
    <3>1. \A j \in 1..Len(l) : j \in 1..Len(r) /\ r[j] = l[j]
      BY <1>1
    <3>2. QED
      BY <2>2, <3>1
  <2>3. QED
    BY <1>5, <2>1, <2>2 DEF Ended
\* A new press is alone, and every older event of its finger is on the link.
<1>6. ASSUME NEW k \in 1..Len(r), r[k].phase = "Down", k \notin 1..Len(l)
      PROVE  k = Len(l) + 1 /\ r[k].pointer \notin f
  <2>1. k - Len(l) \in 1..Len(m) /\ r[k] = m[k - Len(l)]
    BY <1>1, <1>6
  <2>2. k - Len(l) = 1 /\ r[k].pointer \notin f
    BY <1>6, <2>1
  <2>3. QED
    BY <1>1, <2>2
<1>7. ASSUME NEW i \in 1..Len(r), NEW k \in 1..Len(r), i < k, r[i].phase = "Down",
             DownOf(r[k], r[i].pointer)
      PROVE  \E j \in i + 1..k - 1 : UpOf(r[j], r[i].pointer)
  <2>1. CASE k \in 1..Len(l)
    <3>1. i \in 1..Len(l) /\ \A j \in i + 1..k - 1 : j \in 1..Len(l)
      BY <1>1, <1>7, <2>1
    <3>2. PICK j \in i + 1..k - 1 : UpOf(l[j], l[i].pointer)
      BY <1>1, <1>7, <2>1, <3>1 DEF Ended
    <3>3. QED
      BY <1>1, <3>1, <3>2
  <2>2. CASE k \notin 1..Len(l)
    <3>1. k = Len(l) + 1 /\ r[k].pointer \notin f
      BY <1>6, <1>7, <2>2 DEF DownOf
    <3>2. i \in 1..Len(l) /\ r[i] = l[i] /\ l[i].pointer \notin f
      BY <1>1, <1>7, <3>1 DEF DownOf
    <3>3. PICK j \in i + 1..Len(l) : UpOf(l[j], l[i].pointer)
      BY <1>7, <3>2 DEF Ended
    <3>4. j \in i + 1..k - 1 /\ r[j] = l[j]
      BY <1>1, <3>1, <3>2
    <3>5. QED
      BY <3>2, <3>3, <3>4
  <2>3. QED
    BY <2>1, <2>2
<1>8. ASSUME s # "Idle", NEW k \in 1..Len(r), DownOf(r[k], a)
      PROVE  \E j \in 1..k - 1 : UpOf(r[j], a)
  <2>1. CASE k \in 1..Len(l)
    <3>1. \A j \in 1..k - 1 : j \in 1..Len(l)
      BY <1>1, <2>1
    <3>2. PICK j \in 1..k - 1 : UpOf(l[j], a)
      BY <1>1, <1>8, <2>1 DEF Ended
    <3>3. QED
      BY <1>1, <3>1, <3>2
  <2>2. CASE k \notin 1..Len(l)
    <3>1. k = Len(l) + 1 /\ a \notin f
      BY <1>6, <1>8, <2>2 DEF DownOf
    <3>2. PICK j \in 1..Len(l) : UpOf(l[j], a)
      BY <1>8, <3>1 DEF Ended
    <3>3. j \in 1..k - 1 /\ r[j] = l[j]
      BY <1>1, <3>1
    <3>4. QED
      BY <3>2, <3>3
  <2>3. QED
    BY <2>1, <2>2
<1>9. QED
  BY <1>4, <1>5, <1>7, <1>8 DEF Ended, r

\* The buffered move is sent.
LEMMA FollowedFlush ==
    ASSUME NEW l \in Seq(Event), NEW b \in Event, b # NoEvent, NEW f, NEW la, NEW d, NEW s, NEW a,
           NEW c, Followed(l, b, f, la, d, s, a, c)
    PROVE  Followed(l \o <<b>>, NoEvent, f, la, d, s, a, c)
<1> DEFINE r == l \o <<b>>
<1>1. /\ Len(l) \in Nat /\ Len(r) = Len(l) + 1
      /\ \A i \in 1..Len(l) : r[i] = l[i]
      /\ r[Len(l) + 1] = b
  <2>1. <<b>> \in Seq(Event) /\ Len(<<b>>) = 1 /\ <<b>>[1] = b
    OBVIOUS
  <2>2. QED
    BY <2>1, Joined
<1> HIDE DEF r
<1>2. ASSUME NEW i \in 1..Len(r), r[i].pointer \notin d, Newest(r, NoEvent, i)
      PROVE  r[i].at = la[r[i].pointer]
  <2>1. CASE i = Len(l) + 1
    BY <1>1, <1>2, <2>1 DEF Followed
  <2>2. CASE i # Len(l) + 1
    <3>1. i \in 1..Len(l) /\ r[i] = l[i] /\ Len(l) + 1 \in i + 1..Len(r)
      BY <1>1, <2>2
    <3>2. \A j \in i + 1..Len(l) : j \in i + 1..Len(r) /\ r[j] = l[j]
      BY <1>1, <3>1
    <3>3. Newest(l, b, i)
      BY <1>1, <1>2, <3>1, <3>2 DEF Newest
    <3>4. QED
      BY <1>2, <3>1, <3>3 DEF Followed
  <2>3. QED
    BY <2>1, <2>2
<1>3. ASSUME s # "Idle", a \notin d, \A i \in 1..Len(r) : r[i].pointer # a
      PROVE  c = la[a]
  <2>1. \A i \in 1..Len(l) : i \in 1..Len(r) /\ r[i] = l[i]
    BY <1>1
  <2>2. Len(l) + 1 \in 1..Len(r)
    BY <1>1
  <2>3. b.pointer # a /\ \A i \in 1..Len(l) : l[i].pointer # a
    BY <1>1, <1>3, <2>1, <2>2
  <2>4. QED
    BY <1>3, <2>3 DEF Followed
<1>4. QED
  BY <1>2, <1>3 DEF Followed, r

\* The events m are the last samples of their fingers, taken at one time; the
\* other fingers' last samples stay, and whether they were displaced.
Latest(m, at, la, la2, d, d2) ==
    /\ \A i \in 1..Len(m) : m[i].at = at /\ la2[m[i].pointer] = at
    /\ \A p \in Pointers :
          (\A i \in 1..Len(m) : m[i].pointer # p) => la2[p] = la[p] /\ (p \in d => p \in d2)

LEMMA FollowedMore ==
    ASSUME NEW l \in Seq(Event), NEW m \in Seq(Event), NEW f, NEW la, NEW d, NEW s, NEW a, NEW c,
           Followed(l, NoEvent, f, la, d, s, a, c),
           NEW f2, NEW la2, NEW d2, NEW at,
           d2 \subseteq f2, Latest(m, at, la, la2, d, d2),
           s = "Idle" \/ a \in Pointers
    PROVE  Followed(l \o m, NoEvent, f2, la2, d2, s, a, c)
<1> DEFINE r == l \o m
<1>1. /\ Len(l) \in Nat /\ Len(m) \in Nat /\ Len(r) = Len(l) + Len(m)
      /\ \A i \in 1..Len(l) : r[i] = l[i]
      /\ \A i \in 1..Len(m) : r[Len(l) + i] = m[i]
      /\ \A i \in 1..Len(r) : i \in 1..Len(l) \/ (i - Len(l) \in 1..Len(m) /\ r[i] = m[i - Len(l)])
  BY Joined
<1> HIDE DEF r
<1>2. ASSUME NEW i \in 1..Len(r), r[i].pointer \notin d2, Newest(r, NoEvent, i)
      PROVE  r[i].at = la2[r[i].pointer]
  <2>1. CASE i \in 1..Len(l)
    <3>1. r[i] = l[i] /\ l[i] \in Event
      BY <1>1, <2>1, ElementOfSeq
    <3>2. \A j \in 1..Len(m) : Len(l) + j \in i + 1..Len(r) /\ r[Len(l) + j] = m[j]
      BY <1>1, <2>1
    <3>3. \A j \in 1..Len(m) : m[j].pointer # l[i].pointer
      BY <1>2, <3>1, <3>2 DEF Newest
    <3>4. \A j \in i + 1..Len(l) : j \in i + 1..Len(r) /\ r[j] = l[j]
      BY <1>1, <2>1
    <3>5. Newest(l, NoEvent, i)
      BY <1>2, <3>1, <3>4 DEF Newest
    <3>6. l[i].pointer \in Pointers
      BY <3>1 DEF Event
    <3>7. la2[l[i].pointer] = la[l[i].pointer] /\ l[i].pointer \notin d
      BY <1>2, <3>1, <3>3, <3>6 DEF Latest
    <3>8. QED
      BY <2>1, <3>1, <3>5, <3>7 DEF Followed
  <2>2. CASE i - Len(l) \in 1..Len(m) /\ r[i] = m[i - Len(l)]
    BY <2>2 DEF Latest
  <2>3. QED
    BY <1>1, <2>1, <2>2
<1>3. ASSUME s # "Idle", a \notin d2, \A i \in 1..Len(r) : r[i].pointer # a
      PROVE  c = la2[a]
  <2>1. \A i \in 1..Len(l) : i \in 1..Len(r) /\ r[i] = l[i]
    BY <1>1
  <2>2. \A j \in 1..Len(m) : Len(l) + j \in 1..Len(r) /\ r[Len(l) + j] = m[j]
    BY <1>1
  <2>3. /\ \A i \in 1..Len(l) : l[i].pointer # a
        /\ \A i \in 1..Len(m) : m[i].pointer # a
    <3>1. \A i \in 1..Len(l) : l[i].pointer # a
      BY <1>3, <2>1
    <3>2. ASSUME NEW i \in 1..Len(m)
          PROVE  m[i].pointer # a
      <4>1. Len(l) + i \in 1..Len(r) /\ r[Len(l) + i] = m[i]
        BY <2>2
      <4>2. r[Len(l) + i].pointer # a
        BY <1>3, <4>1
      <4>3. QED
        BY <4>1, <4>2
    <3>3. QED
      BY <3>1, <3>2
  <2>4. a \in Pointers /\ NoEvent.pointer # a
    BY <1>3, TouchAssumption DEF NoEvent
  <2>5. la2[a] = la[a] /\ a \notin d
    BY <1>3, <2>3, <2>4 DEF Latest
  <2>6. QED
    BY <1>3, <2>3, <2>4, <2>5 DEF Followed
<1>4. QED
  BY <1>2, <1>3 DEF Followed, r

-----------------------------------------------------------------------------
(***************************************************************************)
(* The invariant.                                                          *)
(***************************************************************************)
TypeInv ==
    /\ fingers \subseteq Pointers /\ IsFiniteSet(fingers) /\ displaced \subseteq Pointers
    /\ pending \in Event \cup {NoEvent}
    /\ link \in Seq(Event)
    /\ last \in [Pointers -> 0..MaxSamples]

PointerInv ==
    /\ state \in {"Idle", "Down", "Dragging"}
    /\ state = "Idle" => active = NoPointer
    /\ state # "Idle" => active \in Pointers
    /\ pressed = (state # "Idle")

OrderedInv  == Ordered(link, pending, samples, cursor)
EndedInv    == Ended(link, fingers, state, active)
FollowedInv == Followed(link, pending, fingers, last, displaced, state, active, cursor)

TouchInv == TypeInv /\ PointerInv /\ OrderedInv /\ EndedInv /\ FollowedInv

LEMMA EventFields ==
    ASSUME NEW e \in Event
    PROVE  /\ e.pointer \in Pointers /\ e.phase \in Phase /\ e.at \in 1..MaxSamples
           /\ e.at \in Nat /\ e # NoEvent
<1>1. e.pointer \in Pointers /\ e.phase \in Phase /\ e.at \in 1..MaxSamples
  BY DEF Event
<1>2. NoEvent.pointer = NoPointer
  BY DEF NoEvent
<1>3. QED
  BY <1>1, <1>2, TouchAssumption

\* After the buffered move is sent, if there is one.
LEMMA Flushed ==
    ASSUME TouchInv
    PROVE  /\ link \o Pending \in Seq(Event)
           /\ Ordered(link \o Pending, NoEvent, samples, cursor)
           /\ Ended(link \o Pending, fingers, state, active)
           /\ Followed(link \o Pending, NoEvent, fingers, last, displaced, state, active, cursor)
<1>0. link \in Seq(Event)
  BY DEF TouchInv, TypeInv
<1>1. CASE pending = NoEvent
  <2>1. link \o Pending = link
    BY <1>0, <1>1, ConcatEmptySeq DEF Pending
  <2>2. QED
    BY <1>0, <1>1, <2>1 DEF TouchInv, OrderedInv, EndedInv, FollowedInv
<1>2. CASE pending # NoEvent
  <2>1. pending \in Event /\ Pending = <<pending>>
    BY <1>2 DEF TouchInv, TypeInv, Pending
  <2>2. <<pending>> \in Seq(Event) /\ Len(<<pending>>) = 1 /\ <<pending>>[1] = pending
    BY <2>1
  <2>3. link \o Pending \in Seq(Event)
    BY <1>0, <2>1, <2>2, Joined
  <2>4. Ordered(link \o Pending, NoEvent, samples, cursor)
    <3>1. /\ samples \in samples..MaxSamples /\ pending.at \in cursor..samples
          /\ \A i \in 1..Len(link) : link[i].at <= pending.at
          /\ \A i \in 1..Len(<<pending>>) : <<pending>>[i].at = pending.at
      <4>1. /\ samples \in 0..MaxSamples /\ cursor \in 0..samples
            /\ cursor <= pending.at /\ pending.at <= samples
            /\ \A i \in 1..Len(link) : link[i].at <= pending.at
        BY <1>2 DEF TouchInv, OrderedInv, Ordered
      <4>2. pending.at \in Nat /\ MaxSamples \in Nat
        BY <2>1, EventFields, TouchAssumption
      <4>3. QED
        BY <2>2, <4>1, <4>2
    <3>2. QED
      BY <1>0, <2>1, <2>2, <3>1, OrderedMore DEF TouchInv, OrderedInv
  <2>5. Ended(link \o Pending, fingers, state, active)
    <3>1. \A i \in 1..Len(<<pending>>) : <<pending>>[i].phase # "Down"
      BY <1>2, <2>2 DEF TouchInv, FollowedInv, Followed
    <3>2. QED
      BY <1>0, <2>1, <2>2, <3>1, EndedMore DEF TouchInv, EndedInv
  <2>6. Followed(link \o Pending, NoEvent, fingers, last, displaced, state, active, cursor)
    BY <1>0, <1>2, <2>1, FollowedFlush DEF TouchInv, FollowedInv
  <2>7. QED
    BY <2>3, <2>4, <2>5, <2>6
<1>3. QED
  BY <1>1, <1>2

\* A transition: the buffered move, then events of one new sample.
LEMMA TransitionStep ==
    ASSUME TouchInv, NEW m \in Seq(Event), SendTransitions(m), Sample(1), UNCHANGED host,
           TypeInv', fingers' \subseteq Pointers,
           displaced' \subseteq fingers',
           Latest(m, samples', last, last', displaced, displaced'),
           \A p \in fingers \ fingers' : \E j \in 1..Len(m) : UpOf(m[j], p),
           \A i \in 1..Len(m) : m[i].phase = "Down" =>
               i = 1 /\ Len(m) = 1 /\ m[i].pointer \in fingers' \ fingers
    PROVE  TouchInv'
<1> DEFINE flushed == link \o Pending
<1>1. /\ flushed \in Seq(Event)
      /\ Ordered(flushed, NoEvent, samples, cursor)
      /\ Ended(flushed, fingers, state, active)
      /\ Followed(flushed, NoEvent, fingers, last, displaced, state, active, cursor)
  BY Flushed
<1>2. link' = flushed \o m /\ pending' = NoEvent
  <2>1. link' = link \o (Pending \o m) /\ pending' = NoEvent
    BY DEF SendTransitions, SendAll
  <2>2. link \in Seq(Event) /\ Pending \in Seq(Event)
    <3>1. link \in Seq(Event) /\ pending \in Event \cup {NoEvent}
      BY DEF TouchInv, TypeInv
    <3>2. QED
      BY <3>1 DEF Pending
  <2>3. link \o (Pending \o m) = (link \o Pending) \o m
    BY <2>2, ConcatAssociative
  <2>4. QED
    BY <2>1, <2>3
<1> HIDE DEF flushed
<1>3. UNCHANGED <<state, active, pressed, cursor>> /\ PointerInv'
  BY DEF host, TouchInv, PointerInv
<1>4. Ordered(link', pending', samples', cursor')
  <2>1. /\ samples \in 0..MaxSamples /\ cursor \in 0..samples
        /\ \A i \in 1..Len(flushed) : flushed[i].at <= samples
    BY <1>1 DEF Ordered
  <2>2. samples' = samples + 1 /\ samples + 1 <= MaxSamples /\ MaxSamples \in Nat
    BY TouchAssumption DEF Sample
  <2>3. \A i \in 1..Len(flushed) : flushed[i].at \in Nat
    <3>1. \A i \in 1..Len(flushed) : flushed[i] \in Event
      BY <1>1, ElementOfSeq
    <3>2. QED
      BY <3>1, EventFields
  <2>4. /\ samples' \in samples..MaxSamples /\ samples' \in cursor..samples'
        /\ \A i \in 1..Len(flushed) : flushed[i].at <= samples'
    BY <2>1, <2>2, <2>3
  <2>5. Ordered(flushed \o m, NoEvent, samples', cursor)
    BY <1>1, <2>4, OrderedMore DEF Latest
  <2>6. QED
    BY <1>2, <1>3, <2>5
<1>5. Ended(link', fingers', state', active')
  <2>1. Ended(flushed \o m, fingers', state, active)
    BY <1>1, EndedMore
  <2>2. QED
    BY <1>2, <1>3, <2>1
<1>6. Followed(link', pending', fingers', last', displaced', state', active', cursor')
  <2>1. state = "Idle" \/ active \in Pointers
    BY DEF TouchInv, PointerInv
  <2>2. Followed(flushed \o m, NoEvent, fingers', last', displaced', state, active, cursor)
    BY <1>1, <2>1, FollowedMore
  <2>3. QED
    BY <1>2, <1>3, <2>2
<1>7. QED
  BY <1>3, <1>4, <1>5, <1>6 DEF TouchInv, OrderedInv, EndedInv, FollowedInv

LEMMA SampleTyped ==
    ASSUME TouchInv, Sample(1)
    PROVE  /\ samples' = samples + 1 /\ samples \in Nat
           /\ samples' \in 1..MaxSamples /\ samples' \in 0..MaxSamples
<1>1. samples \in 0..MaxSamples /\ MaxSamples \in Nat
  BY TouchAssumption DEF TouchInv, OrderedInv, Ordered
<1>2. samples' = samples + 1 /\ samples + 1 <= MaxSamples
  BY DEF Sample
<1>3. QED
  BY <1>1, <1>2

\* The link holds events after a transition.
LEMMA SentTyped ==
    ASSUME TouchInv, NEW m \in Seq(Event), SendTransitions(m)
    PROVE  link' \in Seq(Event) /\ pending' = NoEvent
<1>1. link \in Seq(Event) /\ pending \in Event \cup {NoEvent}
  BY DEF TouchInv, TypeInv
<1>2. Pending \in Seq(Event)
  BY <1>1 DEF Pending
<1>3. link' = link \o (Pending \o m) /\ pending' = NoEvent
  BY DEF SendTransitions, SendAll
<1>4. Pending \o m \in Seq(Event)
  BY <1>2, ConcatProperties
<1>5. QED
  BY <1>1, <1>3, <1>4, ConcatProperties

\* One finger's transition.
LEMMA OneTransition ==
    ASSUME TouchInv, NEW p \in Pointers, NEW phase \in {"Down", "Up"}, Sample(1),
           SendTransitions(<<[pointer |-> p, phase |-> phase, at |-> samples']>>),
           last' = [last EXCEPT ![p] = samples'], displaced' = displaced \ {p}, UNCHANGED host,
           phase = "Down" => p \notin fingers /\ fingers' = fingers \cup {p},
           phase = "Up" => fingers' = fingers \ {p}
    PROVE  TouchInv'
<1> DEFINE event == [pointer |-> p, phase |-> phase, at |-> samples']
           m == <<event>>
<1>1. samples' \in 1..MaxSamples /\ samples' \in 0..MaxSamples
  BY SampleTyped
<1>2. event \in Event
  BY <1>1 DEF Event, Phase
<1>3. event.pointer = p /\ event.phase = phase /\ event.at = samples'
  OBVIOUS
<1> HIDE DEF event
<1>4. m \in Seq(Event) /\ Len(m) = 1 /\ m[1] = event
  BY <1>2
<1>5. SendTransitions(m)
  BY DEF event
<1> HIDE DEF m
<1>6. /\ fingers \subseteq Pointers /\ IsFiniteSet(fingers) /\ displaced \subseteq fingers
      /\ last \in [Pointers -> 0..MaxSamples]
  BY DEF TouchInv, TypeInv, FollowedInv, Followed
<1>7. /\ fingers' \subseteq Pointers /\ IsFiniteSet(fingers') /\ displaced' \subseteq fingers'
      /\ displaced' \subseteq Pointers
  BY <1>6, FS_AddElement, FS_RemoveElement
<1>8. TypeInv'
  BY <1>1, <1>4, <1>5, <1>6, <1>7, SentTyped DEF TypeInv
<1>9. Latest(m, samples', last, last', displaced, displaced')
  <2>1. \A i \in 1..Len(m) : m[i] = event
    BY <1>4
  <2>2. last'[p] = samples' /\ \A q \in Pointers : q # p => last'[q] = last[q]
    BY <1>6
  <2>3. 1 \in 1..Len(m)
    BY <1>4
  <2>4. QED
    BY <1>3, <2>1, <2>2, <2>3 DEF Latest
<1>10. \A q \in fingers \ fingers' : \E j \in 1..Len(m) : UpOf(m[j], q)
  BY <1>3, <1>4 DEF UpOf
<1>11. \A i \in 1..Len(m) : m[i].phase = "Down" =>
           i = 1 /\ Len(m) = 1 /\ m[i].pointer \in fingers' \ fingers
  BY <1>3, <1>4
<1>12. QED
  BY <1>4, <1>5, <1>7, <1>8, <1>9, <1>10, <1>11, TransitionStep

\* Every order of the fingers names each of them.
LEMMA EveryFinger ==
    ASSUME NEW S, IsFiniteSet(S), NEW ups \in SetToSeqs(S)
    PROVE  /\ Cardinality(S) \in Nat /\ ups \in [1..Cardinality(S) -> S]
           /\ \A p \in S : \E i \in 1..Cardinality(S) : ups[i] = p
<1> DEFINE D == 1..Cardinality(S)
<1>1. ups \in [D -> S] /\ \A i, j \in D : i # j => ups[i] # ups[j]
  BY DEF SetToSeqs
<1>2. Cardinality(S) \in Nat
  BY FS_CardinalityType
<1>3. Cardinality(D) = Cardinality(S)
  BY <1>2, FS_Interval
<1> HIDE DEF D
<1>4. ups \in Injection(D, S)
  BY <1>1 DEF Injection, IsInjective
<1>5. ups \in Surjection(D, S)
  BY <1>3, <1>4, FS_Injection
<1>6. QED
  BY <1>1, <1>2, <1>5 DEF Surjection, D

LEMMA CancelStep ==
    ASSUME TouchInv, Cancel
    PROVE  TouchInv'
<1>1. /\ fingers' = {} /\ displaced' = {} /\ Sample(1) /\ UNCHANGED host
      /\ last' = [p \in Pointers |-> IF p \in fingers THEN samples' ELSE last[p]]
  BY DEF Cancel
<1>2. PICK ups \in SetToSeqs(fingers) :
          SendTransitions([i \in DOMAIN ups |->
                               [pointer |-> ups[i], phase |-> "Up", at |-> samples']])
  BY DEF Cancel
<1>3. /\ fingers \subseteq Pointers /\ IsFiniteSet(fingers) /\ displaced \subseteq fingers
      /\ last \in [Pointers -> 0..MaxSamples]
  BY DEF TouchInv, TypeInv, FollowedInv, Followed
<1>4. /\ Cardinality(fingers) \in Nat /\ ups \in [1..Cardinality(fingers) -> fingers]
      /\ \A p \in fingers : \E i \in 1..Cardinality(fingers) : ups[i] = p
  BY <1>3, EveryFinger
<1>5. samples' \in 1..MaxSamples /\ samples' \in 0..MaxSamples
  BY <1>1, SampleTyped
<1> DEFINE count == Cardinality(fingers)
           m == [i \in 1..count |-> [pointer |-> ups[i], phase |-> "Up", at |-> samples']]
<1>6. SendTransitions(m)
  <2>1. DOMAIN ups = 1..count
    BY <1>4
  <2>2. QED
    BY <1>2, <2>1
<1>7. \A i \in 1..count : /\ m[i] \in Event /\ m[i].pointer = ups[i] /\ m[i].phase = "Up"
                          /\ m[i].at = samples' /\ ups[i] \in fingers
  BY <1>3, <1>4, <1>5 DEF Event, Phase
<1>8. m \in Seq(Event) /\ Len(m) = count
  <2>1. count \in Nat
    BY <1>4
  <2>2. m \in [1..count -> Event]
    BY <1>7
  <2> HIDE DEF m, count
  <2>3. m \in Seq(Event)
    BY <2>1, <2>2, SeqDef
  <2>4. QED
    BY <2>1, <2>2, <2>3, LenProperties
<1> HIDE DEF m
<1>9. TypeInv'
  <2>1. IsFiniteSet(fingers') /\ fingers' \subseteq Pointers /\ displaced' \subseteq Pointers
    BY <1>1, FS_EmptySet
  <2>2. last' \in [Pointers -> 0..MaxSamples]
    BY <1>1, <1>3, <1>5
  <2>3. QED
    BY <1>6, <1>8, <2>1, <2>2, SentTyped DEF TypeInv
<1>10. Latest(m, samples', last, last', displaced, displaced')
  <2>1. \A i \in 1..Len(m) : m[i].at = samples' /\ last'[m[i].pointer] = samples'
    BY <1>1, <1>3, <1>7, <1>8
  <2>2. ASSUME NEW p \in Pointers, \A i \in 1..Len(m) : m[i].pointer # p
        PROVE  last'[p] = last[p] /\ p \notin displaced
    <3>1. p \notin fingers
      BY <1>4, <1>7, <1>8, <2>2
    <3>2. QED
      BY <1>1, <1>3, <3>1
  <2>3. QED
    BY <2>1, <2>2 DEF Latest
<1>11. \A p \in fingers \ fingers' : \E j \in 1..Len(m) : UpOf(m[j], p)
  BY <1>4, <1>7, <1>8 DEF UpOf
<1>12. \A i \in 1..Len(m) : m[i].phase # "Down"
  BY <1>7, <1>8
<1>13. QED
  BY <1>1, <1>6, <1>8, <1>9, <1>10, <1>11, <1>12, TransitionStep

LEMMA DragStep ==
    ASSUME TouchInv, NEW p \in Pointers, Drag(p)
    PROVE  TouchInv'
<1> DEFINE event == [pointer |-> p, phase |-> "Move", at |-> samples']
<1>1. /\ p \in fingers /\ Sample(1) /\ last' = [last EXCEPT ![p] = samples']
      /\ UNCHANGED <<fingers, state, active, pressed, cursor, link>>
      /\ pending' = event
      /\ displaced' = (displaced \ {p}) \cup ({pending.pointer} \ {p, NoPointer})
  BY DEF Drag, BufferMove, host
<1>2. samples' \in 1..MaxSamples /\ samples' \in 0..MaxSamples /\ samples' = samples + 1
      /\ samples \in Nat
  BY <1>1, SampleTyped
<1>3. event \in Event /\ event.pointer = p /\ event.phase = "Move" /\ event.at = samples'
  BY <1>2 DEF Event, Phase
<1> HIDE DEF event
<1>4. /\ link \in Seq(Event) /\ pending \in Event \cup {NoEvent} /\ fingers \subseteq Pointers
      /\ displaced \subseteq fingers /\ last \in [Pointers -> 0..MaxSamples]
      /\ pending # NoEvent => pending.pointer \in fingers
  BY DEF TouchInv, TypeInv, FollowedInv, Followed
<1>5. pending.pointer = NoPointer \/ pending.pointer \in fingers
  BY <1>4 DEF NoEvent
<1>6. displaced' \subseteq fingers
  BY <1>1, <1>4, <1>5
<1>7. TypeInv'
  BY <1>1, <1>2, <1>3, <1>4, <1>6 DEF TouchInv, TypeInv
<1>8. PointerInv'
  BY <1>1 DEF TouchInv, PointerInv
<1>9. OrderedInv'
  <2>1. /\ samples \in 0..MaxSamples /\ cursor \in 0..samples
        /\ \A i \in 1..Len(link) : cursor <= link[i].at /\ link[i].at <= samples
        /\ \A i, j \in 1..Len(link) : i <= j => link[i].at <= link[j].at
    BY DEF TouchInv, OrderedInv, Ordered
  <2>2. \A i \in 1..Len(link) : link[i].at \in Nat
    <3>1. \A i \in 1..Len(link) : link[i] \in Event
      BY <1>4, ElementOfSeq
    <3>2. QED
      BY <3>1, EventFields
  <2>3. cursor \in 0..samples' /\ cursor <= samples'
    BY <1>2, <2>1
  <2>4. \A i \in 1..Len(link) : link[i].at <= samples'
    BY <1>2, <2>1, <2>2
  <2>5. QED
    BY <1>1, <1>2, <1>3, <2>1, <2>3, <2>4 DEF OrderedInv, Ordered
<1>10. EndedInv'
  BY <1>1 DEF TouchInv, EndedInv
<1>11. FollowedInv'
  <2>1. last'[p] = samples' /\ \A q \in Pointers : q # p => last'[q] = last[q]
    BY <1>1, <1>4
  <2>2. \A q \in Pointers : q # p /\ q \notin displaced' =>
            q \notin displaced /\ pending.pointer # q
    BY <1>1, TouchAssumption
  <2>3. ASSUME NEW i \in 1..Len(link), link[i].pointer \notin displaced', Newest(link, event, i)
        PROVE  link[i].at = last'[link[i].pointer]
    <3>1. link[i].pointer \in Pointers /\ link[i].pointer # p
      BY <1>3, <1>4, <2>3, ElementOfSeq, EventFields DEF Newest
    <3>2. Newest(link, pending, i) /\ link[i].pointer \notin displaced
      BY <2>2, <2>3, <3>1 DEF Newest
    <3>3. QED
      BY <2>1, <3>1, <3>2 DEF TouchInv, FollowedInv, Followed
  <2>4. ASSUME state # "Idle", active \notin displaced', event.pointer # active,
               \A i \in 1..Len(link) : link[i].pointer # active
        PROVE  cursor = last'[active]
    <3>1. active \in Pointers /\ active # p
      BY <1>3, <2>4 DEF TouchInv, PointerInv
    <3>2. active \notin displaced /\ pending.pointer # active
      BY <2>2, <2>4, <3>1
    <3>3. QED
      BY <2>1, <2>4, <3>1, <3>2 DEF TouchInv, FollowedInv, Followed
  <2>5. QED
    BY <1>1, <1>3, <1>6, <2>1, <2>3, <2>4 DEF FollowedInv, Followed
<1>12. QED
  BY <1>7, <1>8, <1>9, <1>10, <1>11 DEF TouchInv

LEMMA TickStep ==
    ASSUME TouchInv, Tick
    PROVE  TouchInv'
<1>1. /\ link' = link \o Pending /\ pending' = NoEvent
      /\ UNCHANGED <<fingers, samples, last, displaced, state, active, pressed, cursor>>
  BY DEF Tick, SendAll, host
<1>2. QED
  BY <1>1, Flushed DEF TouchInv, TypeInv, PointerInv, OrderedInv, EndedInv, FollowedInv

-----------------------------------------------------------------------------
(***************************************************************************)
(* The host takes the event at the head of the link.                       *)
(***************************************************************************)
LEMMA Received ==
    ASSUME TouchInv, Receive
    PROVE  /\ link' \in Seq(Event) /\ Len(link) \in Nat \ {0} /\ Len(link') = Len(link) - 1
           /\ \A i \in 1..Len(link') : i + 1 \in 1..Len(link) /\ link'[i] = link[i + 1]
           /\ \A i \in 2..Len(link) : i - 1 \in 1..Len(link') /\ link'[i - 1] = link[i]
           /\ 1 \in 1..Len(link) /\ Head(link) = link[1] /\ Head(link) \in Event
           /\ UNCHANGED <<fingers, samples, pending, last, displaced>>
<1>1. link \in Seq(Event) /\ link # <<>> /\ link' = Tail(link)
  BY DEF TouchInv, TypeInv, Receive
<1>2. /\ link' \in Seq(Event) /\ Head(link) \in Event /\ Len(link') = Len(link) - 1
      /\ Len(link) \in Nat \ {0}
      /\ \A i \in 1..Len(link') : link'[i] = link[i + 1]
  BY <1>1, HeadTailProperties, EmptySeq
<1>3. Head(link) = link[1] /\ 1 \in 1..Len(link)
  BY <1>2
<1>4. \A i \in 1..Len(link') : i + 1 \in 1..Len(link)
  BY <1>2
<1>5. \A i \in 2..Len(link) : i - 1 \in 1..Len(link') /\ link'[i - 1] = link[i]
  <2> SUFFICES ASSUME NEW i \in 2..Len(link)
               PROVE  i - 1 \in 1..Len(link') /\ link'[i - 1] = link[i]
    OBVIOUS
  <2>1. i - 1 \in 1..Len(link') /\ (i - 1) + 1 = i
    BY <1>2
  <2>2. QED
    BY <1>2, <2>1
<1>6. UNCHANGED <<fingers, samples, pending, last, displaced>>
  BY DEF Receive, phone
<1>7. QED
  BY <1>2, <1>3, <1>4, <1>5, <1>6

\* The cursor goes to the event's position, or stays.
LEMMA OrderedReceived ==
    ASSUME TouchInv, Receive, cursor' \in {cursor, Head(link).at}
    PROVE  OrderedInv' /\ cursor' >= cursor
<1>1. /\ link' \in Seq(Event)
      /\ \A i \in 1..Len(link') : i + 1 \in 1..Len(link) /\ link'[i] = link[i + 1]
      /\ 1 \in 1..Len(link) /\ Head(link) = link[1] /\ Head(link) \in Event
      /\ UNCHANGED <<samples, pending>>
  BY Received
<1>2. /\ samples \in 0..MaxSamples /\ cursor \in 0..samples
      /\ \A i \in 1..Len(link) : cursor <= link[i].at /\ link[i].at <= samples
      /\ \A i, j \in 1..Len(link) : i <= j => link[i].at <= link[j].at
      /\ pending # NoEvent => /\ cursor <= pending.at /\ pending.at <= samples
                              /\ \A i \in 1..Len(link) : link[i].at <= pending.at
  BY DEF TouchInv, OrderedInv, Ordered
<1>3. link[1].at \in Nat
  BY <1>1, EventFields
<1>4. cursor' \in 0..samples /\ cursor' >= cursor
  BY <1>1, <1>2, <1>3
<1>5. \A i \in 1..Len(link') : cursor' <= link'[i].at /\ link'[i].at <= samples
  <2> SUFFICES ASSUME NEW i \in 1..Len(link')
               PROVE  cursor' <= link'[i].at /\ link'[i].at <= samples
    OBVIOUS
  <2>1. i + 1 \in 1..Len(link) /\ link'[i] = link[i + 1] /\ 1 <= i + 1
    BY <1>1
  <2>2. cursor <= link[i + 1].at /\ link[i + 1].at <= samples /\ link[1].at <= link[i + 1].at
    BY <1>1, <1>2, <2>1
  <2>3. QED
    BY <1>1, <2>1, <2>2
<1>6. \A i, j \in 1..Len(link') : i <= j => link'[i].at <= link'[j].at
  <2> SUFFICES ASSUME NEW i \in 1..Len(link'), NEW j \in 1..Len(link'), i <= j
               PROVE  link'[i].at <= link'[j].at
    OBVIOUS
  <2>1. i + 1 \in 1..Len(link) /\ j + 1 \in 1..Len(link) /\ i + 1 <= j + 1
    BY <1>1
  <2>2. QED
    BY <1>1, <1>2, <2>1
<1>7. pending # NoEvent => /\ cursor' <= pending.at /\ pending.at <= samples
                           /\ \A i \in 1..Len(link') : link'[i].at <= pending.at
  BY <1>1, <1>2
<1>8. QED
  BY <1>1, <1>2, <1>4, <1>5, <1>6, <1>7 DEF OrderedInv, Ordered

\* A press that is not its finger's newest transition has its release behind.
LEMMA EndedReceived ==
    ASSUME TouchInv, Receive,
           \/ state' = "Idle"
           \/ state # "Idle" /\ state' # "Idle" /\ active' = active /\ ~UpOf(Head(link), active)
           \/ state' # "Idle" /\ DownOf(Head(link), active')
    PROVE  EndedInv'
<1>1. /\ link' \in Seq(Event) /\ Len(link) \in Nat /\ Len(link') = Len(link) - 1
      /\ \A i \in 1..Len(link') : i + 1 \in 1..Len(link) /\ link'[i] = link[i + 1]
      /\ \A i \in 2..Len(link) : i - 1 \in 1..Len(link') /\ link'[i - 1] = link[i]
      /\ 1 \in 1..Len(link) /\ Head(link) = link[1]
      /\ UNCHANGED fingers
  BY Received
<1>2. /\ \A i \in 1..Len(link) : link[i].phase = "Down" =>
            link[i].pointer \in fingers \/ \E j \in i + 1..Len(link) : UpOf(link[j], link[i].pointer)
      /\ state # "Idle" => active \in fingers \/ \E j \in 1..Len(link) : UpOf(link[j], active)
      /\ \A i, k \in 1..Len(link) :
            i < k /\ link[i].phase = "Down" /\ DownOf(link[k], link[i].pointer) =>
                \E j \in i + 1..k - 1 : UpOf(link[j], link[i].pointer)
      /\ state # "Idle" => \A k \in 1..Len(link) :
            DownOf(link[k], active) => \E j \in 1..k - 1 : UpOf(link[j], active)
  BY DEF TouchInv, EndedInv, Ended
\* A release between two places of the link is between the places before them.
<1>3. ASSUME NEW p, NEW i \in 1..Len(link), NEW k \in i + 1..Len(link) + 1,
             NEW j \in i + 1..k - 1, UpOf(link[j], p)
      PROVE  \E x \in i..k - 2 : UpOf(link'[x], p)
  <2>1. j \in 2..Len(link) /\ j - 1 \in i..k - 2
    BY <1>1
  <2>2. QED
    BY <1>1, <1>3, <2>1
<1>4. ASSUME NEW i \in 1..Len(link'), link'[i].phase = "Down"
      PROVE  \/ link'[i].pointer \in fingers
             \/ \E j \in i + 1..Len(link') : UpOf(link'[j], link'[i].pointer)
  <2>1. i + 1 \in 1..Len(link) /\ link'[i] = link[i + 1]
    BY <1>1
  <2>2. CASE \E j \in (i + 1) + 1..Len(link) : UpOf(link[j], link[i + 1].pointer)
    <3>1. PICK j \in (i + 1) + 1..Len(link) : UpOf(link[j], link[i + 1].pointer)
      BY <2>2
    <3>2. Len(link) + 1 \in (i + 1) + 1..Len(link) + 1 /\ j \in (i + 1) + 1..(Len(link) + 1) - 1
      BY <1>1, <2>1
    <3>3. \E x \in i + 1..(Len(link) + 1) - 2 : UpOf(link'[x], link[i + 1].pointer)
      BY <1>3, <2>1, <3>1, <3>2
    <3>4. (Len(link) + 1) - 2 = Len(link')
      BY <1>1
    <3>5. QED
      BY <2>1, <3>3, <3>4
  <2>3. QED
    BY <1>2, <1>4, <2>1, <2>2
<1>5. ASSUME NEW i \in 1..Len(link'), NEW k \in 1..Len(link'), i < k, link'[i].phase = "Down",
             DownOf(link'[k], link'[i].pointer)
      PROVE  \E j \in i + 1..k - 1 : UpOf(link'[j], link'[i].pointer)
  <2>1. /\ i + 1 \in 1..Len(link) /\ link'[i] = link[i + 1]
        /\ k + 1 \in 1..Len(link) /\ link'[k] = link[k + 1] /\ i + 1 < k + 1
    BY <1>1, <1>5
  <2>2. PICK j \in (i + 1) + 1..(k + 1) - 1 : UpOf(link[j], link[i + 1].pointer)
    BY <1>2, <1>5, <2>1
  <2>3. k + 1 \in (i + 1) + 1..Len(link) + 1 /\ (k + 1) - 2 = k - 1
    BY <1>1, <2>1
  <2>4. \E x \in i + 1..(k + 1) - 2 : UpOf(link'[x], link[i + 1].pointer)
    BY <1>3, <2>1, <2>2, <2>3
  <2>5. QED
    BY <2>1, <2>3, <2>4
<1>6. ASSUME state' # "Idle"
      PROVE  /\ active' \in fingers \/ \E j \in 1..Len(link') : UpOf(link'[j], active')
             /\ \A k \in 1..Len(link') :
                   DownOf(link'[k], active') => \E j \in 1..k - 1 : UpOf(link'[j], active')
  \* In a gesture, the release of its finger is not at the head.
  <2>1. CASE state # "Idle" /\ active' = active /\ ~UpOf(Head(link), active)
    <3>1. ASSUME NEW j \in 1..Len(link), UpOf(link[j], active)
          PROVE  j \in 2..Len(link) /\ j - 1 \in 1..Len(link') /\ UpOf(link'[j - 1], active)
      <4>1. j # 1
        BY <1>1, <2>1, <3>1
      <4>2. j \in 2..Len(link)
        BY <1>1, <4>1
      <4>3. QED
        BY <1>1, <3>1, <4>2
    <3>2. active' \in fingers \/ \E j \in 1..Len(link') : UpOf(link'[j], active')
      BY <1>2, <2>1, <3>1
    <3>3. ASSUME NEW k \in 1..Len(link'), DownOf(link'[k], active)
          PROVE  \E j \in 1..k - 1 : UpOf(link'[j], active)
      <4>1. k + 1 \in 1..Len(link) /\ DownOf(link[k + 1], active)
        BY <1>1, <3>3
      <4>2. PICK j \in 1..(k + 1) - 1 : UpOf(link[j], active)
        BY <1>2, <2>1, <4>1
      <4>3. j \in 1..Len(link)
        BY <4>1
      <4>4. j - 1 \in 1..k - 1 /\ UpOf(link'[j - 1], active)
        BY <3>1, <4>1, <4>2, <4>3
      <4>5. QED
        BY <4>4
    <3>4. QED
      BY <2>1, <3>2, <3>3
  \* A gesture starts with the press at the head.
  <2>2. CASE DownOf(Head(link), active')
    <3>1. link[1].phase = "Down" /\ link[1].pointer = active'
      BY <1>1, <2>2 DEF DownOf
    <3>2. active' \in fingers \/ \E j \in 1..Len(link') : UpOf(link'[j], active')
      <4>1. CASE \E j \in 1 + 1..Len(link) : UpOf(link[j], active')
        <5>1. PICK j \in 1 + 1..Len(link) : UpOf(link[j], active')
          BY <4>1
        <5>2. j \in 2..Len(link)
          OBVIOUS
        <5>3. j - 1 \in 1..Len(link') /\ UpOf(link'[j - 1], active')
          BY <1>1, <5>1, <5>2
        <5>4. QED
          BY <5>3
      <4>2. QED
        BY <1>1, <1>2, <3>1, <4>1
    <3>3. ASSUME NEW k \in 1..Len(link'), DownOf(link'[k], active')
          PROVE  \E j \in 1..k - 1 : UpOf(link'[j], active')
      <4>1. k + 1 \in 1..Len(link) /\ DownOf(link[k + 1], active') /\ 1 < k + 1
        BY <1>1, <3>3
      <4>2. PICK j \in 1 + 1..(k + 1) - 1 : UpOf(link[j], active')
        BY <1>1, <1>2, <3>1, <4>1
      <4>3. j \in 2..Len(link) /\ j - 1 \in 1..k - 1
        BY <4>1
      <4>4. UpOf(link'[j - 1], active')
        BY <1>1, <4>2, <4>3
      <4>5. QED
        BY <4>3, <4>4
    <3>4. QED
      BY <3>2, <3>3
  <2>3. QED
    BY <1>6, <2>1, <2>2
<1>7. QED
  BY <1>1, <1>4, <1>5, <1>6 DEF EndedInv, Ended

\* The cursor goes to the event of the gesture's finger, or stays.
LEMMA FollowedReceived ==
    ASSUME TouchInv, Receive,
           \/ state' = "Idle"
           \/ active' = Head(link).pointer /\ cursor' = Head(link).at
           \/ /\ state # "Idle" /\ Head(link).pointer # active
              /\ active' = active /\ cursor' = cursor
    PROVE  FollowedInv'
<1>1. /\ link' \in Seq(Event) /\ Len(link) \in Nat /\ Len(link') = Len(link) - 1
      /\ \A i \in 1..Len(link') : i + 1 \in 1..Len(link) /\ link'[i] = link[i + 1]
      /\ \A i \in 2..Len(link) : i - 1 \in 1..Len(link') /\ link'[i - 1] = link[i]
      /\ 1 \in 1..Len(link) /\ Head(link) = link[1]
      /\ UNCHANGED <<fingers, pending, last, displaced>>
  BY Received
<1>2. ASSUME NEW i \in 1..Len(link'), link'[i].pointer \notin displaced, Newest(link', pending, i)
      PROVE  link'[i].at = last[link'[i].pointer]
  <2>1. i + 1 \in 1..Len(link) /\ link'[i] = link[i + 1]
    BY <1>1
  <2>2. ASSUME NEW j \in (i + 1) + 1..Len(link)
        PROVE  link[j].pointer # link[i + 1].pointer
    <3>1. j \in 2..Len(link) /\ j - 1 \in i + 1..Len(link')
      BY <1>1, <2>1
    <3>2. link'[j - 1] = link[j]
      BY <1>1, <3>1
    <3>3. QED
      BY <1>2, <2>1, <3>1, <3>2 DEF Newest
  <2>3. Newest(link, pending, i + 1)
    BY <1>2, <2>1, <2>2 DEF Newest
  <2>4. QED
    BY <1>2, <2>1, <2>3 DEF TouchInv, FollowedInv, Followed
<1>3. ASSUME state' # "Idle", active' \notin displaced, pending.pointer # active',
             \A i \in 1..Len(link') : link'[i].pointer # active'
      PROVE  cursor' = last[active']
  <2>1. \A i \in 2..Len(link) : link[i].pointer # active'
    BY <1>1, <1>3
  <2>2. CASE active' = Head(link).pointer /\ cursor' = Head(link).at
    <3>1. Newest(link, pending, 1)
      <4>1. \A j \in 1 + 1..Len(link) : j \in 2..Len(link)
        OBVIOUS
      <4>2. QED
        BY <1>1, <1>3, <2>1, <2>2, <4>1 DEF Newest
    <3>2. link[1].pointer \notin displaced
      BY <1>1, <1>3, <2>2
    <3>3. QED
      BY <1>1, <2>2, <3>1, <3>2 DEF TouchInv, FollowedInv, Followed
  <2>3. CASE state # "Idle" /\ Head(link).pointer # active /\ active' = active /\ cursor' = cursor
    <3>1. \A i \in 1..Len(link) : i = 1 \/ i \in 2..Len(link)
      BY <1>1
    <3>2. \A i \in 1..Len(link) : link[i].pointer # active
      BY <1>1, <2>1, <2>3, <3>1
    <3>3. QED
      BY <1>3, <2>3, <3>2 DEF TouchInv, FollowedInv, Followed
  <2>4. QED
    BY <1>3, <2>2, <2>3
<1>4. QED
  BY <1>1, <1>2, <1>3 DEF TouchInv, FollowedInv, Followed

LEMMA HostStep ==
    ASSUME TouchInv, HostNext
    PROVE  TouchInv' /\ cursor' >= cursor
<1>1. Receive
  BY DEF HostNext, Press, Move, Release, Ignore
<1>2. TypeInv'
  BY <1>1, Received DEF TouchInv, TypeInv
<1>3. /\ Head(link) = link[1] /\ 1 \in 1..Len(link)
      /\ Head(link).pointer \in Pointers /\ Head(link).phase \in Phase
      /\ cursor \in Nat
  <2>1. cursor \in Nat
    BY DEF TouchInv, OrderedInv, Ordered
  <2>2. QED
    BY <1>1, <2>1, Received, EventFields
<1>4. state # "Idle" => active \in Pointers /\ active # NoPointer
  BY TouchAssumption DEF TouchInv, PointerInv
\* The finger of a gesture does not press again before its release.
<1>5. state # "Idle" => ~DownOf(Head(link), active)
  <2> SUFFICES ASSUME state # "Idle", DownOf(link[1], active) PROVE FALSE
    BY <1>3
  <2>1. \E j \in 1..1 - 1 : UpOf(link[j], active)
    BY <1>3 DEF TouchInv, EndedInv, Ended
  <2>2. QED
    BY <2>1
<1>6. CASE Press
  <2>1. /\ Head(link).phase = "Down" /\ state = "Idle" /\ state' = "Down"
        /\ active' = Head(link).pointer /\ pressed' = TRUE /\ cursor' = Head(link).at
    BY <1>6 DEF Press
  <2>2. PointerInv'
    BY <1>3, <2>1 DEF PointerInv
  <2>3. DownOf(Head(link), active')
    BY <2>1 DEF DownOf
  <2>4. QED
    BY <1>1, <1>2, <2>1, <2>2, <2>3, OrderedReceived, EndedReceived, FollowedReceived DEF TouchInv
<1>7. CASE Move
  <2>1. /\ Head(link).phase = "Move" /\ state # "Idle" /\ ~Foreign(Head(link))
        /\ state' = "Dragging" /\ cursor' = Head(link).at /\ UNCHANGED <<active, pressed>>
    BY <1>7 DEF Move
  <2>2. Head(link).pointer = active /\ ~UpOf(Head(link), active)
    BY <1>4, <2>1 DEF Foreign, UpOf
  <2>3. PointerInv'
    BY <2>1 DEF TouchInv, PointerInv
  <2>4. QED
    BY <1>1, <1>2, <2>1, <2>2, <2>3, OrderedReceived, EndedReceived, FollowedReceived DEF TouchInv
<1>8. CASE Release
  <2>1. /\ state' = "Idle" /\ active' = NoPointer /\ pressed' = FALSE /\ cursor' = Head(link).at
    BY <1>8 DEF Release
  <2>2. PointerInv'
    BY <2>1 DEF PointerInv
  <2>3. QED
    BY <1>1, <1>2, <2>1, <2>2, OrderedReceived, EndedReceived, FollowedReceived DEF TouchInv
<1>9. CASE Ignore
  <2>1. /\ UNCHANGED <<state, active, pressed, cursor>>
        /\ \/ Foreign(Head(link))
           \/ state = "Idle" /\ Head(link).phase # "Down"
           \/ state # "Idle" /\ Head(link).phase = "Down"
    BY <1>9 DEF Ignore, host
  <2>2. PointerInv'
    BY <2>1 DEF TouchInv, PointerInv
  <2>3. state # "Idle" => Head(link).pointer # active
    BY <1>5, <2>1 DEF Foreign, DownOf
  <2>4. state # "Idle" => ~UpOf(Head(link), active)
    BY <2>3 DEF UpOf
  <2>5. OrderedInv' /\ cursor' >= cursor
    BY <1>1, <2>1, OrderedReceived
  <2>6. EndedInv'
    BY <1>1, <2>1, <2>4, EndedReceived
  <2>7. FollowedInv'
    BY <1>1, <2>1, <2>3, FollowedReceived
  <2>8. QED
    BY <1>2, <2>2, <2>5, <2>6, <2>7 DEF TouchInv
<1>10. QED
  BY <1>6, <1>7, <1>8, <1>9 DEF HostNext

-----------------------------------------------------------------------------
LEMMA TouchStep ==
    ASSUME TouchInv, [Next]_vars
    PROVE  TouchInv' /\ cursor' >= cursor
<1>0. cursor \in Nat
  BY DEF TouchInv, OrderedInv, Ordered
<1>1. CASE PhoneNext
  <2>1. ASSUME NEW p \in Pointers, Touch(p)
        PROVE  TouchInv'
    BY <2>1, OneTransition DEF Touch
  <2>2. ASSUME NEW p \in Pointers, Lift(p)
        PROVE  TouchInv'
    BY <2>2, OneTransition DEF Lift
  <2>3. cursor' = cursor
    BY <1>1 DEF PhoneNext, Touch, Drag, Lift, Cancel, Tick, host
  <2>4. QED
    BY <1>0, <1>1, <2>1, <2>2, <2>3, DragStep, CancelStep, TickStep DEF PhoneNext
<1>2. CASE HostNext
  BY <1>2, HostStep
<1>3. CASE UNCHANGED vars
  <2>1. cursor' = cursor
    BY <1>3 DEF vars, host
  <2>2. TouchInv'
    BY <1>3 DEF vars, phone, host, TouchInv, TypeInv, PointerInv, OrderedInv, EndedInv, FollowedInv
  <2>3. QED
    BY <1>0, <2>1, <2>2
<1>4. QED
  BY <1>1, <1>2, <1>3 DEF Next, Done

LEMMA InitTouch == Init => TouchInv
<1> SUFFICES ASSUME Init PROVE TouchInv
  OBVIOUS
<1>1. /\ link = <<>> /\ Len(link) = 0 /\ link \in Seq(Event) /\ pending = NoEvent
      /\ state = "Idle" /\ active = NoPointer /\ pressed = FALSE
      /\ samples = 0 /\ cursor = 0 /\ fingers = {} /\ displaced = {}
  BY EmptySeq DEF Init
<1>2. 0 \in 0..MaxSamples
  BY TouchAssumption
<1>3. TypeInv
  BY <1>1, <1>2, FS_EmptySet DEF Init, TypeInv
<1>4. PointerInv
  BY <1>1 DEF PointerInv
<1>5. OrderedInv /\ EndedInv /\ FollowedInv
  BY <1>1, <1>2 DEF OrderedInv, Ordered, EndedInv, Ended, FollowedInv, Followed
<1>6. QED
  BY <1>3, <1>4, <1>5 DEF TouchInv

\* Every variable keeps its type; the host holds the button exactly while a
\* gesture is on, and knows whose it is.
THEOREM TouchTypeCorrect == Spec => []TypeOK
<1>1. TouchInv => TypeOK
  <2> SUFFICES ASSUME TouchInv PROVE TypeOK
    OBVIOUS
  <2>1. samples \in 0..MaxSamples /\ cursor \in 0..MaxSamples
    <3>1. samples \in 0..MaxSamples /\ cursor \in 0..samples /\ MaxSamples \in Nat
      BY TouchAssumption DEF TouchInv, OrderedInv, Ordered
    <3>2. QED
      BY <3>1
  <2>2. active \in IF state = "Idle" THEN {NoPointer} ELSE Pointers
    BY DEF TouchInv, PointerInv
  <2>3. pressed = (state # "Idle") /\ state \in {"Idle", "Down", "Dragging"}
    BY DEF TouchInv, PointerInv
  <2>4. QED
    BY <2>1, <2>2, <2>3 DEF TouchInv, TypeInv, TypeOK
<1>2. TouchInv /\ [Next]_vars => TouchInv'
  BY TouchStep
<1>3. QED
  BY <1>1, <1>2, InitTouch, PTL DEF Spec

\* The button is never left down: with no finger on the screen and everything
\* delivered it is up, for every number of fingers and every order of touches,
\* lifts and cancels.
THEOREM ButtonReleased == Spec => []NeverStuck
<1>1. TouchInv => NeverStuck
  <2> SUFFICES ASSUME TouchInv, Quiet, fingers = {}
               PROVE  ~pressed
    BY DEF NeverStuck
  <2>1. Len(link) = 0
    BY DEF Quiet
  <2>2. state = "Idle"
    BY <2>1 DEF TouchInv, EndedInv, Ended
  <2>3. QED
    BY <2>2 DEF TouchInv, PointerInv
<1>2. TouchInv /\ [Next]_vars => TouchInv'
  BY TouchStep
<1>3. QED
  BY <1>1, <1>2, InitTouch, PTL DEF Spec

\* When all is delivered the cursor is at the last sample of the finger that
\* presses, unless another finger's move took its place in the buffer.
THEOREM CursorFollows == Spec => []FollowsFinger
<1>1. TouchInv => FollowsFinger
  <2> SUFFICES ASSUME TouchInv, Quiet, pressed, active \notin displaced
               PROVE  cursor = last[active]
    BY DEF FollowsFinger
  <2>1. Len(link) = 0 /\ pending.pointer = NoPointer
    BY DEF Quiet, NoEvent
  <2>2. state # "Idle" /\ active \in Pointers
    BY DEF TouchInv, PointerInv
  <2>3. active # NoPointer
    BY <2>2, TouchAssumption
  <2>4. QED
    BY <2>1, <2>2, <2>3 DEF TouchInv, FollowedInv, Followed
<1>2. TouchInv /\ [Next]_vars => TouchInv'
  BY TouchStep
<1>3. QED
  BY <1>1, <1>2, InitTouch, PTL DEF Spec

\* The cursor never goes back to an older position: no buffered move is
\* rendered after the transition it preceded, whoever touches in between.
THEOREM CursorForward == Spec => NeverRewinds
<1>1. TouchInv /\ [Next]_vars => TouchInv' /\ [cursor' >= cursor]_vars
  BY TouchStep
<1>2. QED
  BY <1>1, InitTouch, PTL DEF Spec, NeverRewinds

=============================================================================
