--------------------------- MODULE Splitter_proofs ---------------------------
(***************************************************************************)
(* What Mfile_split_by_tracks gives each client is a function of its place *)
(* (SplitInv); the rest is arithmetic of quotients and remainders, for     *)
(* songs and orchestras of any size.                                       *)
(***************************************************************************)
EXTENDS Splitter, SequenceTheorems, TLAPS

\* What dividing by n gives.
LEMMA DivMod ==
    ASSUME NEW a \in Int, NEW n \in Nat, n > 0
    PROVE  /\ a \div n \in Int
           /\ a % n \in 0 .. n - 1
           /\ a = n * (a \div n) + (a % n)
BY SMTT(30)

LEMMA DivNat ==
    ASSUME NEW a \in Nat, NEW n \in Nat, n > 0
    PROVE  a \div n \in Nat
BY SMTT(30)

LEMMA AtLeastOnce ==
    ASSUME NEW k \in Int, NEW n \in Nat, k >= 1
    PROVE  k * n >= n
BY SMTT(30)

\* Quotient and remainder are unique.
LEMMA DivUnique ==
    ASSUME NEW n \in Nat, n > 0,
           NEW r1 \in 0 .. n - 1, NEW r2 \in 0 .. n - 1, NEW q1 \in Int, NEW q2 \in Int,
           r1 + q1 * n = r2 + q2 * n
    PROVE  r1 = r2 /\ q1 = q2
<1>1. (q1 - q2) * n = r2 - r1
  BY SMTT(30)
<1>2. (q2 - q1) * n = r1 - r2
  BY SMTT(30)
<1>3. ~(q1 - q2 >= 1)
  BY <1>1, AtLeastOnce, SMTT(30)
<1>4. ~(q2 - q1 >= 1)
  BY <1>2, AtLeastOnce, SMTT(30)
<1> QED
  BY <1>1, <1>3, <1>4, SMTT(30)

\* track_num_map gives every part enough for the tracks that are its own.
LEMMA MapCovers ==
    ASSUME NEW len \in Nat, NEW n \in Nat, n > 0, NEW a \in 0 .. len - 1
    PROVE  (a \div n) + 1 <= track_num_map(len, n)[a % n]
<1> DEFINE q == a \div n
           r == a % n
           Q == len \div n
           R == len % n
<1>1. /\ q \in Int /\ r \in 0 .. n - 1 /\ a = n * q + r
      /\ Q \in Int /\ R \in 0 .. n - 1 /\ len = n * Q + R
  BY DivMod
<1>2. track_num_map(len, n)[r] = Q + IF r < R THEN 1 ELSE 0
  BY <1>1 DEF track_num_map
<1> HIDE DEF q, r, Q, R
<1>3. (q - Q) * n = (a - len) + (R - r)
  BY <1>1, SMTT(30)
<1>4. ~(q - Q >= 1)
  BY <1>1, <1>3, AtLeastOnce, SMTT(30)
<1>5. q = Q => r < R
  BY <1>1, <1>3, SMTT(30)
<1>6. q + 1 <= Q + IF r < R THEN 1 ELSE 0
  BY <1>1, <1>4, <1>5
<1> QED
  BY <1>2, <1>6 DEF q, r, Q, R

-----------------------------------------------------------------------------
(* The inductive invariant: what each part is.                              *)

PartIsItsSources(i) ==
    \/ parts[i] = Sources(i - 1)
    \/ /\ parts[i] = << Unknown >>
       /\ format # 1 /\ ndest >= nsrc

SplitInv ==
    /\ TypeOK
    /\ parts # << >> => nsrc > 0
    /\ \A i \in 1 .. Len(parts) : PartIsItsSources(i)
    /\ split = "done" => Len(parts) = ndest

-----------------------------------------------------------------------------
(* Part i as one formula: how many tracks it takes, and which they are.     *)

Take(i) == IF ndest >= nsrc THEN 1 ELSE track_num_map(nsrc, ndest)[i]

Dealt(i, d) == IF ndest >= nsrc THEN (i % nsrc) + 1 ELSE i + (d - 1) * ndest + First

LEMMA SizesTyped ==
    ASSUME TypeOK, nsrc > 0
    PROVE  /\ nsrc \in Nat \ {0} /\ ndest \in Nat \ {0}
           /\ First \in {0, 1}
           /\ ntracks = nsrc + First
BY SplitterAssumption DEF TypeOK, nsrc, First

LEMMA TakeTyped ==
    ASSUME TypeOK, nsrc > 0, NEW i \in 0 .. ndest - 1
    PROVE  Take(i) \in Nat \ {0}
<1>1. nsrc \in Nat \ {0} /\ ndest \in Nat \ {0}
  BY SizesTyped
<1>2. nsrc \div ndest \in Nat
  BY <1>1, DivNat
<1>3. ndest < nsrc => nsrc \div ndest >= 1
  <2>1. nsrc = ndest * (nsrc \div ndest) + (nsrc % ndest) /\ nsrc % ndest \in 0 .. ndest - 1
    BY <1>1, DivMod
  <2> QED
    BY <1>1, <1>2, <2>1, SMTT(30)
<1> QED
  BY <1>1, <1>2, <1>3 DEF Take, track_num_map

LEMMA DealtTyped ==
    ASSUME TypeOK, nsrc > 0, NEW i \in 0 .. ndest - 1, NEW d \in Nat \ {0}
    PROVE  Dealt(i, d) \in Nat /\ Dealt(i, d) >= First
<1>1. nsrc \in Nat \ {0} /\ ndest \in Nat \ {0} /\ First \in {0, 1}
  BY SizesTyped
<1>2. i % nsrc \in Nat
  BY <1>1, DivMod
<1>3. (d - 1) * ndest \in Nat
  BY <1>1, SMTT(30)
<1> QED
  BY <1>1, <1>2, <1>3 DEF Dealt

LEMMA SourcesOf ==
    ASSUME TypeOK, nsrc > 0, NEW i \in 0 .. ndest - 1
    PROVE  /\ Sources(i) \in Seq(Nat)
           /\ Len(Sources(i)) = First + Take(i)
           /\ \A j \in 1 .. First + Take(i) :
                Sources(i)[j] = IF j <= First THEN 0 ELSE Dealt(i, j - First)
<1> DEFINE own == [d \in 1 .. Take(i) |-> Dealt(i, d)]
<1>1. Take(i) \in Nat \ {0} /\ First \in {0, 1}
  BY TakeTyped, SizesTyped
<1>2. \A d \in 1 .. Take(i) : Dealt(i, d) \in Nat
  BY <1>1, DealtTyped
<1>3. own \in [1 .. Take(i) -> Nat]
  BY <1>2
<1>4. own \in Seq(Nat)
  BY <1>1, <1>3, SeqDef
<1>5. Len(own) = Take(i)
  BY <1>1, <1>3, <1>4, LenProperties
<1>6. own = IF ndest >= nsrc THEN Looped(i) ELSE Mixed(i)
  <2>1. CASE ndest >= nsrc
    <3>1. own = [d \in 1 .. 1 |-> (i % nsrc) + 1]
      BY <2>1 DEF Take, Dealt
    <3> QED
      BY <2>1, <3>1 DEF Looped
  <2>2. CASE ~(ndest >= nsrc)
    BY <2>2 DEF Take, Dealt, Mixed
  <2> QED
    BY <2>1, <2>2
<1>7. TempoMap \in Seq(Nat) /\ Len(TempoMap) = First
  BY DEF TempoMap, First
<1>8. \A j \in 1 .. First : TempoMap[j] = 0
  BY DEF TempoMap, First
<1>9. Sources(i) = TempoMap \o own
  BY <1>6 DEF Sources
<1> HIDE DEF own
<1>10. /\ Sources(i) \in Seq(Nat)
       /\ Len(Sources(i)) = First + Take(i)
       /\ \A j \in 1 .. First + Take(i) :
            Sources(i)[j] = IF j <= First THEN TempoMap[j] ELSE own[j - First]
  <2>1. /\ TempoMap \o own \in Seq(Nat)
        /\ Len(TempoMap \o own) = Len(TempoMap) + Len(own)
        /\ \A j \in 1 .. Len(TempoMap) + Len(own) :
             (TempoMap \o own)[j] = IF j <= Len(TempoMap) THEN TempoMap[j]
                                    ELSE own[j - Len(TempoMap)]
    BY <1>4, <1>7, ConcatProperties
  <2> QED
    BY <2>1, <1>5, <1>7, <1>9
<1>11. \A d \in 1 .. Take(i) : own[d] = Dealt(i, d)
  BY DEF own
<1>12. \A j \in 1 .. First + Take(i) : j > First => j - First \in 1 .. Take(i)
  BY <1>1
<1>13. \A j \in 1 .. First + Take(i) : ~(j <= First) => j > First
  BY <1>1
<1> QED
  <2>1. ASSUME NEW j \in 1 .. First + Take(i)
        PROVE  Sources(i)[j] = IF j <= First THEN 0 ELSE Dealt(i, j - First)
    <3>1. CASE j <= First
      <4>1. j \in 1 .. First
        BY <1>1, <3>1
      <4> QED
        BY <1>8, <1>10, <3>1, <4>1
    <3>2. CASE ~(j <= First)
      BY <1>10, <1>11, <1>12, <1>13, <3>2
    <3> QED
      BY <3>1, <3>2
  <2> QED
    BY <1>10, <2>1

\* No track beyond the last is asked for, but in the loop of a format 2 song.
LEMMA NeverBeyond ==
    ASSUME TypeOK, nsrc > 0, NEW i \in 0 .. ndest - 1, NEW d \in 1 .. Take(i),
           format = 1 \/ ndest < nsrc
    PROVE  Dealt(i, d) < nsrc + First
<1>1. nsrc \in Nat \ {0} /\ ndest \in Nat \ {0} /\ First \in {0, 1}
  BY SizesTyped
<1>2. CASE ndest >= nsrc
  <2>1. i % nsrc \in 0 .. nsrc - 1
    BY <1>1, DivMod
  <2> QED
    BY <1>1, <1>2, <2>1 DEF Dealt, First
<1>3. CASE ndest < nsrc
  <2> DEFINE Q == nsrc \div ndest
             R == nsrc % ndest
  <2>1. Q \in Int /\ R \in 0 .. ndest - 1 /\ nsrc = ndest * Q + R
    BY <1>1, DivMod
  <2>2. d <= Q + IF i < R THEN 1 ELSE 0
    BY <1>1, <1>3 DEF Take, track_num_map
  <2> HIDE DEF Q, R
  <2>3. d \in Int
    OBVIOUS
  <2>4. (Q - (d - 1)) * ndest = nsrc - R - (d - 1) * ndest
    BY <1>1, <2>1, <2>3, SMTT(30)
  <2>5. d <= Q => i + (d - 1) * ndest < nsrc
    BY <1>1, <2>1, <2>3, <2>4, AtLeastOnce, SMTT(30)
  <2>6. d = Q + 1 /\ i < R => i + (d - 1) * ndest < nsrc
    BY <1>1, <2>1, <2>3, SMTT(30)
  <2>7. i + (d - 1) * ndest < nsrc
    BY <2>1, <2>2, <2>3, <2>5, <2>6
  <2> QED
    BY <1>1, <1>3, <2>7 DEF Dealt
<1> QED
  BY <1>1, <1>2, <1>3

-----------------------------------------------------------------------------
(* Every step keeps it.                                                     *)

LEMMA SplitInvInit ==
    ASSUME Init
    PROVE  SplitInv
BY SplitterAssumption DEF Init, SplitInv, TypeOK

\* A part appended leaves the ones before as they are.
LEMMA PartAppended ==
    ASSUME SplitInv, Splitting, nsrc > 0, UNCHANGED << song, split >>,
           NEW p \in Seq((0 .. MaxTracks) \cup {Unknown}),
           parts' = Append(parts, p),
           \/ p = Sources(Len(parts))
           \/ p = << Unknown >> /\ format # 1 /\ ndest >= nsrc
    PROVE  SplitInv'
<1> USE DEF song
<1>1. /\ parts \in Seq(Seq((0 .. MaxTracks) \cup {Unknown}))
      /\ Len(parts) < ndest /\ split = "splitting"
      /\ ndest \in Nat
  BY DEF SplitInv, TypeOK, Splitting
<1>2. /\ parts' \in Seq(Seq((0 .. MaxTracks) \cup {Unknown}))
      /\ Len(parts') = Len(parts) + 1
      /\ \A i \in 1 .. Len(parts) : parts'[i] = parts[i]
      /\ parts'[Len(parts) + 1] = p
  BY <1>1
<1>3. TypeOK'
  BY <1>1, <1>2 DEF SplitInv, TypeOK
<1>4. nsrc' = nsrc /\ \A k \in Int : Sources(k)' = Sources(k)
  BY DEF nsrc, Sources, TempoMap, Looped, Mixed, track_num_map, First
<1>5. \A i \in 1 .. Len(parts') : PartIsItsSources(i)'
  <2> SUFFICES ASSUME NEW i \in 1 .. Len(parts')
               PROVE  PartIsItsSources(i)'
    OBVIOUS
  <2>1. Len(parts) \in Nat /\ i \in 1 .. Len(parts) + 1
    BY <1>1, <1>2
  <2>2. CASE i \in 1 .. Len(parts)
    BY <2>1, <2>2, <1>2, <1>4 DEF SplitInv, PartIsItsSources
  <2>3. CASE i = Len(parts) + 1
    BY <2>1, <2>3, <1>2, <1>4 DEF PartIsItsSources
  <2> QED
    BY <2>1, <2>2, <2>3
<1> QED
  BY <1>1, <1>3, <1>4, <1>5 DEF SplitInv

\* Nor does a step that appends none.
LEMMA PartsKept ==
    ASSUME SplitInv, UNCHANGED << song, parts >>,
           split' \in {"called", "splitting", "done", "null", "crashed"},
           split' = "done" => Len(parts) = ndest
    PROVE  SplitInv'
<1> USE DEF song
<1>1. TypeOK'
  BY DEF SplitInv, TypeOK
<1>2. nsrc' = nsrc /\ \A k \in Int : Sources(k)' = Sources(k)
  BY DEF nsrc, Sources, TempoMap, Looped, Mixed, track_num_map, First
<1>3. Len(parts) \in Nat
  BY DEF SplitInv, TypeOK
<1>4. \A i \in 1 .. Len(parts') : PartIsItsSources(i)'
  BY <1>2, <1>3 DEF SplitInv, PartIsItsSources
<1> QED
  BY <1>1, <1>2, <1>4 DEF SplitInv

LEMMA SplitInvNext ==
    ASSUME SplitInv, [Next]_splitVars
    PROVE  SplitInv'
<1> USE DEF song
<1>1. CASE Start
  BY <1>1, PartsKept DEF Start
<1>2. CASE MakePart
  <2> DEFINE p == Sources(Len(parts))
  <2>1. /\ TypeOK /\ Splitting /\ nsrc > 0
        /\ parts' = Append(parts, p)
        /\ UNCHANGED << song, split >>
        /\ \A j \in DOMAIN p : p[j] < nread
    BY <1>2 DEF MakePart, SplitInv
  <2>2. Len(parts) \in 0 .. ndest - 1 /\ nread \in 0 .. MaxTracks
    BY <2>1, SplitterAssumption DEF TypeOK, Splitting
  <2>3. p \in Seq(Nat)
    BY <2>1, <2>2, SourcesOf
  <2> HIDE DEF p
  <2>4. \A j \in 1 .. Len(p) : p[j] \in 0 .. MaxTracks
    BY <2>1, <2>2, <2>3, SplitterAssumption
  <2>5. Len(p) \in Nat /\ p \in [1 .. Len(p) -> (0 .. MaxTracks) \cup {Unknown}]
    BY <2>3, <2>4, LenProperties
  <2>6. p \in Seq((0 .. MaxTracks) \cup {Unknown})
    BY <2>5, SeqDef
  <2> QED
    BY <2>1, <2>6, PartAppended DEF p
<1>3. CASE MakeUnknownPart
  <2>1. << Unknown >> \in Seq((0 .. MaxTracks) \cup {Unknown})
    OBVIOUS
  <2>2. format # 1 /\ ndest >= nsrc
    <3> DEFINE p == Sources(Len(parts))
    <3>1. TypeOK /\ nsrc > 0 /\ Among(ntracks, p) /\ Len(parts) \in 0 .. ndest - 1
      BY <1>3 DEF MakeUnknownPart, SplitInv, TypeOK, Splitting
    <3>2. PICK j \in DOMAIN p : p[j] = ntracks
      BY <3>1 DEF Among
    <3>3. /\ DOMAIN p = 1 .. First + Take(Len(parts))
          /\ p[j] = IF j <= First THEN 0 ELSE Dealt(Len(parts), j - First)
      BY <3>1, <3>2, SourcesOf, LenProperties
    <3>4. nsrc \in Nat \ {0} /\ ndest \in Nat \ {0} /\ First \in {0, 1} /\ ntracks = nsrc + First
      BY <3>1, SizesTyped
    <3>5. Take(Len(parts)) \in Nat
      BY <3>1, TakeTyped
    <3> HIDE DEF p
    <3>6. j \in 1 .. First + Take(Len(parts))
      BY <3>3
    <3>7. j > First
      <4>1. j <= First => ntracks = 0
        BY <3>2, <3>3
      <4> QED
        BY <3>4, <3>5, <3>6, <4>1
    <3>8. Dealt(Len(parts), j - First) = nsrc + First
      <4>1. ~(j <= First)
        BY <3>4, <3>6, <3>7
      <4> QED
        BY <3>2, <3>3, <3>4, <4>1
    <3>9. j - First \in 1 .. Take(Len(parts))
      BY <3>4, <3>5, <3>6, <3>7
    <3> QED
      BY <3>1, <3>4, <3>8, <3>9, NeverBeyond
  <2> QED
    BY <1>3, <2>1, <2>2, PartAppended DEF MakeUnknownPart
<1>4. CASE SplitCrashes
  BY <1>4, PartsKept DEF SplitCrashes
<1>5. CASE Return
  BY <1>5, PartsKept DEF Return
<1>6. CASE UNCHANGED splitVars
  <2>1. split \in {"called", "splitting", "done", "null", "crashed"}
    BY DEF SplitInv, TypeOK
  <2> QED
    BY <1>6, <2>1, PartsKept DEF splitVars, SplitInv
<1> QED
  BY <1>1, <1>2, <1>3, <1>4, <1>5, <1>6 DEF Next

\* Every variable keeps its type, for songs and orchestras of any size
\* (Mfile_split_by_tracks).
THEOREM SplitTyped == Spec => []TypeOK
<1>1. Init => SplitInv
  BY SplitInvInit
<1>2. SplitInv /\ [Next]_splitVars => SplitInv'
  BY SplitInvNext
<1>3. SplitInv => TypeOK
  BY DEF SplitInv
<1> QED
  BY <1>1, <1>2, <1>3, PTL DEF Spec

-----------------------------------------------------------------------------
(* A finished split.                                                        *)

\* Track t of a format 1 song is in part t, when there are parts enough, and
\* in the part its number leads to otherwise.
LEMMA DoneCovers ==
    ASSUME SplitInv
    PROVE  EveryTrackSent
<1> SUFFICES ASSUME split = "done", format = 1, NEW t \in 1 .. ntracks - 1
             PROVE  \E i \in 1 .. ndest : Among(t, parts[i])
  BY DEF EveryTrackSent
<1>1. TypeOK /\ Len(parts) = ndest /\ ndest \in Nat \ {0}
  BY DEF SplitInv, TypeOK
<1>2. nsrc > 0 /\ nsrc = ntracks - 1 /\ First = 1 /\ nsrc \in Nat
  BY <1>1, SplitterAssumption DEF nsrc, First, TypeOK
<1> SUFFICES ASSUME TRUE
             PROVE  \E i \in 0 .. ndest - 1, d \in Nat \ {0} :
                        d <= Take(i) /\ Dealt(i, d) = t
  <2>1. PICK i \in 0 .. ndest - 1, d \in Nat \ {0} : d <= Take(i) /\ Dealt(i, d) = t
    OBVIOUS
  <2>2. parts[i + 1] = Sources(i)
    BY <1>1 DEF SplitInv, PartIsItsSources
  <2>3. Take(i) \in Nat
    BY <1>1, <1>2, TakeTyped
  <2>4. /\ DOMAIN Sources(i) = 1 .. 1 + Take(i)
        /\ \A j \in 1 .. 1 + Take(i) : Sources(i)[j] = IF j <= 1 THEN 0 ELSE Dealt(i, j - 1)
    BY <1>1, <1>2, <2>1, <2>3, SourcesOf, LenProperties
  <2>5. d + 1 \in 1 .. 1 + Take(i) /\ ~(d + 1 <= 1) /\ (d + 1) - 1 = d
    BY <2>1, <2>3
  <2>6. Sources(i)[d + 1] = t
    BY <2>1, <2>4, <2>5
  <2>7. Among(t, parts[i + 1])
    BY <2>2, <2>4, <2>5, <2>6 DEF Among
  <2> QED
    BY <1>1, <2>7
<1>3. CASE ndest >= nsrc
  <2> DEFINE q == (t - 1) \div nsrc
             r == (t - 1) % nsrc
  <2>1. /\ r \in 0 .. nsrc - 1 /\ q \in Int
        /\ t - 1 = nsrc * q + r
    <3>1. t - 1 \in Int /\ nsrc > 0 /\ nsrc \in Nat
      BY <1>2
    <3> QED
      BY <3>1, DivMod
  <2> HIDE DEF q, r
  <2>2. r + q * nsrc = (t - 1) + 0 * nsrc
    BY <1>2, <2>1, SMTT(30)
  <2>3. t - 1 \in 0 .. nsrc - 1
    BY <1>2
  <2>4. r = t - 1
    BY <1>2, <2>1, <2>2, <2>3, DivUnique
  <2>5. t - 1 \in 0 .. ndest - 1 /\ Take(t - 1) = 1
    BY <1>1, <1>2, <1>3, <2>3 DEF Take
  <2>6. Dealt(t - 1, 1) = ((t - 1) % nsrc) + 1
    BY <1>3 DEF Dealt
  <2>7. Dealt(t - 1, 1) = t
    BY <1>2, <2>4, <2>6 DEF r
  <2> QED
    BY <2>5, <2>7
<1>4. CASE ~(ndest >= nsrc)
  <2> DEFINE i == (t - 1) % ndest
             d == ((t - 1) \div ndest) + 1
  <2>1. /\ i \in 0 .. ndest - 1 /\ (t - 1) \div ndest \in Nat
        /\ t - 1 = ndest * ((t - 1) \div ndest) + i
    BY <1>1, <1>2, DivMod, DivNat
  <2>2. t - 1 \in 0 .. nsrc - 1
    BY <1>2
  <2>3. d <= Take(i)
    BY <1>1, <1>2, <1>4, <2>2, MapCovers DEF Take
  <2>4. Dealt(i, d) = t
    BY <1>1, <1>2, <1>4, <2>1, SMTT(30) DEF Dealt
  <2> QED
    BY <2>1, <2>3, <2>4
<1> QED
  BY <1>3, <1>4

\* No track of a format 1 song is lost, whatever the numbers of its tracks and
\* of the clients (midi_splitter.c:41-116).
THEOREM NothingLost == Spec => []EveryTrackSent
<1>1. Init => SplitInv
  BY SplitInvInit
<1>2. SplitInv /\ [Next]_splitVars => SplitInv'
  BY SplitInvNext
<1>3. SplitInv => EveryTrackSent
  BY DoneCovers
<1> QED
  BY <1>1, <1>2, <1>3, PTL DEF Spec

\* A track that is dealt says which part it is in, and where.
LEMMA DoneOnce ==
    ASSUME SplitInv
    PROVE  NoTrackTwice
<1> SUFFICES ASSUME split = "done", ndest < nsrc,
                    NEW i1 \in 1 .. ndest, NEW i2 \in 1 .. ndest,
                    NEW j1 \in DOMAIN parts[i1], NEW j2 \in DOMAIN parts[i2],
                    parts[i1][j1] = parts[i2][j2], parts[i1][j1] >= First
             PROVE  i1 = i2 /\ j1 = j2
  BY DEF NoTrackTwice
<1>1. TypeOK /\ Len(parts) = ndest /\ ndest \in Nat \ {0} /\ nsrc > 0
  BY SizesTyped DEF SplitInv, TypeOK
<1>2. nsrc \in Nat \ {0} /\ First \in {0, 1}
  BY <1>1, SizesTyped
<1>3. \A i \in 1 .. ndest : parts[i] = Sources(i - 1)
  BY <1>1, <1>2 DEF SplitInv, PartIsItsSources
<1>4. \A i \in 1 .. ndest :
        /\ Take(i - 1) \in Nat
        /\ DOMAIN parts[i] = 1 .. First + Take(i - 1)
        /\ \A j \in DOMAIN parts[i] : parts[i][j] >= First =>
               /\ j > First
               /\ parts[i][j] = (i - 1) + (j - First - 1) * ndest + First
  <2> SUFFICES ASSUME NEW i \in 1 .. ndest
               PROVE  /\ Take(i - 1) \in Nat
                      /\ DOMAIN parts[i] = 1 .. First + Take(i - 1)
                      /\ \A j \in DOMAIN parts[i] : parts[i][j] >= First =>
                             /\ j > First
                             /\ parts[i][j] = (i - 1) + (j - First - 1) * ndest + First
    OBVIOUS
  <2>1. i - 1 \in 0 .. ndest - 1
    BY <1>1
  <2>2. Take(i - 1) \in Nat
    BY <1>1, <2>1, TakeTyped
  <2>3. /\ DOMAIN parts[i] = 1 .. First + Take(i - 1)
        /\ \A j \in 1 .. First + Take(i - 1) :
             parts[i][j] = IF j <= First THEN 0 ELSE Dealt(i - 1, j - First)
    BY <1>1, <1>3, <2>1, SourcesOf, LenProperties
  <2>4. \A d \in Int : Dealt(i - 1, d) = (i - 1) + (d - 1) * ndest + First
    BY <1>1, <1>2 DEF Dealt
  <2>5. \A j \in 1 .. First + Take(i - 1) : j > First =>
            parts[i][j] = (i - 1) + (j - First - 1) * ndest + First
    BY <1>2, <2>2, <2>3, <2>4
  <2>6. \A j \in 1 .. First + Take(i - 1) : parts[i][j] >= First => j > First
    BY <1>2, <2>2, <2>3
  <2> QED
    BY <2>2, <2>3, <2>5, <2>6
<1>5. /\ j1 \in Int /\ j2 \in Int
      /\ (i1 - 1) + (j1 - First - 1) * ndest = (i2 - 1) + (j2 - First - 1) * ndest
  <2>1. j1 \in 1 .. First + Take(i1 - 1) /\ j2 \in 1 .. First + Take(i2 - 1)
    BY <1>4
  <2>2. j1 \in Int /\ j2 \in Int
    BY <2>1
  <2>3. parts[i1][j1] = (i1 - 1) + (j1 - First - 1) * ndest + First
    BY <1>4
  <2>4. parts[i2][j2] = (i2 - 1) + (j2 - First - 1) * ndest + First
    BY <1>4
  <2> DEFINE p1 == (j1 - First - 1) * ndest
             p2 == (j2 - First - 1) * ndest
  <2>5. p1 \in Int /\ p2 \in Int
    BY <1>1, <1>2, <2>2
  <2>6. (i1 - 1) + p1 + First = (i2 - 1) + p2 + First
    BY <2>3, <2>4
  <2> HIDE DEF p1, p2
  <2>7. (i1 - 1) + p1 = (i2 - 1) + p2
    BY <1>2, <2>5, <2>6
  <2> QED
    BY <2>2, <2>7 DEF p1, p2
<1>6. /\ i1 - 1 \in 0 .. ndest - 1 /\ i2 - 1 \in 0 .. ndest - 1
      /\ j1 - First - 1 \in Int /\ j2 - First - 1 \in Int
  BY <1>1, <1>2, <1>5
<1> DEFINE d1 == j1 - First - 1
           d2 == j2 - First - 1
           k1 == i1 - 1
           k2 == i2 - 1
<1>7. /\ k1 \in 0 .. ndest - 1 /\ k2 \in 0 .. ndest - 1 /\ d1 \in Int /\ d2 \in Int
      /\ k1 + d1 * ndest = k2 + d2 * ndest
  BY <1>5, <1>6
<1> HIDE DEF d1, d2, k1, k2
<1>8. ndest \in Nat /\ ndest > 0
  BY <1>1
<1>9. k1 = k2 /\ d1 = d2
  BY <1>7, <1>8, DivUnique
<1>10. i1 - 1 = i2 - 1 /\ j1 - First - 1 = j2 - First - 1
  BY <1>9 DEF d1, d2, k1, k2
<1> QED
  BY <1>2, <1>5, <1>10

\* No track is given to two clients when there are fewer clients than tracks,
\* whatever their numbers (midi_splitter.c:76-116).
THEOREM NothingTwice == Spec => []NoTrackTwice
<1>1. Init => SplitInv
  BY SplitInvInit
<1>2. SplitInv /\ [Next]_splitVars => SplitInv'
  BY SplitInvNext
<1>3. SplitInv => NoTrackTwice
  BY DoneOnce
<1> QED
  BY <1>1, <1>2, <1>3, PTL DEF Spec

-----------------------------------------------------------------------------
(* A split on its way: what holds of the parts made so far.                 *)

\* A part that is made has a place, and its song a track to deal.
LEMMA PartMade ==
    ASSUME SplitInv, NEW i \in DOMAIN parts
    PROVE  /\ TypeOK /\ nsrc > 0
           /\ i - 1 \in 0 .. ndest - 1
           /\ PartIsItsSources(i)
<1>1. TypeOK /\ Len(parts) \in Nat /\ DOMAIN parts = 1 .. Len(parts)
  BY DEF SplitInv, TypeOK
<1>2. parts # << >>
  BY <1>1
<1>3. nsrc > 0
  BY <1>2 DEF SplitInv
<1>4. Len(parts) <= ndest /\ ndest \in Nat
  BY <1>1 DEF TypeOK
<1>5. i \in 1 .. Len(parts)
  BY <1>1
<1>6. i - 1 \in 0 .. ndest - 1
  BY <1>1, <1>4, <1>5
<1>7. PartIsItsSources(i)
  BY <1>5 DEF SplitInv
<1> QED
  BY <1>1, <1>3, <1>6, <1>7

\* The fewest tracks a part can have; none has more than one above it.
Fewest == First + IF ndest >= nsrc THEN 1 ELSE nsrc \div ndest

LEMMA PartLength ==
    ASSUME SplitInv, NEW i \in DOMAIN parts
    PROVE  Fewest \in Nat /\ Len(parts[i]) \in {Fewest, Fewest + 1}
<1>1. TypeOK
  BY PartMade
<1>2. nsrc > 0 /\ i - 1 \in 0 .. ndest - 1 /\ PartIsItsSources(i)
  BY PartMade
<1>3. nsrc \in Nat \ {0} /\ ndest \in Nat \ {0} /\ First \in {0, 1}
  BY <1>1, <1>2, SizesTyped
<1>4. nsrc \div ndest \in Nat
  BY <1>3, DivNat
<1>5. Fewest \in Nat
  BY <1>3, <1>4 DEF Fewest
<1>6. CASE parts[i] = Sources(i - 1)
  <2>1. Len(parts[i]) = First + Take(i - 1)
    BY <1>1, <1>2, <1>6, SourcesOf
  <2>2. CASE ndest >= nsrc
    BY <1>5, <2>1, <2>2 DEF Take, Fewest
  <2>3. CASE ~(ndest >= nsrc)
    <3>1. Take(i - 1) = (nsrc \div ndest) + IF i - 1 < nsrc % ndest THEN 1 ELSE 0
      BY <1>2, <2>3 DEF Take, track_num_map
    <3>2. Fewest = First + (nsrc \div ndest)
      BY <2>3 DEF Fewest
    <3>3. Take(i - 1) \in {nsrc \div ndest, (nsrc \div ndest) + 1}
      BY <1>4, <3>1
    <3> QED
      BY <1>3, <1>4, <2>1, <3>2, <3>3
  <2> QED
    BY <2>2, <2>3
<1>7. CASE parts[i] = << Unknown >> /\ format # 1 /\ ndest >= nsrc
  BY <1>5, <1>7 DEF Fewest, First
<1> QED
  BY <1>2, <1>5, <1>6, <1>7 DEF PartIsItsSources

LEMMA AlwaysEven ==
    ASSUME SplitInv
    PROVE  EvenParts
<1> SUFFICES ASSUME NEW i \in DOMAIN parts, NEW j \in DOMAIN parts
             PROVE  Len(parts[i]) <= Len(parts[j]) + 1
  BY DEF EvenParts
<1>1. /\ Fewest \in Nat
      /\ Len(parts[i]) \in {Fewest, Fewest + 1}
      /\ Len(parts[j]) \in {Fewest, Fewest + 1}
  BY PartLength
<1> QED
  BY <1>1

LEMMA AlwaysInTime ==
    ASSUME SplitInv
    PROVE  InTime
<1> SUFFICES ASSUME format = 1, NEW i \in DOMAIN parts
             PROVE  /\ parts[i][1] = 0
                    /\ Len(parts[i]) >= 2
                    /\ \A j \in 2 .. Len(parts[i]) : parts[i][j] \in 1 .. ntracks - 1
  BY DEF InTime
<1>1. TypeOK
  BY PartMade
<1>2. nsrc > 0 /\ i - 1 \in 0 .. ndest - 1 /\ parts[i] = Sources(i - 1)
  BY PartMade DEF PartIsItsSources
<1>3. nsrc \in Nat \ {0} /\ First = 1 /\ ntracks = nsrc + First
  BY <1>1, <1>2, SizesTyped DEF First
<1>4. Take(i - 1) \in Nat \ {0}
  BY <1>1, <1>2, TakeTyped
<1>5. /\ Len(parts[i]) = 1 + Take(i - 1)
      /\ \A j \in 1 .. 1 + Take(i - 1) :
           parts[i][j] = IF j <= 1 THEN 0 ELSE Dealt(i - 1, j - 1)
  BY <1>1, <1>2, <1>3, SourcesOf
<1>6. parts[i][1] = 0 /\ Len(parts[i]) >= 2
  BY <1>4, <1>5
<1>7. ASSUME NEW j \in 2 .. Len(parts[i])
      PROVE  parts[i][j] \in 1 .. ntracks - 1
  <2>1. j - 1 \in 1 .. Take(i - 1) /\ j - 1 \in Nat \ {0} /\ j \in 1 .. 1 + Take(i - 1) /\ ~(j <= 1)
    BY <1>4, <1>5
  <2>2. parts[i][j] = Dealt(i - 1, j - 1)
    BY <1>5, <2>1
  <2>3. Dealt(i - 1, j - 1) \in Nat /\ Dealt(i - 1, j - 1) >= First
    BY <1>1, <1>2, <2>1, DealtTyped
  <2>4. Dealt(i - 1, j - 1) < nsrc + First
    BY <1>1, <1>2, <2>1, NeverBeyond
  <2> QED
    BY <1>3, <2>2, <2>3, <2>4
<1> QED
  BY <1>6, <1>7

\* No client gets two tracks more than another, whatever the numbers of tracks
\* and clients (midi_splitter.c:11-15).
THEOREM SharedEvenly == Spec => []EvenParts
<1>1. Init => SplitInv
  BY SplitInvInit
<1>2. SplitInv /\ [Next]_splitVars => SplitInv'
  BY SplitInvNext
<1>3. SplitInv => EvenParts
  BY AlwaysEven
<1> QED
  BY <1>1, <1>2, <1>3, PTL DEF Spec

\* Every part of a format 1 song has the tempo map first, and then a track of
\* the song that is not it, whatever the numbers of tracks and clients
\* (midi_splitter.c:50-62, 85-98).
THEOREM TempoMapFirst == Spec => []InTime
<1>1. Init => SplitInv
  BY SplitInvInit
<1>2. SplitInv /\ [Next]_splitVars => SplitInv'
  BY SplitInvNext
<1>3. SplitInv => InTime
  BY AlwaysInTime
<1> QED
  BY <1>1, <1>2, <1>3, PTL DEF Spec
=============================================================================
