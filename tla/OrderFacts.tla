----------------------------- MODULE OrderFacts -----------------------------
(***************************************************************************)
(* Facts that the proofs about the logs rest on: least and greatest        *)
(* numbers; and records in numbered segments, of which some are the last.  *)
(***************************************************************************)
EXTENDS Naturals, Sequences, WellFoundedInduction, SequenceTheorems, TLAPS

-----------------------------------------------------------------------------
(* Numbers.                                                                *)

\* A non-empty set of natural numbers has a least element.
LEMMA LeastNat ==
    ASSUME NEW T \in SUBSET Nat, T # {}
    PROVE  \E x \in T : \A y \in T : x <= y
<1> DEFINE R == {ss \in Nat \X Nat : ss[1] < ss[2]}
<1>1. IsWellFoundedOn(R, Nat)
  BY NatLessThanWellFounded, Zenon DEF OpToRel
<1> HIDE DEF R
<1>2. PICK x \in T : \A y \in T : ~ (<<y, x>> \in R)
  BY <1>1, WFMin
<1>3. ASSUME NEW y \in T PROVE x <= y
  <2>1. x \in Nat /\ y \in Nat
    OBVIOUS
  <2>2. y < x => <<y, x>> \in R
    BY <2>1 DEF R
  <2> QED
    BY <1>2, <2>1, <2>2
<1> QED
  BY <1>3

\* A non-empty set of natural numbers that is bounded has a greatest element.
LEMMA GreatestNat ==
    ASSUME NEW T \in SUBSET Nat, T # {}, NEW b \in Nat, \A t \in T : t <= b
    PROVE  \E x \in T : \A y \in T : y <= x
<1> DEFINE U == {b - t : t \in T}
<1>1. U \in SUBSET Nat /\ U # {}
  <2>1. \A t \in T : t \in Nat /\ b - t \in Nat
    OBVIOUS
  <2>2. PICK t \in T : TRUE
    OBVIOUS
  <2>3. b - t \in U
    OBVIOUS
  <2> QED
    BY <2>1, <2>3
<1>2. PICK u \in U : \A y \in U : u <= y
  BY <1>1, LeastNat
<1>3. PICK x \in T : u = b - x
  BY <1>2
<1>4. ASSUME NEW y \in T PROVE y <= x
  BY <1>2, <1>3
<1> QED
  BY <1>4

-----------------------------------------------------------------------------
(* Records in numbered segments.  A place is the number of a segment and an *)
(* index in it.                                                             *)

Places(s) == UNION {{<<g, i>> : i \in 1..Len(s[g])} : g \in DOMAIN s}
Earlier(p, q) == p[1] < q[1] \/ (p[1] = q[1] /\ p[2] < q[2])
LastOf(p, S) == p \in S /\ \A q \in S : ~ Earlier(p, q)

\* Segments numbered up to n with records in T.
Segmented(s, n, T) == n \in Nat /\ \A g \in DOMAIN s : g \in 1..n /\ s[g] \in Seq(T)

LEMMA PlacesType ==
    ASSUME NEW s, NEW n, NEW T, Segmented(s, n, T)
    PROVE  /\ Places(s) \in SUBSET (Nat \X Nat)
           /\ \A p \in Places(s) : /\ p[1] \in DOMAIN s /\ p[1] <= n /\ p[1] \in Nat
                                   /\ p[2] \in 1..Len(s[p[1]]) /\ p[2] \in Nat
                                   /\ s[p[1]][p[2]] \in T
<1> SUFFICES ASSUME NEW p \in Places(s)
             PROVE  /\ p \in Nat \X Nat
                    /\ p[1] \in DOMAIN s /\ p[1] <= n /\ p[1] \in Nat
                    /\ p[2] \in 1..Len(s[p[1]]) /\ p[2] \in Nat
                    /\ s[p[1]][p[2]] \in T
  OBVIOUS
<1>1. PICK g \in DOMAIN s : \E i \in 1..Len(s[g]) : p = <<g, i>>
  BY DEF Places
<1>2. g \in 1..n /\ n \in Nat /\ s[g] \in Seq(T)
  BY DEF Segmented
<1> QED
  BY <1>1, <1>2

LEMMA PlacesHas ==
    ASSUME NEW s, NEW g \in DOMAIN s, NEW i \in 1..Len(s[g])
    PROVE  <<g, i>> \in Places(s)
BY DEF Places

\* A set of places that is bounded in both coordinates has a last one.
LEMMA LastOfPlaces ==
    ASSUME NEW S \in SUBSET (Nat \X Nat), S # {},
           NEW n \in Nat, \A p \in S : p[1] <= n,
           \A p \in S : \E m \in Nat : \A q \in S : q[1] = p[1] => q[2] <= m
    PROVE  \E p \in S : LastOf(p, S)
<1> DEFINE F == {p[1] : p \in S}
<1>1. F \in SUBSET Nat /\ F # {} /\ \A f \in F : f <= n
  OBVIOUS
<1>2. PICK f \in F : \A y \in F : y <= f
  BY <1>1, GreatestNat
<1>3. PICK r \in S : r[1] = f
  BY <1>2
<1> DEFINE I == {p[2] : p \in {q \in S : q[1] = f}}
<1>4. PICK m \in Nat : \A q \in S : q[1] = f => q[2] <= m
  BY <1>3
<1>5. I \in SUBSET Nat /\ I # {} /\ \A i \in I : i <= m
  BY <1>3, <1>4
<1>6. PICK i \in I : \A y \in I : y <= i
  BY <1>5, GreatestNat
<1>7. PICK p \in S : p[1] = f /\ p[2] = i
  BY <1>6
<1>8. ASSUME NEW q \in S PROVE ~ Earlier(p, q)
  <2>1. q[1] <= p[1] /\ (q[1] = p[1] => q[2] <= p[2])
    BY <1>2, <1>6, <1>7
  <2>2. p[1] \in Nat /\ q[1] \in Nat /\ p[2] \in Nat /\ q[2] \in Nat
    OBVIOUS
  <2> QED
    BY <2>1, <2>2 DEF Earlier
<1> QED
  BY <1>7, <1>8 DEF LastOf

\* It has only one.
LEMMA LastOfOne ==
    ASSUME NEW S \in SUBSET (Nat \X Nat), NEW p, NEW q, LastOf(p, S), LastOf(q, S)
    PROVE  p = q
<1>1. p \in Nat \X Nat /\ q \in Nat \X Nat /\ ~ Earlier(p, q) /\ ~ Earlier(q, p)
  BY DEF LastOf
<1>2. p[1] \in Nat /\ q[1] \in Nat /\ p[2] \in Nat /\ q[2] \in Nat
  BY <1>1
<1>3. p[1] = q[1] /\ p[2] = q[2]
  BY <1>1, <1>2 DEF Earlier
<1> QED
  BY <1>1, <1>3

\* Any records have a last one.
LEMMA PlacesLast ==
    ASSUME NEW s, NEW n, NEW T, Segmented(s, n, T), NEW S \in SUBSET Places(s)
    PROVE  S \in SUBSET (Nat \X Nat) /\ (S # {} => \E p : LastOf(p, S))
<1>1. S \in SUBSET (Nat \X Nat) /\ n \in Nat
  BY PlacesType DEF Segmented
<1>2. \A p \in S : p[1] <= n
  BY PlacesType
<1>3. ASSUME NEW p \in S
      PROVE  \E m \in Nat : \A q \in S : q[1] = p[1] => q[2] <= m
  <2>1. p[1] \in DOMAIN s
    BY PlacesType
  <2>2. Len(s[p[1]]) \in Nat
    BY <2>1, LenProperties DEF Segmented
  <2>3. \A q \in S : q[1] = p[1] => q[2] <= Len(s[p[1]])
    BY PlacesType
  <2> QED
    BY <2>2, <2>3
<1> QED
  BY <1>1, <1>2, <1>3, LastOfPlaces

\* A new, empty segment adds no record.
LEMMA SegmentOpened ==
    ASSUME NEW s, NEW n, NEW T, Segmented(s, n, T), NEW t,
           DOMAIN t = DOMAIN s \cup {n + 1}, t[n + 1] = <<>>,
           \A g \in DOMAIN s : t[g] = s[g]
    PROVE  /\ Segmented(t, n + 1, T)
           /\ Places(t) = Places(s)
           /\ \A p \in Places(s) : t[p[1]][p[2]] = s[p[1]][p[2]]
<1>1. \A g \in DOMAIN t : g \in 1..(n + 1) /\ t[g] \in Seq(T)
  <2>1. n \in Nat /\ \A g \in DOMAIN s : g \in 1..n /\ t[g] \in Seq(T)
    BY DEF Segmented
  <2>2. n + 1 \in 1..(n + 1) /\ t[n + 1] \in Seq(T)
    BY <2>1
  <2>3. \A g \in 1..n : g \in 1..(n + 1)
    BY <2>1
  <2> QED
    BY <2>1, <2>2, <2>3
<1>2. {<<n + 1, i>> : i \in 1..Len(t[n + 1])} = {}
  OBVIOUS
<1>3. Places(t) = Places(s)
  BY <1>2 DEF Places
<1>4. \A p \in Places(s) : t[p[1]][p[2]] = s[p[1]][p[2]]
  BY PlacesType
<1> QED
  BY <1>1, <1>3, <1>4 DEF Segmented

\* An append to the newest segment adds one record, after all the others.
LEMMA RecordAppended ==
    ASSUME NEW s, NEW n, NEW T, Segmented(s, n, T), n \in DOMAIN s, NEW op \in T, NEW t,
           DOMAIN t = DOMAIN s, t[n] = Append(s[n], op), \A g \in DOMAIN s \ {n} : t[g] = s[g],
           NEW new, new = <<n, Len(s[n]) + 1>>
    PROVE  /\ Segmented(t, n, T)
           /\ new \in Nat \X Nat /\ new[1] = n /\ new \notin Places(s)
           /\ Places(t) = Places(s) \cup {new}
           /\ t[new[1]][new[2]] = op
           /\ \A p \in Places(s) : t[p[1]][p[2]] = s[p[1]][p[2]] /\ ~ Earlier(new, p)
<1>1. PICK l : l = Len(s[n]) /\ new = <<n, l + 1>>
  OBVIOUS
<1>2. n \in Nat /\ s[n] \in Seq(T) /\ l \in Nat
  BY <1>1, LenProperties DEF Segmented
<1>3. DOMAIN t = DOMAIN s /\ t[n] = Append(s[n], op) /\ \A g \in DOMAIN s \ {n} : t[g] = s[g]
  OBVIOUS
<1>4. /\ Len(t[n]) = l + 1 /\ t[n][l + 1] = op /\ \A i \in 1..l : t[n][i] = s[n][i]
      /\ t[n] \in Seq(T)
  BY <1>1, <1>2, <1>3, AppendProperties
<1>5. Segmented(t, n, T)
  BY <1>3, <1>4 DEF Segmented
<1>6. 1..Len(t[n]) = 1..l \cup {l + 1} /\ 1..Len(s[n]) = 1..l
  BY <1>1, <1>2, <1>4
<1>7. ASSUME NEW p \in Places(s) PROVE p \in Places(t)
  <2>1. PICK g \in DOMAIN s : \E i \in 1..Len(s[g]) : p = <<g, i>>
    BY DEF Places
  <2>2. PICK i \in 1..Len(s[g]) : p = <<g, i>>
    BY <2>1
  <2>3. i \in 1..Len(t[g])
    BY <1>3, <1>6
  <2> QED
    BY <1>3, <2>2, <2>3, PlacesHas
<1>8. new \in Places(t)
  <2>1. l + 1 \in 1..Len(t[n])
    BY <1>6
  <2> QED
    BY <1>1, <1>3, <2>1, PlacesHas
<1>9. ASSUME NEW p \in Places(t) PROVE p \in Places(s) \cup {new}
  <2>1. PICK g \in DOMAIN s : \E i \in 1..Len(t[g]) : p = <<g, i>>
    BY <1>3 DEF Places
  <2>2. PICK i \in 1..Len(t[g]) : p = <<g, i>>
    BY <2>1
  <2>3. CASE g # n
    BY <1>3, <2>2, <2>3, PlacesHas
  <2>4. CASE g = n /\ i \in 1..l
    BY <1>6, <2>2, <2>4, PlacesHas
  <2>5. CASE g = n /\ i = l + 1
    BY <1>1, <2>2, <2>5
  <2> QED
    BY <1>6, <2>2, <2>3, <2>4, <2>5
<1>10. Places(t) = Places(s) \cup {new}
  BY <1>7, <1>8, <1>9
<1>11. new \notin Places(s)
  <2>1. new \in Places(s) => l + 1 \in 1..l
    BY <1>1, PlacesType
  <2> QED
    BY <1>2, <2>1
<1>12. ASSUME NEW p \in Places(s) PROVE t[p[1]][p[2]] = s[p[1]][p[2]] /\ ~ Earlier(new, p)
  <2>1. /\ p[1] \in DOMAIN s /\ p[1] <= n /\ p[1] \in Nat /\ p[2] \in Nat
        /\ p[2] \in 1..Len(s[p[1]])
    BY PlacesType
  <2>2. t[p[1]][p[2]] = s[p[1]][p[2]]
    BY <1>1, <1>3, <1>4, <2>1
  <2>3. ~ Earlier(new, p)
    BY <1>1, <1>2, <2>1 DEF Earlier
  <2> QED
    BY <2>2, <2>3
<1>13. new \in Nat \X Nat /\ new[1] = n /\ t[new[1]][new[2]] = op
  BY <1>1, <1>2, <1>4
<1> QED
  BY <1>5, <1>10, <1>11, <1>12, <1>13

\* Deleting a segment takes its records away and no other.
LEMMA SegmentRemoved ==
    ASSUME NEW s, NEW n, NEW T, Segmented(s, n, T), NEW g \in DOMAIN s, NEW t,
           t = [h \in DOMAIN s \ {g} |-> s[h]]
    PROVE  /\ Segmented(t, n, T)
           /\ \A p : p \in Places(t) <=> p \in Places(s) /\ p[1] # g
           /\ \A p \in Places(s) : p[1] # g => t[p[1]][p[2]] = s[p[1]][p[2]]
<1>1. DOMAIN t = DOMAIN s \ {g} /\ \A h \in DOMAIN t : t[h] = s[h]
  OBVIOUS
<1>2. ASSUME NEW p PROVE p \in Places(t) <=> p \in Places(s) /\ p[1] # g
  <2>1. p \in Places(t) <=> \E h \in DOMAIN s \ {g} : \E i \in 1..Len(s[h]) : p = <<h, i>>
    BY <1>1 DEF Places
  <2>2. p \in Places(s) <=> \E h \in DOMAIN s : \E i \in 1..Len(s[h]) : p = <<h, i>>
    BY DEF Places
  <2> QED
    BY <2>1, <2>2
<1>3. \A p \in Places(s) : p[1] # g => t[p[1]][p[2]] = s[p[1]][p[2]]
  BY <1>1, PlacesType
<1>4. Segmented(t, n, T)
  BY <1>1 DEF Segmented
<1> QED
  BY <1>2, <1>3, <1>4

-----------------------------------------------------------------------------
(* The records in a set U, and the last of them.                           *)

Chosen(s, U) == {p \in Places(s) : s[p[1]][p[2]] \in U}
LastIn(s, U) == LET p == CHOOSE q : LastOf(q, Chosen(s, U)) IN s[p[1]][p[2]]

LEMMA LastInIs ==
    ASSUME NEW s, NEW n, NEW T, Segmented(s, n, T), NEW U, NEW p, LastOf(p, Chosen(s, U))
    PROVE  LastIn(s, U) = s[p[1]][p[2]]
<1> DEFINE c == CHOOSE q : LastOf(q, Chosen(s, U))
<1>1. LastOf(c, Chosen(s, U))
  OBVIOUS
<1>2. Chosen(s, U) \in SUBSET (Nat \X Nat)
  BY PlacesType DEF Chosen
<1>3. c = p
  BY <1>1, <1>2, LastOfOne
<1> QED
  BY <1>3 DEF LastIn

LEMMA LastInExists ==
    ASSUME NEW s, NEW n, NEW T, Segmented(s, n, T), NEW U, Chosen(s, U) # {}
    PROVE  \E p \in Chosen(s, U) : LastOf(p, Chosen(s, U)) /\ LastIn(s, U) = s[p[1]][p[2]]
<1>1. Chosen(s, U) \in SUBSET Places(s)
  BY DEF Chosen
<1>2. PICK p : LastOf(p, Chosen(s, U))
  BY <1>1, PlacesLast
<1>3. p \in Chosen(s, U)
  BY <1>2 DEF LastOf
<1> QED
  BY <1>2, <1>3, LastInIs

\* The same places with the same records.
LEMMA ChosenSame ==
    ASSUME NEW s, NEW n, NEW m, NEW T, Segmented(s, n, T), NEW t, Segmented(t, m, T),
           Places(t) = Places(s), \A p \in Places(s) : t[p[1]][p[2]] = s[p[1]][p[2]], NEW U
    PROVE  /\ Chosen(t, U) = Chosen(s, U)
           /\ Chosen(s, U) # {} => LastIn(t, U) = LastIn(s, U)
<1>1. Chosen(t, U) = Chosen(s, U)
  BY DEF Chosen
<1>2. ASSUME Chosen(s, U) # {} PROVE LastIn(t, U) = LastIn(s, U)
  <2>1. PICK p \in Chosen(s, U) : LastOf(p, Chosen(s, U)) /\ LastIn(s, U) = s[p[1]][p[2]]
    BY <1>2, LastInExists
  <2>2. LastIn(t, U) = t[p[1]][p[2]]
    BY <1>1, <2>1, LastInIs
  <2> QED
    BY <2>1, <2>2 DEF Chosen
<1> QED
  BY <1>1, <1>2

\* An appended record is the last of every set it is in, and changes no other.
LEMMA ChosenAppended ==
    ASSUME NEW s, NEW n, NEW T, Segmented(s, n, T), n \in DOMAIN s, NEW op \in T, NEW t,
           DOMAIN t = DOMAIN s, t[n] = Append(s[n], op), \A g \in DOMAIN s \ {n} : t[g] = s[g],
           NEW U
    PROVE  /\ op \in U => /\ LastIn(t, U) = op
                          /\ \E p \in Chosen(t, U) : p[1] = n
                          /\ \A p \in Chosen(s, U) : p \in Chosen(t, U)
           /\ op \notin U => /\ Chosen(t, U) = Chosen(s, U)
                             /\ Chosen(s, U) # {} => LastIn(t, U) = LastIn(s, U)
<1> DEFINE new == <<n, Len(s[n]) + 1>>
<1>1. /\ Segmented(t, n, T)
      /\ new \in Nat \X Nat /\ new[1] = n /\ new \notin Places(s)
      /\ Places(t) = Places(s) \cup {new}
      /\ t[new[1]][new[2]] = op
      /\ \A p \in Places(s) : t[p[1]][p[2]] = s[p[1]][p[2]] /\ ~ Earlier(new, p)
  BY RecordAppended
<1> HIDE DEF new
<1>2. CASE op \in U
  <2>1. Chosen(t, U) = Chosen(s, U) \cup {new}
    BY <1>1, <1>2 DEF Chosen
  <2>2. LastOf(new, Chosen(t, U))
    BY <1>1, <2>1 DEF LastOf, Chosen, Earlier
  <2>3. LastIn(t, U) = op
    BY <1>1, <2>2, LastInIs
  <2> QED
    BY <1>1, <1>2, <2>1, <2>3
<1>3. CASE op \notin U
  <2>1. Chosen(t, U) = Chosen(s, U)
    BY <1>1, <1>3 DEF Chosen
  <2>2. ASSUME Chosen(s, U) # {} PROVE LastIn(t, U) = LastIn(s, U)
    <3>1. PICK p \in Chosen(s, U) : LastOf(p, Chosen(s, U)) /\ LastIn(s, U) = s[p[1]][p[2]]
      BY <2>2, LastInExists
    <3>2. LastIn(t, U) = t[p[1]][p[2]]
      BY <1>1, <2>1, <3>1, LastInIs
    <3> QED
      BY <1>1, <3>1, <3>2 DEF Chosen
  <2> QED
    BY <1>3, <2>1, <2>2
<1> QED
  BY <1>2, <1>3

\* Deleting the oldest segment leaves the last record, or none.
LEMMA ChosenRemoved ==
    ASSUME NEW s, NEW n, NEW T, Segmented(s, n, T), NEW g \in DOMAIN s,
           \A h \in DOMAIN s : g <= h, NEW t, t = [h \in DOMAIN s \ {g} |-> s[h]], NEW U
    PROVE  /\ Chosen(t, U) = {p \in Chosen(s, U) : p[1] # g}
           /\ Chosen(t, U) # {} => LastIn(t, U) = LastIn(s, U)
<1>1. /\ Segmented(t, n, T)
      /\ \A p : p \in Places(t) <=> p \in Places(s) /\ p[1] # g
      /\ \A p \in Places(s) : p[1] # g => t[p[1]][p[2]] = s[p[1]][p[2]]
  BY SegmentRemoved
<1>2. Chosen(t, U) = {p \in Chosen(s, U) : p[1] # g}
  BY <1>1 DEF Chosen
<1>3. ASSUME Chosen(t, U) # {} PROVE LastIn(t, U) = LastIn(s, U)
  <2>1. PICK q \in Chosen(s, U) : q[1] # g
    BY <1>2, <1>3
  <2>2. PICK p \in Chosen(s, U) : LastOf(p, Chosen(s, U)) /\ LastIn(s, U) = s[p[1]][p[2]]
    BY <2>1, LastInExists
  <2>3. p \in Places(s) /\ q \in Places(s) /\ ~ Earlier(p, q)
    BY <2>2 DEF Chosen, LastOf
  <2>0. g \in Nat
    BY DEF Segmented
  <2>4. p[1] \in Nat /\ q[1] \in Nat /\ g <= q[1] /\ p[1] \in DOMAIN s
    <3>1. \A r \in Places(s) : r[1] \in DOMAIN s /\ r[1] \in Nat
      BY PlacesType
    <3> QED
      BY <2>3, <3>1
  <2>5. p[1] # g
    BY <2>0, <2>1, <2>3, <2>4 DEF Earlier
  <2>6. LastOf(p, Chosen(t, U))
    BY <1>2, <2>2, <2>5 DEF LastOf
  <2>7. LastIn(t, U) = t[p[1]][p[2]]
    BY <1>1, <2>6, LastInIs
  <2> QED
    BY <1>1, <2>2, <2>3, <2>5, <2>7
<1> QED
  BY <1>2, <1>3
=============================================================================
