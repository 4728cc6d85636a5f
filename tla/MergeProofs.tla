---------------------------- MODULE MergeProofs -----------------------------
(***************************************************************************)
(* Revocations survive the merge of any number of registries of any size.  *)
(***************************************************************************)
EXTENDS RegistryMerge, FiniteSetTheorems, WellFoundedInduction, TLAPS

\* The part of TypeOK the induction needs; the sorted result plays no role in it.
PlaceOK ==
    /\ given \in Inputs
    /\ r \in Nat \ {0} /\ k \in Nat \ {0}

IInv == PlaceOK /\ RevokedWins

\* The given registries are sequences of sequences, so that places are numbers.
LEMMA GivenIsList ==
    ASSUME given \in Inputs
    PROVE  /\ DOMAIN given = 1..Len(given) /\ Len(given) \in Nat
           /\ \A i \in DOMAIN given : DOMAIN given[i] = 1..Len(given[i]) /\ Len(given[i]) \in Nat
<1>1. given \in Seq(Registry)
  BY MergeAssumption
<1>2. \A keys \in Registry : keys \in Seq(TrustedKey)
  BY DEF Registry
<1> QED
  BY <1>1, <1>2

\* One step over the key at (r, k): what was read before is still answered for, and
\* the new key too, when the entries for other identities stay.
LEMMA OneMoreKey ==
    ASSUME IInv, Reading, Advance,
           NEW winner,
           merged' = (merged \ Existing) \cup {winner},
           Identity(winner) = Identity(Key),
           Revoked(Key) => Revoked(winner),
           \A entry \in Existing : Revoked(entry) => Revoked(winner)
    PROVE  RevokedWins'
<1> DEFINE Answered(i, j, S) ==
      \E entry \in S : /\ Identity(entry) = Identity(given[i][j])
                       /\ Revoked(given[i][j]) => Revoked(entry)
<1>1. \A a, b \in merged' : Identity(a) = Identity(b) => a = b
  BY DEF IInv, RevokedWins, Existing
<1>2. ASSUME NEW i \in DOMAIN given, NEW j \in DOMAIN given[i], WasRead(i, j)'
      PROVE  Answered(i, j, merged')
  <2>1. CASE WasRead(i, j)
    <3>1. PICK entry \in merged : /\ Identity(entry) = Identity(given[i][j])
                                  /\ Revoked(given[i][j]) => Revoked(entry)
      BY <2>1 DEF IInv, RevokedWins
    <3>2. CASE entry \in Existing
      BY <3>1, <3>2 DEF Existing
    <3>3. CASE entry \notin Existing
      BY <3>1, <3>3
    <3> QED
      BY <3>2, <3>3
  <2>2. CASE ~WasRead(i, j)
    <3>1. i = r /\ j = k
      BY <1>2, <2>2, GivenIsList DEF WasRead, Advance, IInv, PlaceOK
    <3> QED
      BY <3>1 DEF Key
  <2> QED
    BY <2>1, <2>2
<1>3. given' = given
  BY DEF Advance
<1> QED
  BY <1>1, <1>2, <1>3 DEF RevokedWins

LEMMA IInvInit ==
    ASSUME Init
    PROVE  IInv
<1>1. PlaceOK
  BY DEF Init, PlaceOK
<1>2. ASSUME NEW i \in DOMAIN given, NEW j \in DOMAIN given[i] PROVE ~WasRead(i, j)
  BY <1>1, GivenIsList DEF Init, PlaceOK, WasRead
<1> QED
  BY <1>1, <1>2 DEF Init, IInv, RevokedWins

LEMMA IInvStep ==
    ASSUME IInv, [Next]_vars
    PROVE  IInv'
<1>1. PlaceOK'
  BY DEF IInv, PlaceOK, Next, vars, AddKey, RevokeKey, KeepKey, NextRegistry, Finish, Rest, Advance
<1>2. CASE AddKey
  <2>1. merged' = (merged \ Existing) \cup {Key}
    BY <1>2 DEF AddKey
  <2> QED
    BY <1>1, <1>2, <2>1, OneMoreKey DEF AddKey, IInv
<1>3. CASE RevokeKey
  BY <1>1, <1>3, OneMoreKey DEF RevokeKey, IInv
<1>4. CASE KeepKey
  <2>1. PICK kept \in Existing : Revoked(Key) => Revoked(kept)
    BY <1>4 DEF KeepKey
  <2>2. Existing = {kept}
    BY <2>1 DEF Existing, IInv, RevokedWins
  <2>3. merged' = (merged \ Existing) \cup {kept}
    BY <1>4, <2>2 DEF KeepKey, Existing
  <2>4. Identity(kept) = Identity(Key)
    BY <2>1 DEF Existing
  <2> QED
    BY <1>1, <1>4, <2>1, <2>2, <2>3, <2>4, OneMoreKey DEF KeepKey, IInv
<1>5. CASE NextRegistry
  <2>1. \A i \in DOMAIN given : \A j \in DOMAIN given[i] : WasRead(i, j)' => WasRead(i, j)
    BY <1>5, GivenIsList DEF NextRegistry, WasRead, IInv, PlaceOK
  <2> QED
    BY <1>1, <1>5, <2>1 DEF NextRegistry, IInv, RevokedWins
<1>6. CASE Finish \/ Rest \/ UNCHANGED vars
  BY <1>1, <1>6 DEF Finish, Rest, vars, IInv, RevokedWins, WasRead
<1> QED
  BY <1>2, <1>3, <1>4, <1>5, <1>6 DEF Next

-----------------------------------------------------------------------------
\* The sorted list of the survivors.

LEMMA OrderIsTotal ==
    ASSUME NEW a \in TrustedKey, NEW b \in TrustedKey
    PROVE  /\ ~Before(a, a)
           /\ Before(a, b) => ~Before(b, a)
           /\ Identity(a) # Identity(b) => Before(a, b) \/ Before(b, a)
           /\ \A c \in TrustedKey : Before(a, b) /\ Before(b, c) => Before(a, c)
<1>1. \A e \in TrustedKey : e.keyId \in Nat /\ e.fp \in Nat
  BY TrustAssumption DEF TrustedKey
<1> QED
  BY <1>1 DEF Before, Identity

\* The entries up to e in the order.
UpToEntry(S, e) == { x \in S : x = e \/ Before(x, e) }

\* Each entry has a place: the number of entries up to it.
LEMMA PlacesGrow ==
    ASSUME NEW S \in SUBSET TrustedKey, IsFiniteSet(S), NEW a \in S, NEW b \in S, Before(a, b)
    PROVE  Cardinality(UpToEntry(S, a)) < Cardinality(UpToEntry(S, b))
<1> DEFINE A == UpToEntry(S, a)
           B == UpToEntry(S, b)
<1>1. A \subseteq B /\ B \subseteq S
  BY OrderIsTotal DEF UpToEntry
<1>2. b \in B /\ b \notin A
  BY OrderIsTotal DEF UpToEntry
<1> HIDE DEF A, B
<1>3. IsFiniteSet(B)
  BY <1>1, FS_Subset
<1>4. IsFiniteSet(A) /\ Cardinality(A) <= Cardinality(B) /\ Cardinality(A) # Cardinality(B)
  BY <1>1, <1>2, <1>3, FS_Subset
<1>5. Cardinality(A) \in Nat /\ Cardinality(B) \in Nat
  BY <1>3, <1>4, FS_CardinalityType
<1> QED
  BY <1>4, <1>5 DEF A, B

Ascending(list, n) == \A i, j \in 1..n : i < j => Before(list[i], list[j])

LEMMA SortedExists ==
    ASSUME NEW S \in SUBSET TrustedKey, IsFiniteSet(S),
           \A a, b \in S : Identity(a) = Identity(b) => a = b
    PROVE  \E list \in [1..Cardinality(S) -> S] : Ascending(list, Cardinality(S))
<1> DEFINE n == Cardinality(S)
           place == [e \in S |-> Cardinality(UpToEntry(S, e))]
<1>1. n \in Nat
  BY FS_CardinalityType
<1>2. ASSUME NEW e \in S PROVE place[e] \in 1..n
  <2>1. e \in UpToEntry(S, e) /\ UpToEntry(S, e) \subseteq S
    BY DEF UpToEntry
  <2>2. /\ IsFiniteSet(UpToEntry(S, e)) /\ Cardinality(UpToEntry(S, e)) <= n
        /\ Cardinality(UpToEntry(S, e)) \in Nat
    BY <2>1, FS_Subset, FS_CardinalityType
  <2>3. Cardinality(UpToEntry(S, e)) # 0
    BY <2>1, <2>2, FS_EmptySet
  <2> QED
    BY <1>1, <2>2, <2>3
<1>3. \A a, b \in S : Before(a, b) => place[a] < place[b]
  BY PlacesGrow
<1>4. place \in [S -> 1..n]
  <2> HIDE DEF n
  <2> QED
    BY <1>2
<1> HIDE DEF place, n
<1>5. \A a, b \in S : place[a] = place[b] => a = b
  <2> SUFFICES ASSUME NEW a \in S, NEW b \in S, place[a] = place[b], a # b PROVE FALSE
    OBVIOUS
  <2>1. Before(a, b) \/ Before(b, a)
    BY OrderIsTotal
  <2>2. place[a] \in Nat /\ place[b] \in Nat
    BY <1>2
  <2> QED
    BY <1>3, <2>1, <2>2
<1>6. place \in Injection(S, 1..n)
  BY <1>4, <1>5 DEF Injection, IsInjective
<1>7. IsFiniteSet(1..n) /\ Cardinality(1..n) = n
  <2>1. 1 \in Int /\ n \in Int
    BY <1>1
  <2>2. IsFiniteSet(1..n) /\ Cardinality(1..n) = IF 1 > n THEN 0 ELSE n - 1 + 1
    BY <2>1, FS_Interval
  <2> QED
    BY <1>1, <2>2
<1>8. place \in Surjection(S, 1..n)
  BY <1>6, <1>7, FS_Injection DEF n
<1>9. \A i \in 1..n : \E e \in S : place[e] = i
  BY <1>8 DEF Surjection
<1> DEFINE list == [i \in 1..n |-> CHOOSE e \in S : place[e] = i]
<1>10. \A i \in 1..n : list[i] \in S /\ place[list[i]] = i
  BY <1>9
<1>11. list \in [1..n -> S]
  BY <1>10
<1> HIDE DEF list
<1>12. Ascending(list, n)
  <2> SUFFICES ASSUME NEW i \in 1..n, NEW j \in 1..n, i < j PROVE Before(list[i], list[j])
    BY DEF Ascending
  <2>1. list[i] \in S /\ list[j] \in S /\ place[list[i]] = i /\ place[list[j]] = j
    BY <1>10
  <2>2. list[i] # list[j] /\ ~Before(list[j], list[i])
    BY <1>1, <1>3, <2>1
  <2> QED
    BY <2>1, <2>2, OrderIsTotal
<1> QED
  BY <1>11, <1>12 DEF n

\* The list holds every entry, and each once.
LEMMA SortedIsComplete ==
    ASSUME NEW S \in SUBSET TrustedKey, IsFiniteSet(S),
           \A a, b \in S : Identity(a) = Identity(b) => a = b
    PROVE  /\ Sorted(S) \in Seq(S) /\ DOMAIN Sorted(S) = 1..Cardinality(S)
           /\ Cardinality(S) \in Nat
           /\ \A e \in S : \E i \in DOMAIN Sorted(S) : Sorted(S)[i] = e
<1> DEFINE n == Cardinality(S)
           list == Sorted(S)
<1>1. n \in Nat
  BY FS_CardinalityType
<1>2. \E l \in [1..n -> S] : \A i, j \in 1..n : i < j => Before(l[i], l[j])
  BY SortedExists DEF Ascending
<1>3. list \in [1..n -> S] /\ \A i, j \in 1..n : i < j => Before(list[i], list[j])
  <2> HIDE DEF n
  <2> QED
    BY <1>2, Zenon DEF Sorted, n
<1> HIDE DEF list, n
<1>4. \A i, j \in 1..n : list[i] = list[j] => i = j
  <2> SUFFICES ASSUME NEW i \in 1..n, NEW j \in 1..n, list[i] = list[j], i < j PROVE FALSE
    BY <1>1
  <2>1. list[i] \in TrustedKey /\ Before(list[i], list[i])
    BY <1>3
  <2> QED
    BY <2>1, OrderIsTotal
<1>5. list \in Injection(1..n, S)
  BY <1>3, <1>4 DEF Injection, IsInjective
<1>6. Cardinality(1..n) = n
  <2>1. 1 \in Int /\ n \in Int
    BY <1>1
  <2>2. Cardinality(1..n) = IF 1 > n THEN 0 ELSE n - 1 + 1
    BY <2>1, FS_Interval
  <2> QED
    BY <1>1, <2>2
<1>7. list \in Surjection(1..n, S)
  BY <1>5, <1>6, FS_Injection DEF n
<1>8. \A e \in S : \E i \in 1..n : list[i] = e
  BY <1>7 DEF Surjection
<1>9. list \in Seq(S) /\ DOMAIN list = 1..n
  BY <1>1, <1>3
<1> QED
  BY <1>1, <1>8, <1>9 DEF list, n

-----------------------------------------------------------------------------
\* The merged registry asked about a key.

\* The merge is typed, and an entry of it that is not revoked was the first one for
\* its identity in a registry that was read.
Survivors ==
    /\ given \in Inputs
    /\ r \in 1..(Len(given) + 1) /\ k \in Nat \ {0}
    /\ r <= Len(given) => k <= Len(given[r]) + 1
    /\ merged \subseteq TrustedKey /\ IsFiniteSet(merged)
    /\ \A entry \in merged : entry.pub \in {None, entry.fp}

Leads(i, j) == \A l \in 1..(j - 1) : Identity(given[i][l]) # Identity(given[i][j])

Origin ==
    \A entry \in merged : ~Revoked(entry) =>
        \E i \in DOMAIN given : \E j \in DOMAIN given[i] :
            WasRead(i, j) /\ given[i][j] = entry /\ Leads(i, j)

Result == out # None => out = Sorted(merged) /\ r > Len(given)

MergeInv == IInv /\ Survivors /\ Origin /\ Result

LEMMA KeyTyped ==
    ASSUME Survivors, Reading
    PROVE  /\ r \in DOMAIN given /\ k \in DOMAIN given[r]
           /\ Key \in TrustedKey /\ Key.pub \in {None, Key.fp}
<1>1. given \in Seq(Registry) /\ r \in DOMAIN given
  BY MergeAssumption DEF Survivors, Reading
<1>2. given[r] \in Registry
  BY <1>1
<1>3. given[r] \in Seq(TrustedKey) /\ \A i \in DOMAIN given[r] : given[r][i].pub \in {None, given[r][i].fp}
  BY <1>2 DEF Registry
<1>4. k \in DOMAIN given[r]
  BY <1>3 DEF Survivors, Reading
<1> QED
  BY <1>1, <1>3, <1>4 DEF Key

LEMMA SurvivorsStep ==
    ASSUME Survivors, Next
    PROVE  Survivors'
<1>1. CASE AddKey
  <2>1. IsFiniteSet(merged \cup {Key})
    BY FS_AddElement DEF Survivors
  <2>2. r <= Len(given) /\ k <= Len(given[r]) /\ k + 1 <= Len(given[r]) + 1
    <3>1. Len(given[r]) \in Nat
      BY <1>1, GivenIsList, KeyTyped DEF AddKey, Survivors
    <3> QED
      BY <1>1, <3>1 DEF AddKey, Reading, Survivors
  <2> QED
    BY <1>1, <2>1, <2>2, KeyTyped DEF AddKey, Advance, Survivors
<1>2. CASE RevokeKey
  <2>1. IsFiniteSet((merged \ Existing) \cup {Key})
    <3>1. IsFiniteSet(merged \ Existing)
      BY FS_Subset DEF Survivors
    <3> QED
      BY <3>1, FS_AddElement
  <2>2. r <= Len(given) /\ k <= Len(given[r]) /\ k + 1 <= Len(given[r]) + 1
    <3>1. Len(given[r]) \in Nat
      BY <1>2, GivenIsList, KeyTyped DEF RevokeKey, Survivors
    <3> QED
      BY <1>2, <3>1 DEF RevokeKey, Reading, Survivors
  <2> QED
    BY <1>2, <2>1, <2>2, KeyTyped DEF RevokeKey, Advance, Survivors
<1>3. CASE KeepKey
  <2>1. Len(given[r]) \in Nat
    BY <1>3, GivenIsList, KeyTyped DEF KeepKey, Survivors
  <2>2. r <= Len(given) /\ k <= Len(given[r]) /\ k + 1 <= Len(given[r]) + 1
    BY <1>3, <2>1 DEF KeepKey, Reading, Survivors
  <2> QED
    BY <1>3, <2>2 DEF KeepKey, Advance, Survivors
<1>4. CASE NextRegistry
  <2>1. Len(given) \in Nat /\ (r + 1 <= Len(given) => Len(given[r + 1]) \in Nat)
    BY GivenIsList DEF Survivors
  <2> QED
    BY <1>4, <2>1 DEF NextRegistry, Survivors
<1>5. CASE Finish \/ Rest
  BY <1>5 DEF Finish, Rest, vars, Survivors
<1> QED
  BY <1>1, <1>2, <1>3, <1>4, <1>5 DEF Next

\* The first key of an identity in a registry leads: any earlier one of the same
\* registry would have left an entry.
LEMMA OriginStep ==
    ASSUME MergeInv, Next
    PROVE  Origin'
<1>0. given' = given
  BY DEF Next, AddKey, RevokeKey, KeepKey, NextRegistry, Finish, Rest, Advance, vars
<1>1. \A i \in DOMAIN given : \A j \in DOMAIN given[i] : WasRead(i, j) => WasRead(i, j)'
  <2> SUFFICES ASSUME NEW i \in DOMAIN given, NEW j \in DOMAIN given[i], WasRead(i, j)
               PROVE  i < r' \/ (i = r' /\ j < k')
    BY DEF WasRead
  <2>1. i \in Nat /\ j \in Nat /\ r \in Nat /\ k \in Nat
    BY GivenIsList DEF MergeInv, Survivors
  <2>2. (r' = r /\ (k' = k \/ k' = k + 1)) \/ r' = r + 1
    BY DEF Next, AddKey, RevokeKey, KeepKey, NextRegistry, Finish, Rest, Advance, vars
  <2> QED
    BY <2>1, <2>2 DEF WasRead
<1>2. ASSUME NEW entry \in merged, ~Revoked(entry)
      PROVE  \E i \in DOMAIN given : \E j \in DOMAIN given[i] :
                WasRead(i, j)' /\ given[i][j] = entry /\ Leads(i, j)
  <2>1. PICK i \in DOMAIN given : \E j \in DOMAIN given[i] :
                WasRead(i, j) /\ given[i][j] = entry /\ Leads(i, j)
    BY <1>2 DEF MergeInv, Origin
  <2> QED
    BY <1>1, <2>1
<1>3. CASE AddKey
  <2>1. Reading /\ Existing = {} /\ Advance /\ merged' = merged \cup {Key}
    BY <1>3 DEF AddKey
  <2>2. /\ r \in DOMAIN given /\ k \in DOMAIN given[r]
        /\ k \in Nat /\ r \in Nat /\ r' = r /\ k' = k + 1
    BY <2>1, KeyTyped, GivenIsList DEF MergeInv, Survivors, Advance
  <2>3. \A i \in DOMAIN given : \A j \in DOMAIN given[i] : i = r /\ j = k => WasRead(i, j)'
    <3>1. \A i, j : i = r /\ j = k => i = r' /\ j < k'
      BY <2>2
    <3> QED
      BY <3>1 DEF WasRead
  <2>4. Leads(r, k)
    <3> SUFFICES ASSUME NEW l \in 1..(k - 1), Identity(given[r][l]) = Identity(given[r][k])
                 PROVE  FALSE
      BY DEF Leads
    <3>1. l \in DOMAIN given[r] /\ WasRead(r, l)
      BY <2>2, GivenIsList DEF MergeInv, Survivors, WasRead
    <3>2. \E entry \in merged : Identity(entry) = Identity(given[r][l])
      BY <2>2, <3>1 DEF MergeInv, IInv, RevokedWins
    <3> QED
      BY <2>1, <3>2 DEF Existing, Key
  <2>5. \E i \in DOMAIN given : \E j \in DOMAIN given[i] :
                WasRead(i, j)' /\ given[i][j] = Key /\ Leads(i, j)
    BY <2>2, <2>3, <2>4, Zenon DEF Key
  <2> QED
    BY <1>0, <1>2, <2>1, <2>5 DEF Origin, Leads
<1>4. CASE RevokeKey
  <2>1. \A entry \in merged' : ~Revoked(entry) => entry \in merged
    BY <1>4 DEF RevokeKey
  <2> QED
    BY <1>0, <1>2, <2>1 DEF Origin, Leads
<1>5. CASE KeepKey \/ NextRegistry \/ Finish \/ Rest
  <2>1. merged' = merged
    BY <1>5 DEF KeepKey, NextRegistry, Finish, Rest, vars
  <2> QED
    BY <1>0, <1>2, <2>1 DEF Origin, Leads
<1> QED
  BY <1>3, <1>4, <1>5 DEF Next

LEMMA MergeAlways == Spec => []MergeInv
<1>1. Init => MergeInv
  <2> SUFFICES ASSUME Init PROVE MergeInv
    OBVIOUS
  <2>1. IInv
    BY IInvInit
  <2>2. Survivors
    <3>1. Len(given) \in Nat /\ (1 <= Len(given) => Len(given[1]) \in Nat)
      BY GivenIsList DEF Init
    <3>2. IsFiniteSet({})
      BY FS_EmptySet
    <3> QED
      BY <3>1, <3>2 DEF Init, Survivors
  <2> QED
    BY <2>1, <2>2 DEF Init, MergeInv, Origin, Result
<1>2. MergeInv /\ [Next]_vars => MergeInv'
  <2> SUFFICES ASSUME MergeInv, [Next]_vars PROVE MergeInv'
    OBVIOUS
  <2>1. IInv'
    BY IInvStep DEF MergeInv
  <2>2. CASE Next
    <3>1. Survivors' /\ Origin'
      BY <2>2, SurvivorsStep, OriginStep DEF MergeInv
    <3>2. Result'
      BY <2>2 DEF MergeInv, Result, Next, AddKey, RevokeKey, KeepKey, NextRegistry, Finish, Rest,
                  Reading, Advance, vars
    <3> QED
      BY <2>1, <3>1, <3>2 DEF MergeInv
  <2>3. CASE UNCHANGED vars
    BY <2>1, <2>3 DEF vars, MergeInv, Survivors, Origin, Leads, Result, WasRead
  <2> QED
    BY <2>2, <2>3
<1> QED
  BY <1>1, <1>2, PTL DEF Spec

\* A revoked key read from any registry has a revoked entry from then on, and every
\* identity has one entry: "revoked wins" for any registries, in any order.
THEOREM RevokedAlwaysWins == Spec => []RevokedWins
<1>1. MergeInv => RevokedWins
  BY DEF MergeInv, IInv
<1> QED
  BY <1>1, MergeAlways, PTL

\* What the merge returns is a registry as the loader accepts one: a list of typed
\* entries whose public keys, when given, are the keys their fingerprints name.
THEOREM MergeIsTyped == Spec => []TypeOK
<1>1. MergeInv => TypeOK
  <2> SUFFICES ASSUME MergeInv PROVE TypeOK
    OBVIOUS
  <2>1. ASSUME out # None PROVE out \in Registry
    <3>1. out = Sorted(merged)
      BY <2>1 DEF MergeInv, Result
    <3>2. Sorted(merged) \in Seq(merged)
      BY SortedIsComplete DEF MergeInv, Survivors, IInv, RevokedWins
    <3> HIDE DEF Sorted
    <3>3. out \in Seq(TrustedKey) /\ \A i \in DOMAIN out : out[i] \in merged
      BY <3>1, <3>2 DEF MergeInv, Survivors
    <3> QED
      BY <3>3 DEF Registry, MergeInv, Survivors
  <2> QED
    BY <2>1 DEF MergeInv, Survivors, TypeOK
<1> QED
  BY <1>1, MergeAlways, PTL

\* First is the least element, which a set of naturals has.
LEMMA FirstIsLeastEntry ==
    ASSUME NEW S \in SUBSET Nat, S # {}
    PROVE  First(S) \in S /\ \A j \in S : First(S) <= j
<1> DEFINE Less == { p \in Nat \X Nat : p[1] < p[2] }
<1>1. OpToRel(<, Nat) = Less
  BY DEF OpToRel
<1>2. IsWellFoundedOn(Less, Nat)
  BY <1>1, NatLessThanWellFounded
<1>3. PICK x \in S : \A y \in S : <<y, x>> \notin Less
  <2> HIDE DEF Less
  <2> QED
    BY <1>2, WFMin
<1>4. \A y \in S : x <= y
  <2> SUFFICES ASSUME NEW y \in S PROVE ~(y < x)
    OBVIOUS
  <2>1. <<y, x>> \in Nat \X Nat /\ <<y, x>>[1] = y /\ <<y, x>>[2] = x
    OBVIOUS
  <2> QED
    BY <1>3, <2>1
<1>5. \E i \in S : \A j \in S : i <= j
  BY <1>4
<1> HIDE DEF Less
<1> QED
  BY <1>5, Zenon DEF First

\* Asked about a key id and a key, the first entry of that identity answers.
LEMMA AnswerOfFirst ==
    ASSUME NEW keys \in Seq(TrustedKey), NEW id \in KeyIds, NEW key \in Keys, NEW t \in Times
    PROVE  /\ Matching(keys, id, key) = { i \in DOMAIN keys : Identity(keys[i]) = <<id, key>> }
           /\ Matching(keys, id, key) # {} =>
                /\ First(Matching(keys, id, key)) \in Matching(keys, id, key)
                /\ \A j \in Matching(keys, id, key) : First(Matching(keys, id, key)) <= j
                /\ Verdict(keys, id, key, t) = KeyStatus(keys[First(Matching(keys, id, key))], t)
           /\ Matching(keys, id, key) = {} => Verdict(keys, id, key, t) = "untrusted"
<1>1. id # None /\ key # None
  BY TrustAssumption
<1>2. Matching(keys, id, key) = { i \in DOMAIN keys : Identity(keys[i]) = <<id, key>> }
  BY <1>1 DEF Matching, Identity
<1>3. Matching(keys, id, key) \subseteq Nat
  <2>1. DOMAIN keys \subseteq Nat
    OBVIOUS
  <2> QED
    BY <1>2, <2>1
<1>4. ASSUME Matching(keys, id, key) # {}
      PROVE  /\ First(Matching(keys, id, key)) \in Matching(keys, id, key)
             /\ \A j \in Matching(keys, id, key) : First(Matching(keys, id, key)) <= j
  BY <1>3, <1>4, FirstIsLeastEntry, Zenon
<1>5. Matching(keys, id, key) # {} =>
        Verdict(keys, id, key, t) = KeyStatus(keys[First(Matching(keys, id, key))], t)
  BY <1>1 DEF Verdict, Resolve
<1>6. Matching(keys, id, key) = {} => Verdict(keys, id, key, t) = "untrusted"
  BY DEF Verdict, Resolve
<1> QED
  BY <1>2, <1>4, <1>5, <1>6

\* The merge invents no trust: whoever the merged registry trusts was trusted by one
\* of the given ones, asked alone, and none of them says "revoked".
THEOREM NoTrustIsInvented == Spec => []TrustIsNotInvented
<1>1. MergeInv => TrustIsNotInvented
  <2> SUFFICES ASSUME MergeInv, out # None,
                      NEW id \in KeyIds, NEW key \in Keys, NEW t \in Times,
                      Verdict(out, id, key, t) = "trusted"
               PROVE  /\ \E i \in DOMAIN given : Verdict(given[i], id, key, t) = "trusted"
                      /\ \A i \in DOMAIN given : Verdict(given[i], id, key, t) # "revoked"
    BY DEF TrustIsNotInvented
  <2>1. out \in Seq(TrustedKey) /\ \A i \in DOMAIN out : out[i] \in merged
    <3>1. out = Sorted(merged) /\ Sorted(merged) \in Seq(merged)
      BY SortedIsComplete DEF MergeInv, Result, Survivors, IInv, RevokedWins
    <3> QED
      BY <3>1 DEF MergeInv, Survivors
  <2>2. \A i \in DOMAIN given : given[i] \in Seq(TrustedKey)
    <3>1. given \in Seq(Registry)
      BY MergeAssumption DEF MergeInv, Survivors
    <3>2. \A keys \in Registry : keys \in Seq(TrustedKey)
      BY DEF Registry
    <3> QED
      BY <3>1, <3>2
  <2>3. PICK x \in DOMAIN out : /\ Identity(out[x]) = <<id, key>>
                                /\ KeyStatus(out[x], t) = "trusted"
    BY <2>1, AnswerOfFirst, Zenon
  <2> DEFINE entry == out[x]
  <2>4. entry \in merged /\ ~Revoked(entry) /\ Identity(entry) = <<id, key>>
    BY <2>1, <2>3 DEF KeyStatus
  <2>5. PICK i \in DOMAIN given : \E j \in DOMAIN given[i] :
                WasRead(i, j) /\ given[i][j] = entry /\ Leads(i, j)
    BY <2>4 DEF MergeInv, Origin
  <2>6. PICK j \in DOMAIN given[i] : given[i][j] = entry /\ Leads(i, j)
    BY <2>5
  <2>7. Verdict(given[i], id, key, t) = "trusted"
    <3> DEFINE found == Matching(given[i], id, key)
    <3>1. j \in found
      BY <2>2, <2>4, <2>6, AnswerOfFirst
    <3>2. First(found) \in found /\ First(found) <= j
          /\ Verdict(given[i], id, key, t) = KeyStatus(given[i][First(found)], t)
      BY <2>2, <3>1, AnswerOfFirst
    <3>3. Identity(given[i][First(found)]) = Identity(given[i][j]) /\ First(found) \in DOMAIN given[i]
      BY <2>2, <2>4, <2>6, <3>2, AnswerOfFirst
    <3>4. First(found) \in Nat \ {0} /\ j \in Nat
      BY <3>3, GivenIsList DEF MergeInv, Survivors
    <3> HIDE DEF found
    <3>5. First(found) = j
      BY <2>6, <3>2, <3>3, <3>4 DEF Leads
    <3> QED
      BY <2>3, <2>6, <3>2, <3>5
  <2>8. ASSUME NEW o \in DOMAIN given, Verdict(given[o], id, key, t) = "revoked" PROVE FALSE
    <3>1. Matching(given[o], id, key) # {}
      BY <2>2, <2>8, AnswerOfFirst
    <3>2. PICK f \in DOMAIN given[o] : /\ Identity(given[o][f]) = <<id, key>>
                                        /\ KeyStatus(given[o][f], t) = "revoked"
      <4> DEFINE f == First(Matching(given[o], id, key))
      <4>1. f \in Matching(given[o], id, key)
            /\ Verdict(given[o], id, key, t) = KeyStatus(given[o][f], t)
        BY <2>2, <3>1, AnswerOfFirst
      <4>2. f \in DOMAIN given[o] /\ Identity(given[o][f]) = <<id, key>>
        BY <2>2, <4>1, AnswerOfFirst
      <4> QED
        BY <2>8, <4>1, <4>2
    <3>3. Revoked(given[o][f])
      BY <3>2 DEF KeyStatus
    <3>4. WasRead(o, f)
      BY GivenIsList DEF MergeInv, Survivors, Result, WasRead
    <3>5. PICK w \in merged : Identity(w) = <<id, key>> /\ Revoked(w)
      BY <3>2, <3>3, <3>4 DEF MergeInv, IInv, RevokedWins
    <3>6. w = entry
      BY <2>4, <3>5 DEF MergeInv, IInv, RevokedWins
    <3> QED
      BY <2>4, <3>5, <3>6
  <2> QED
    BY <2>7, <2>8
<1> QED
  BY <1>1, MergeAlways, PTL
=============================================================================
