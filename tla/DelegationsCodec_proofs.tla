----------------------- MODULE DelegationsCodec_proofs -----------------------
(***************************************************************************)
(* Proofs about the delegation codecs, for every set of names, key ids and *)
(* paths and every bound: a decoded Delegations value is faithful to its   *)
(* `roles` array whoever wrote it; the array Delegations::from writes is   *)
(* canonical (one entry per role, by name, its lists sorted); and both   *)
(* keep types.                                                           *)
(***************************************************************************)
EXTENDS DelegationsCodec, SortedSets, FiniteSetTheorems, TLAPS

USE ConstantsAssumption

\* What one successful TryFrom<Delegation> makes of a wire delegation.
DecodingOf(w) == [name |-> w.name, keyids |-> Elems(w.keyids), paths |-> Elems(w.paths)]

\* A wire delegation whose key-id and path lists repeat nothing.
ListsDistinct(w) ==
  /\ Cardinality(Elems(w.keyids)) = Len(w.keyids)
  /\ Cardinality(Elems(w.paths)) = Len(w.paths)

(***************************************************************************)
(* The inductive invariant: the collect has decoded a prefix of the array, *)
(* entry by entry, every entry of it without a repeated id or path; it     *)
(* returns Ok only once the prefix is the whole array.                     *)
(***************************************************************************)
IInv ==
  /\ status \in {"encoding", "decoding", "ok", "duplicate_key_ids", "duplicate_paths"}
  /\ decoded \in Seq({DecodingOf(wire[j]) : j \in 1..Len(wire)})
  /\ \A i \in 1..Len(decoded) : decoded[i] = DecodingOf(wire[i]) /\ ListsDistinct(wire[i])
  /\ status = "encoding" => decoded = <<>>
  /\ status = "ok" => Len(decoded) = Len(wire)

LEMMA InitIInv == Init => IInv
<1> SUFFICES ASSUME Init PROVE IInv
  OBVIOUS
<1>1. decoded = <<>> /\ status \in {"encoding", "decoding"}
  BY DEF Init
<1>2. decoded \in Seq({DecodingOf(wire[j]) : j \in 1..Len(wire)})
  BY <1>1
<1> QED BY <1>1, <1>2 DEF IInv

LEMMA NextIInv == IInv /\ [Next]_vars => IInv'
<1> SUFFICES ASSUME IInv, [Next]_vars PROVE IInv'
  OBVIOUS
<1>1. CASE DelegationsFrom
  <2>1. decoded = <<>> /\ decoded' = <<>> /\ status' = "decoding"
    BY <1>1 DEF DelegationsFrom, IInv
  <2> QED BY <2>1 DEF IInv
<1>2. CASE DecodeDelegation
  <2> DEFINE n == Len(decoded) + 1
             D == {DecodingOf(wire[j]) : j \in 1..Len(wire)}
  <2>1. /\ decoded \in Seq(D)
        /\ n \in 1..Len(wire)
        /\ wire' = wire /\ status' = status /\ status = "decoding"
        /\ decoded' = Append(decoded, DecodingOf(wire[n]))
        /\ ListsDistinct(wire[n])
    BY <1>2 DEF DecodeDelegation, NextRole, DecodingOf, ListsDistinct, IInv
  <2>2. DecodingOf(wire[n]) \in D
    BY <2>1
  <2>3. decoded' \in Seq(D) /\ Len(decoded') = n
    BY <2>1, <2>2
  <2>4. \A i \in 1..n : decoded'[i] = DecodingOf(wire[i]) /\ ListsDistinct(wire[i])
    <3> SUFFICES ASSUME NEW i \in 1..n
                 PROVE  decoded'[i] = DecodingOf(wire[i]) /\ ListsDistinct(wire[i])
      OBVIOUS
    <3>1. CASE i = n
      BY <2>1, <3>1
    <3>2. CASE i < n
      BY <2>1, <3>2 DEF IInv
    <3> QED BY <3>1, <3>2
  <2> QED BY <2>1, <2>3, <2>4 DEF IInv
<1>3. CASE DuplicateKeyIds \/ DuplicatePaths
  BY <1>3 DEF DuplicateKeyIds, DuplicatePaths, IInv
<1>4. CASE DecodeEnd
  BY <1>4 DEF DecodeEnd, IInv
<1>5. CASE UNCHANGED vars
  BY <1>5 DEF vars, IInv
<1> QED BY <1>1, <1>2, <1>3, <1>4, <1>5 DEF Next

LEMMA IInvImpliesDecodeFaithful == IInv => DecodeFaithful
<1> SUFFICES ASSUME IInv, status = "ok", NEW i \in 1..Len(wire)
             PROVE  /\ decoded[i].name = wire[i].name
                    /\ decoded[i].keyids = Elems(wire[i].keyids)
                    /\ Cardinality(decoded[i].keyids) = Len(wire[i].keyids)
                    /\ decoded[i].paths = Elems(wire[i].paths)
                    /\ Cardinality(decoded[i].paths) = Len(wire[i].paths)
  BY DEF IInv, DecodeFaithful
<1>1. decoded[i] = DecodingOf(wire[i]) /\ ListsDistinct(wire[i])
  BY DEF IInv
<1> QED BY <1>1 DEF DecodingOf, ListsDistinct

(***************************************************************************)
(* For every set of role names, key ids and path patterns and every bound: *)
(* when TryFrom<Delegations> returns Ok, it holds one delegation per entry *)
(* of the `roles` array, in document order (the search precedence), each   *)
(* with as many key ids and paths as its lists name, whoever wrote the     *)
(* array.                                                                  *)
(***************************************************************************)
THEOREM DecodeKeepsDocument == Spec => []DecodeFaithful
<1>1. Init => IInv
  BY InitIInv
<1>2. IInv /\ [Next]_vars => IInv'
  BY NextIInv
<1>3. IInv => DecodeFaithful
  BY IInvImpliesDecodeFaithful
<1> QED BY <1>1, <1>2, <1>3, PTL DEF Spec


-----------------------------------------------------------------------------
(***************************************************************************)
(* What Delegations::from writes.  The facts below rest on SortedSets: a   *)
(* finite set of numbers has a sorted enumeration, so both the CHOOSE of   *)
(* Sorted (key_ids.sort(), paths.sort()) and the CHOOSE of SortByName      *)
(* (roles.sort_by on names) have something to choose.                     *)
(***************************************************************************)

\* The type of an entry of the `roles` array.
WireEntry == [name : Names, keyids : Seq(KeyIds), paths : Seq(Paths)]

\* Delegation::from applied to every role, in memory order, and the array
\* Delegations::from writes for it.
Mapped(r) == [i \in 1..Len(r) |-> DelegationFrom(r[i])]
Encoded(r) == SortByName(Mapped(r))

(* The members of a list form a finite subset of what it lists.            *)
LEMMA ElemsFinite ==
  ASSUME NEW S, NEW s \in Seq(S)
  PROVE  IsFiniteSet(Elems(s)) /\ Elems(s) \subseteq S
<1>1. s \in Surjection(1..Len(s), Elems(s))
  BY DEF Surjection, Elems
<1>2. IsFiniteSet(1..Len(s))
  BY FS_Interval
<1> QED BY <1>1, <1>2, FS_Surjection DEF Elems

(* key_ids.sort() and paths.sort() of a HashSet of numbers give a list.    *)
LEMMA SortedList ==
  ASSUME NEW S \in SUBSET Nat, IsFiniteSet(S)
  PROVE  Sorted(S) \in Seq(S)
<1>1. HasSortedEnum(S)
  BY SortedEnumExists
<1>2. Sorted(S) \in [1..Cardinality(S) -> S]
  BY <1>1 DEF HasSortedEnum, AdjacentSorted, Sorted
<1>3. Cardinality(S) \in Nat
  BY FS_CardinalityType
<1> QED BY <1>2, <1>3

(* Delegation::from writes an entry of the array, under the role's name.   *)
LEMMA DelegationFromType ==
  ASSUME NEW d \in Delegation
  PROVE  DelegationFrom(d) \in WireEntry /\ DelegationFrom(d).name = d.name
<1>1. d.keyids \subseteq Nat /\ IsFiniteSet(d.keyids) /\ d.keyids \subseteq KeyIds
  BY DEF Delegation, FiniteSubsets
<1>2. d.paths \subseteq Nat /\ IsFiniteSet(d.paths) /\ d.paths \subseteq Paths
  BY DEF Delegation, FiniteSubsets
<1>3. Sorted(d.keyids) \in Seq(KeyIds) /\ Sorted(d.paths) \in Seq(Paths)
  <2>1. Sorted(d.keyids) \in Seq(d.keyids) /\ Sorted(d.paths) \in Seq(d.paths)
    BY <1>1, <1>2, SortedList
  <2> QED BY <1>1, <1>2, <2>1
<1> QED BY <1>3 DEF Delegation, DelegationFrom, WireEntry

(***************************************************************************)
(* roles.sort_by on names, for roles with distinct names: it keeps every   *)
(* role and only those, and leaves each name smaller than the next.  The   *)
(* reordering exists because the set of names has a sorted enumeration e:  *)
(* position i takes the role named e[i].                                   *)
(***************************************************************************)
LEMMA SortByNameCanonical ==
  ASSUME NEW R, NEW s \in Seq(R), \A i \in 1..Len(s) : s[i].name \in Nat,
         NamesDistinct(s)
  PROVE  /\ SortByName(s) \in Seq(R)
         /\ Len(SortByName(s)) = Len(s)
         /\ Elems(SortByName(s)) = Elems(s)
         /\ \A i \in 1..Len(s) - 1 : SortByName(s)[i].name < SortByName(s)[i + 1].name
<1> DEFINE n == Len(s)
           N == {s[i].name : i \in 1..n}
           ByNames(q) == \A i \in 1..n - 1 : s[q[i]].name <= s[q[i + 1]].name
           p == CHOOSE q \in Reorderings(n) : ByNames(q)
<1>0. n \in Nat
  OBVIOUS
<1>1. N \subseteq Nat /\ IsFiniteSet(N) /\ Cardinality(N) = n
  <2>1. [i \in 1..n |-> s[i].name] \in Bijection(1..n, N)
    BY DEF NamesDistinct, Bijection, Injection, Surjection, IsInjective
  <2>2. IsFiniteSet(1..n) /\ Cardinality(1..n) = n
    BY <1>0, IntervalCardinality
  <2> QED BY <2>1, <2>2, FS_Bijection DEF ExistsBijection
<1>2. PICK e \in [1..n -> N] : AdjacentSorted(e, n)
  BY <1>1, SortedEnumExists DEF HasSortedEnum
<1>3. /\ \A i, j \in 1..n : i < j => e[i] < e[j]
      /\ \A x \in N : \E i \in 1..n : e[i] = x
  <2>1. e \in [1..Cardinality(N) -> N] /\ AdjacentSorted(e, Cardinality(N))
    BY <1>1, <1>2
  <2>2. /\ \A i, j \in 1..Cardinality(N) : i < j => e[i] < e[j]
        /\ \A x \in N : \E i \in 1..Cardinality(N) : e[i] = x
    BY <1>1, <2>1, SortedEnumOnto
  <2> QED BY <1>1, <2>2
<1>4. \E q \in Reorderings(n) : ByNames(q)
  <2> DEFINE r == [i \in 1..n |-> CHOOSE k \in 1..n : s[k].name = e[i]]
  <2>1. /\ r \in [1..n -> 1..n]
        /\ \A i \in 1..n : s[r[i]].name = e[i]
    BY <1>2
  <2> HIDE DEF r
  <2>2. r \in Reorderings(n)
    <3> SUFFICES ASSUME NEW w \in 1..n PROVE \E v \in 1..n : r[v] = w
      BY <2>1 DEF Reorderings
    <3>1. PICK v \in 1..n : e[v] = s[w].name
      BY <1>3
    <3>2. s[r[v]].name = s[w].name /\ r[v] \in 1..n
      BY <2>1, <3>1
    <3> QED BY <3>2 DEF NamesDistinct
  <2>3. ByNames(r)
    <3> SUFFICES ASSUME NEW i \in 1..n - 1 PROVE s[r[i]].name <= s[r[i + 1]].name
      OBVIOUS
    <3>1. i \in 1..n /\ i + 1 \in 1..n /\ i < i + 1
      BY <1>0
    <3>2. e[i] < e[i + 1] /\ e[i] \in Nat /\ e[i + 1] \in Nat
      BY <1>1, <1>3, <3>1
    <3>3. s[r[i]].name = e[i] /\ s[r[i + 1]].name = e[i + 1]
      BY <2>1, <3>1
    <3> QED BY <3>2, <3>3
  <2> QED BY <2>2, <2>3
<1>5. p \in Reorderings(n) /\ ByNames(p)
  BY <1>4
<1>6. SortByName(s) = [i \in 1..n |-> s[p[i]]]
  BY DEF SortByName
<1> HIDE DEF p
<1>7. p \in Injection(1..n, 1..n)
  <2>1. p \in Surjection(1..n, 1..n)
    BY <1>5 DEF Reorderings, Surjection
  <2>2. IsFiniteSet(1..n) /\ Cardinality(1..n) = n
    BY <1>0, IntervalCardinality
  <2> QED BY <2>1, <2>2, FS_SurjSameCardinalityImpliesInj
<1>8. Elems(SortByName(s)) = Elems(s)
  <2>1. \A i \in 1..n : p[i] \in 1..n
    BY <1>5 DEF Reorderings
  <2>2. \A k \in 1..n : \E v \in 1..n : p[v] = k
    BY <1>5 DEF Reorderings
  <2>3. Len(SortByName(s)) = n /\ \A i \in 1..n : SortByName(s)[i] = s[p[i]]
    BY <1>0, <1>6
  <2>4. \A i \in 1..n : SortByName(s)[i] \in Elems(s)
    BY <2>1, <2>3 DEF Elems
  <2>5. \A k \in 1..n : s[k] \in Elems(SortByName(s))
    <3> SUFFICES ASSUME NEW k \in 1..n PROVE s[k] \in Elems(SortByName(s))
      OBVIOUS
    <3>1. PICK v \in 1..n : p[v] = k
      BY <2>2
    <3>2. SortByName(s)[v] = s[k]
      BY <2>3, <3>1
    <3> QED BY <2>3, <3>2 DEF Elems
  <2> QED BY <2>3, <2>4, <2>5 DEF Elems
<1>9. \A i \in 1..n - 1 : s[p[i]].name < s[p[i + 1]].name
  <3> SUFFICES ASSUME NEW i \in 1..n - 1 PROVE s[p[i]].name < s[p[i + 1]].name
    OBVIOUS
  <3>1. i \in 1..n /\ i + 1 \in 1..n /\ i # i + 1
    BY <1>0
  <3>2. p[i] \in 1..n /\ p[i + 1] \in 1..n /\ p[i] # p[i + 1]
    BY <1>7, <3>1 DEF Injection, IsInjective
  <3>3. s[p[i]].name # s[p[i + 1]].name
    BY <3>2 DEF NamesDistinct
  <3>4. s[p[i]].name <= s[p[i + 1]].name
    BY <1>5
  <3>5. s[p[i]].name \in Nat /\ s[p[i + 1]].name \in Nat
    BY <3>2
  <3> QED BY <3>3, <3>4, <3>5
<1>10. Len(SortByName(s)) = n /\ \A i \in 1..n : SortByName(s)[i] = s[p[i]]
  BY <1>0, <1>6
<1>11. SortByName(s) \in Seq(R)
  <2>1. \A i \in 1..n : p[i] \in 1..n
    BY <1>5 DEF Reorderings
  <2> QED BY <1>6, <2>1
<1> QED BY <1>8, <1>9, <1>10, <1>11

(***************************************************************************)
(* The inductive invariant of the encoder: IInv and the types, and while   *)
(* the roles held have distinct names (the in-memory value), the array     *)
(* decoded is exactly what Delegations::from wrote for them.               *)
(***************************************************************************)
TInv ==
  /\ IInv
  /\ roles \in Seq(Delegation)
  /\ wire \in Seq(WireEntry)
  /\ foreign \in BOOLEAN
  /\ decoded \in Seq(Delegation)
  /\ Len(decoded) <= Len(wire)
  /\ status = "encoding" => ~foreign
  /\ ~foreign =>
       /\ NamesDistinct(roles)
       /\ status # "encoding" => wire = Encoded(roles)

(* A list of at most n entries of S is a list of S.                        *)
LEMMA SeqsUpToSeq ==
  ASSUME NEW S, NEW n \in Nat
  PROVE  SeqsUpTo(S, n) \subseteq Seq(S)
BY DEF SeqsUpTo

LEMMA InitTInv == Init => TInv
<1> SUFFICES ASSUME Init PROVE TInv
  OBVIOUS
<1>1. IInv
  BY InitIInv
<1>2. WireDelegation \subseteq WireEntry
  <2>1. SeqsUpTo(KeyIds, MaxLen) \subseteq Seq(KeyIds) /\ SeqsUpTo(Paths, MaxLen) \subseteq Seq(Paths)
    BY SeqsUpToSeq
  <2> QED BY <2>1 DEF WireDelegation, WireEntry
<1>3. CASE /\ roles \in {s \in SeqsUpTo(Delegation, MaxRoles) : NamesDistinct(s)}
           /\ wire = <<>> /\ foreign = FALSE /\ decoded = <<>> /\ status = "encoding"
  <2>1. roles \in Seq(Delegation)
    BY <1>3, SeqsUpToSeq
  <2>2. NamesDistinct(roles)
    BY <1>3
  <2>3. wire \in Seq(WireEntry) /\ decoded \in Seq(Delegation) /\ Len(decoded) <= Len(wire)
    BY <1>3
  <2> QED BY <1>1, <1>3, <2>1, <2>2, <2>3 DEF TInv
<1>4. CASE /\ roles = <<>> /\ wire \in SeqsUpTo(WireDelegation, MaxRoles)
           /\ foreign = TRUE /\ decoded = <<>> /\ status = "decoding"
  <2>1. wire \in Seq(WireDelegation)
    BY <1>4, SeqsUpToSeq
  <2>2. wire \in Seq(WireEntry)
    BY <1>2, <2>1
  <2> QED BY <1>1, <1>4, <2>2 DEF TInv
<1> QED BY <1>3, <1>4 DEF Init

(* Delegations::from writes an array of entries, sorted by name, for a     *)
(* set of roles with distinct names.                                       *)
LEMMA EncodedFacts ==
  ASSUME NEW r \in Seq(Delegation), NamesDistinct(r)
  PROVE  /\ Encoded(r) \in Seq(WireEntry)
         /\ Len(Encoded(r)) = Len(r)
         /\ Elems(Encoded(r)) = {DelegationFrom(d) : d \in Elems(r)}
         /\ \A i \in 1..Len(r) - 1 : Encoded(r)[i].name < Encoded(r)[i + 1].name
<1> DEFINE m == Mapped(r)
<1>1. m \in Seq(WireEntry) /\ Len(m) = Len(r)
  BY DelegationFromType DEF Mapped
<1>2. \A i \in 1..Len(m) : m[i].name = r[i].name /\ m[i].name \in Nat
  <2> SUFFICES ASSUME NEW i \in 1..Len(m) PROVE m[i].name = r[i].name /\ m[i].name \in Nat
    OBVIOUS
  <2>1. r[i] \in Delegation /\ m[i] = DelegationFrom(r[i])
    BY <1>1 DEF Mapped
  <2>2. r[i].name \in Names
    BY <2>1 DEF Delegation
  <2> QED BY <2>1, <2>2, DelegationFromType
<1>3. NamesDistinct(m)
  BY <1>1, <1>2 DEF NamesDistinct
<1>4. /\ SortByName(m) \in Seq(WireEntry)
      /\ Len(SortByName(m)) = Len(m)
      /\ Elems(SortByName(m)) = Elems(m)
      /\ \A i \in 1..Len(m) - 1 : SortByName(m)[i].name < SortByName(m)[i + 1].name
  BY <1>1, <1>2, <1>3, SortByNameCanonical
<1>5. Elems(m) = {DelegationFrom(d) : d \in Elems(r)}
  BY <1>1 DEF Mapped, Elems
<1> QED BY <1>1, <1>4, <1>5 DEF Encoded

LEMMA NextTInv == TInv /\ [Next]_vars => TInv'
<1> SUFFICES ASSUME TInv, [Next]_vars PROVE TInv'
  OBVIOUS
<1>0. IInv'
  BY NextIInv DEF TInv
<1>1. CASE DelegationsFrom
  <2>1. /\ ~foreign /\ NamesDistinct(roles) /\ roles \in Seq(Delegation)
        /\ decoded = <<>> /\ wire' = Encoded(roles) /\ status' = "decoding"
        /\ UNCHANGED <<roles, foreign, decoded>>
    BY <1>1 DEF DelegationsFrom, TInv, IInv, Encoded, Mapped
  <2>2. wire' \in Seq(WireEntry)
    BY <2>1, EncodedFacts
  <2>3. decoded' \in Seq(Delegation) /\ Len(decoded') <= Len(wire')
    BY <2>1, <2>2
  <2> QED BY <1>0, <2>1, <2>2, <2>3 DEF TInv
<1>2. CASE DecodeDelegation
  <2> DEFINE w == wire[Len(decoded) + 1]
  <2>1. /\ Len(decoded) + 1 \in 1..Len(wire)
        /\ decoded' = Append(decoded, [name |-> w.name, keyids |-> Elems(w.keyids),
                                       paths |-> Elems(w.paths)])
        /\ UNCHANGED <<roles, wire, foreign, status>> /\ status = "decoding"
    BY <1>2 DEF DecodeDelegation, NextRole, TInv
  <2>2. w \in WireEntry
    BY <2>1 DEF TInv
  <2>3. /\ IsFiniteSet(Elems(w.keyids)) /\ Elems(w.keyids) \subseteq KeyIds
        /\ IsFiniteSet(Elems(w.paths)) /\ Elems(w.paths) \subseteq Paths
    BY <2>2, ElemsFinite DEF WireEntry
  <2>4. [name |-> w.name, keyids |-> Elems(w.keyids), paths |-> Elems(w.paths)] \in Delegation
    BY <2>2, <2>3 DEF WireEntry, Delegation, FiniteSubsets
  <2>5. decoded' \in Seq(Delegation) /\ Len(decoded') <= Len(wire')
    BY <2>1, <2>4 DEF TInv
  <2> QED BY <1>0, <2>1, <2>5 DEF TInv
<1>3. CASE DuplicateKeyIds \/ DuplicatePaths \/ DecodeEnd
  <2>1. UNCHANGED <<roles, wire, foreign, decoded>> /\ status = "decoding"
        /\ status' # "encoding"
    BY <1>3 DEF DuplicateKeyIds, DuplicatePaths, DecodeEnd
  <2>2. Encoded(roles)' = Encoded(roles)
    BY <2>1
  <2>3. /\ roles' \in Seq(Delegation) /\ wire' \in Seq(WireEntry) /\ foreign' \in BOOLEAN
        /\ decoded' \in Seq(Delegation) /\ Len(decoded') <= Len(wire')
    BY <2>1 DEF TInv
  <2>4. ~foreign' => NamesDistinct(roles') /\ wire' = Encoded(roles)'
    BY <2>1, <2>2 DEF TInv
  <2> QED BY <1>0, <2>1, <2>3, <2>4 DEF TInv
<1>4. CASE UNCHANGED vars
  BY <1>0, <1>4 DEF vars, TInv
<1> QED BY <1>1, <1>2, <1>3, <1>4 DEF Next

LEMMA TInvTypeOK == TInv => TypeOK
BY DEF TInv, IInv, TypeOK, WireEntry

(* The sorted Vec of a finite set of numbers lists the set in increasing  *)
(* order.                                                                  *)
LEMMA SortedIsListOf ==
  ASSUME NEW S \in SUBSET Nat, IsFiniteSet(S)
  PROVE  SortedListOf(Sorted(S), S)
<1> DEFINE n == Cardinality(S)
<1> DEFINE s == Sorted(S)
<1>0. n \in Nat
  BY FS_CardinalityType
<1>1. s \in [1..n -> S] /\ AdjacentSorted(s, n)
  <2>1. HasSortedEnum(S)
    BY SortedEnumExists
  <2> QED BY <2>1 DEF HasSortedEnum, AdjacentSorted, Sorted
<1>2. Len(s) = n
  BY <1>0, <1>1
<1>3. \A x \in S : \E i \in 1..n : s[i] = x
  BY <1>1, SortedEnumOnto
<1>4. Elems(s) = S
  BY <1>1, <1>2, <1>3 DEF Elems
<1>5. \A i \in 1..Len(s) - 1 : s[i] < s[i + 1]
  BY <1>1, <1>2 DEF AdjacentSorted
<1> QED BY <1>4, <1>5 DEF SortedListOf

(* Delegation::from writes each role as its name and its sorted lists.     *)
LEMMA WritesFrom ==
  ASSUME NEW d \in Delegation
  PROVE  Writes(DelegationFrom(d), d)
<1>1. d.keyids \subseteq Nat /\ IsFiniteSet(d.keyids)
  BY DEF Delegation, FiniteSubsets
<1>2. d.paths \subseteq Nat /\ IsFiniteSet(d.paths)
  BY DEF Delegation, FiniteSubsets
<1>3. SortedListOf(Sorted(d.keyids), d.keyids) /\ SortedListOf(Sorted(d.paths), d.paths)
  BY <1>1, <1>2, SortedIsListOf
<1> QED BY <1>3 DEF Writes, DelegationFrom

LEMMA TInvCanonical == TInv => EncodingCanonical
<1> SUFFICES ASSUME TInv, status # "encoding", ~foreign
             PROVE  /\ Len(wire) = Len(roles)
                    /\ \A i \in 1..Len(wire) - 1 : wire[i].name < wire[i + 1].name
                    /\ \A i \in 1..Len(wire) : \E d \in Elems(roles) : Writes(wire[i], d)
                    /\ \A d \in Elems(roles) : \E i \in 1..Len(wire) : Writes(wire[i], d)
  BY DEF EncodingCanonical
<1>1. wire = Encoded(roles) /\ roles \in Seq(Delegation) /\ NamesDistinct(roles)
  BY DEF TInv
<1>2. /\ Len(wire) = Len(roles)
      /\ Elems(wire) = {DelegationFrom(d) : d \in Elems(roles)}
      /\ \A i \in 1..Len(wire) - 1 : wire[i].name < wire[i + 1].name
  BY <1>1, EncodedFacts
<1>3. Elems(roles) \subseteq Delegation
  BY <1>1 DEF Elems
<1>4. \A i \in 1..Len(wire) : \E d \in Elems(roles) : Writes(wire[i], d)
  <2> SUFFICES ASSUME NEW i \in 1..Len(wire)
               PROVE  \E d \in Elems(roles) : Writes(wire[i], d)
    OBVIOUS
  <2>1. wire[i] \in Elems(wire)
    BY DEF Elems
  <2>2. PICK d \in Elems(roles) : wire[i] = DelegationFrom(d)
    BY <2>1, <1>2
  <2> QED BY <2>2, <1>3, WritesFrom
<1>5. \A d \in Elems(roles) : \E i \in 1..Len(wire) : Writes(wire[i], d)
  <2> SUFFICES ASSUME NEW d \in Elems(roles)
               PROVE  \E i \in 1..Len(wire) : Writes(wire[i], d)
    OBVIOUS
  <2>1. DelegationFrom(d) \in Elems(wire)
    BY <1>2
  <2>2. PICK i \in 1..Len(wire) : wire[i] = DelegationFrom(d)
    BY <2>1 DEF Elems
  <2> QED BY <2>2, <1>3, WritesFrom
<1> QED BY <1>2, <1>4, <1>5

(***************************************************************************)
(* For every set of role names, key ids and path patterns and every bound, *)
(* the delegation codec keeps its types: the in-memory roles and what      *)
(* TryFrom<Delegations> collects are delegations with finite key-id and    *)
(* path sets, the array holds key-id and path lists, and the collect never *)
(* decodes more roles than the array has.                                  *)
(***************************************************************************)
THEOREM DelegationsTypeCorrect == Spec => []TypeOK
<1>1. Init => TInv
  BY InitTInv
<1>2. TInv /\ [Next]_vars => TInv'
  BY NextTInv
<1>3. TInv => TypeOK
  BY TInvTypeOK
<1> QED BY <1>1, <1>2, <1>3, PTL DEF Spec

(***************************************************************************)
(* Spec section 8, deterministic ordering, for every set of names, key ids *)
(* and paths and every bound: the array Delegations::from writes has one   *)
(* entry per delegated role and no other, lists them by strictly           *)
(* increasing name, and lists each role's key ids and paths in increasing  *)
(* order, whatever order the roles and their HashSets were held in.        *)
(***************************************************************************)
THEOREM DelegationsEncodingCanonical == Spec => []EncodingCanonical
<1>1. Init => TInv
  BY InitTInv
<1>2. TInv /\ [Next]_vars => TInv'
  BY NextTInv
<1>3. TInv => EncodingCanonical
  BY TInvCanonical
<1> QED BY <1>1, <1>2, <1>3, PTL DEF Spec

=============================================================================
