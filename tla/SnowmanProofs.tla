---------------------------- MODULE SnowmanProofs ----------------------------
(***************************************************************************)
(* Tries side by side, and theorems about Topological for any blocks and   *)
(* votes: TsInv is what the block tree is, and what is decided is one      *)
(* chain.                                                                  *)
(***************************************************************************)
EXTENDS Topological, SnowLemmas

-----------------------------------------------------------------------------
(* Tries, and what Add, RecordPoll and a reset do to them. *)

(* Every instance of a trie prefers a bit of a choice that comes that far. *)
IsTrie(t) ==
  /\ t = [choices |-> t.choices, inst |-> t.inst]
  /\ t.choices \subseteq IDs
  /\ t.inst \in [DOMAIN t.inst -> Snowflakes] /\ DOMAIN t.inst \subseteq BitPrefixes

TrieOK(t) ==
  /\ IsTrie(t) /\ t.choices # {}
  /\ \A x \in t.choices : \A i \in Bits : Prefix(x, i) \in DOMAIN t.inst
  /\ \A p \in DOMAIN t.inst : \E x \in t.choices : \E i \in Bits :
       p = Prefix(x, i) /\ t.inst[p].pref = IDBits[x][i]

(* IDs that agree up to bit i have one prefix there (EqualSubset). *)
LEMMA PrefixSame ==
  ASSUME NEW x \in IDs, NEW y \in IDs, NEW i \in Bits,
         \A j \in Bits : j < i => IDBits[x][j] = IDBits[y][j]
  PROVE  Prefix(x, i) = Prefix(y, i)
BY ParametersVerify DEF Prefix, Bits

(* A prefix tells its length, and the bits of the IDs that have it. *)
LEMMA PrefixDiffers ==
  ASSUME NEW x \in IDs, NEW y \in IDs, NEW i \in Bits, NEW j \in Bits,
         Prefix(x, i) = Prefix(y, j)
  PROVE  i = j /\ \A k \in Bits : k < i => IDBits[x][k] = IDBits[y][k]
<1>1. 0..(i - 1) = 0..(j - 1)
  BY DEF Prefix
<1>2. i \in Nat /\ j \in Nat
  BY ParametersVerify DEF Bits
<1>3. i = j
  <2>1. ~(i < j)
    BY <1>1, <1>2
  <2>2. ~(j < i)
    BY <1>1, <1>2
  <2> QED BY <1>2, <2>1, <2>2
<1>4. ASSUME NEW k \in Bits, k < i PROVE IDBits[x][k] = IDBits[y][k]
  <2>1. k \in 0..(i - 1) /\ k \in 0..(j - 1)
    BY <1>2, <1>3, <1>4, ParametersVerify DEF Bits
  <2>2. Prefix(x, i)[k] = IDBits[x][k] /\ Prefix(y, j)[k] = IDBits[y][k]
    BY <2>1 DEF Prefix
  <2> QED BY <2>2
<1> QED BY <1>3, <1>4

(* The instance at a prefix of i bits is about bit i. *)
LEMMA PrefixSize ==
  ASSUME NEW x \in IDs, NEW i \in Bits
  PROVE  Cardinality(DOMAIN Prefix(x, i)) = i
<1>1. DOMAIN Prefix(x, i) = 0..(i - 1) /\ i \in Nat
  BY ParametersVerify DEF Prefix, Bits
<1>2. Cardinality(0..(i - 1)) = IF 0 > i - 1 THEN 0 ELSE (i - 1) - 0 + 1
  BY <1>1, FS_Interval
<1> QED BY <1>1, <1>2

(* The preferences of x's instances are x's bits, below bit i. *)
Follows(t, x, i) == \A j \in Bits : j < i => t.inst[Prefix(x, j)].pref = IDBits[x][j]

(* Following the instances leads to a choice, whatever the polls were: the *)
(* tree always has a preference.                                           *)
LEMMA PreferenceIs ==
  ASSUME NEW t, TrieOK(t)
  PROVE  /\ TriePreference(t) \in t.choices /\ TriePreference(t) \in IDs
         /\ \A i \in Bits : t.inst[Prefix(TriePreference(t), i)].pref
                              = IDBits[TriePreference(t)][i]
<1> DEFINE H == {i \in 0..NumBits : \E x \in t.choices : Follows(t, x, i)}
<1>0. NumBits \in Nat /\ Bits = 0..(NumBits - 1)
  BY ParametersVerify DEF Bits
<1>1. 0 \in H
  BY <1>0 DEF TrieOK, Follows
<1>2. PICK m \in H : \A i \in H : i <= m
  <2> HIDE DEF H
  <2>1. H \in SUBSET (0..NumBits)
    BY DEF H
  <2> QED BY Zenon, <1>0, <1>1, <2>1, MaxExists
<1>3. PICK x \in t.choices : Follows(t, x, m)
  BY <1>2
<1>4. x \in IDs
  BY DEF TrieOK, IsTrie
<1>5. m = NumBits
  <2> SUFFICES ASSUME m # NumBits PROVE FALSE
    OBVIOUS
  <2>1. m \in Bits /\ m + 1 \in 0..NumBits
    BY <1>0, <1>2
  <2>2. PICK y \in t.choices, i \in Bits :
          Prefix(x, m) = Prefix(y, i) /\ t.inst[Prefix(x, m)].pref = IDBits[y][i]
    BY <2>1 DEF TrieOK
  <2>3. y \in IDs
    BY DEF TrieOK, IsTrie
  <2>4. i = m /\ \A k \in Bits : k < m => IDBits[x][k] = IDBits[y][k]
    BY <1>4, <2>1, <2>2, <2>3, PrefixDiffers
  <2>5. ASSUME NEW j \in Bits, j < m + 1 PROVE t.inst[Prefix(y, j)].pref = IDBits[y][j]
    <3>1. CASE j = m
      BY <2>2, <2>4, <3>1
    <3>2. CASE j < m
      <4>1. \A k \in Bits : k < j => IDBits[x][k] = IDBits[y][k]
        BY <1>0, <2>1, <2>4, <3>2
      <4>2. Prefix(x, j) = Prefix(y, j)
        BY <1>4, <2>3, <4>1, PrefixSame
      <4> QED BY <1>3, <2>4, <3>2, <4>2 DEF Follows
    <3> QED BY <1>0, <2>1, <2>5, <3>1, <3>2
  <2>6. m + 1 \in H
    BY <2>1, <2>5 DEF Follows
  <2> QED BY <1>0, <1>2, <2>1, <2>6
<1>6. \A i \in Bits : t.inst[Prefix(x, i)].pref = IDBits[x][i]
  BY <1>0, <1>3, <1>5 DEF Follows
<1>7. TriePreference(t) \in t.choices
         /\ \A i \in Bits : t.inst[Prefix(TriePreference(t), i)].pref
                              = IDBits[TriePreference(t)][i]
  BY Zenon, <1>6 DEF TriePreference
<1> QED BY <1>7 DEF TrieOK, IsTrie

(* What adding a choice and recording a poll leave as it is: finalized     *)
(* instances keep their preference for good.                               *)
Later(t, u) ==
  /\ t.choices \subseteq u.choices /\ DOMAIN t.inst \subseteq DOMAIN u.inst
  /\ \A p \in DOMAIN t.inst : t.inst[p].finalized =>
       u.inst[p].finalized /\ u.inst[p].pref = t.inst[p].pref

(* Where the instances of t's preference are finalized, the preference of  *)
(* a later trie has the same bits.                                         *)
LEMMA LaterAgrees ==
  ASSUME NEW t, NEW u, TrieOK(t), TrieOK(u), Later(t, u), NEW i \in Bits,
         \A j \in 0..i : t.inst[Prefix(TriePreference(t), j)].finalized
  PROVE  /\ IDBits[TriePreference(u)][i] = IDBits[TriePreference(t)][i]
         /\ \A j \in 0..i : u.inst[Prefix(TriePreference(u), j)].finalized
<1> DEFINE x == TriePreference(t)
           y == TriePreference(u)
           D == {j \in 0..i : IDBits[x][j] # IDBits[y][j]}
<1>1. x \in t.choices /\ x \in IDs /\ \A j \in Bits : t.inst[Prefix(x, j)].pref = IDBits[x][j]
  BY PreferenceIs
<1>2. y \in u.choices /\ y \in IDs /\ \A j \in Bits : u.inst[Prefix(y, j)].pref = IDBits[y][j]
  BY PreferenceIs
<1> HIDE DEF x, y
<1>3. i \in Nat /\ 0..i \subseteq Bits
  BY ParametersVerify DEF Bits
<1>4. ASSUME NEW j \in 0..i, \A k \in Bits : k < j => IDBits[x][k] = IDBits[y][k]
      PROVE  u.inst[Prefix(y, j)].finalized /\ IDBits[y][j] = IDBits[x][j]
  <2>1. j \in Bits
    BY <1>3
  <2>2. Prefix(x, j) = Prefix(y, j)
    BY <1>1, <1>2, <1>4, <2>1, PrefixSame
  <2>3. Prefix(x, j) \in DOMAIN t.inst
    BY <1>1, <2>1 DEF TrieOK
  <2>4. t.inst[Prefix(x, j)].finalized
    BY DEF x
  <2>5. u.inst[Prefix(x, j)].finalized /\ u.inst[Prefix(x, j)].pref = t.inst[Prefix(x, j)].pref
    BY <2>3, <2>4 DEF Later
  <2> QED BY <1>1, <1>2, <2>1, <2>2, <2>5
<1>5. D = {}
  <2> SUFFICES ASSUME D # {} PROVE FALSE
    OBVIOUS
  <2>1. D \in SUBSET Nat
    BY <1>3
  <2>2. PICK j \in D : \A k \in D : j <= k
    <3> HIDE DEF D
    <3> QED BY <2>1, MinExists
  <2>3. ASSUME NEW k \in Bits, k < j PROVE IDBits[x][k] = IDBits[y][k]
    <3>1. k \in 0..i /\ ~(j <= k)
      BY <1>3, <2>2, <2>3, ParametersVerify DEF Bits
    <3>2. k \notin D
      <4> HIDE DEF D
      <4> QED BY <2>2, <3>1
    <3> QED BY <3>1, <3>2
  <2> QED BY <1>4, <2>2, <2>3
<1>6. ASSUME NEW j \in 0..i PROVE u.inst[Prefix(y, j)].finalized /\ IDBits[y][j] = IDBits[x][j]
  <2>1. \A k \in Bits : k < j => IDBits[x][k] = IDBits[y][k]
    <3> SUFFICES ASSUME NEW k \in Bits, k < j PROVE k \in 0..i
      BY <1>5
    <3> QED BY <1>3, ParametersVerify DEF Bits
  <2> QED BY <1>4, <2>1
<1> QED BY <1>3, <1>6 DEF x, y

(* So a choice that was decided against stays so. *)
LEMMA UndecidedShrinks ==
  ASSUME NEW t, NEW u, TrieOK(t), TrieOK(u), Later(t, u), NEW y \in IDs, Undecided(u, y)
  PROVE  Undecided(t, y)
<1> SUFFICES ASSUME NEW i \in Bits,
                    \A j \in 0..i : t.inst[Prefix(TriePreference(t), j)].finalized
             PROVE  IDBits[y][i] = IDBits[TriePreference(t)][i]
  BY DEF Undecided
<1>1. /\ IDBits[TriePreference(u)][i] = IDBits[TriePreference(t)][i]
      /\ \A j \in 0..i : u.inst[Prefix(TriePreference(u), j)].finalized
  BY LaterAgrees
<1>2. IDBits[y][i] = IDBits[TriePreference(u)][i]
  BY <1>1 DEF Undecided
<1> QED BY <1>1, <1>2

(* NewTree makes a trie of one choice. *)
LEMMA NewTrieOK ==
  ASSUME NEW x \in IDs
  PROVE  TrieOK(NewTrie(x)) /\ NewTrie(x).choices = {x}
<1> DEFINE t == NewTrie(x)
           D == {Prefix(x, i) : i \in Bits}
<1>1. /\ t = [choices |-> t.choices, inst |-> t.inst] /\ t.choices = {x}
      /\ t.inst = [p \in D |-> NewInstance(IDBits[x][Cardinality(DOMAIN p)])]
  BY DEF NewTrie
<1>2. ASSUME NEW i \in Bits
      PROVE  Prefix(x, i) \in D /\ t.inst[Prefix(x, i)] = NewInstance(IDBits[x][i])
  BY <1>1, PrefixSize
<1>3. DOMAIN t.inst = D /\ D \subseteq BitPrefixes
  BY <1>1 DEF BitPrefixes
<1>4. t.inst \in [D -> Snowflakes]
  <2>1. \A i \in Bits : NewInstance(IDBits[x][i]) \in Snowflakes
    BY ParametersVerify DEF NewInstance, Snowflakes
  <2>2. \A p \in D : t.inst[p] \in Snowflakes
    BY <1>2, <2>1
  <2> HIDE DEF t, D
  <2> QED BY <1>1, <2>2
<1>5. ASSUME NEW p \in D
      PROVE  \E i \in Bits : p = Prefix(x, i) /\ t.inst[p].pref = IDBits[x][i]
  <2>1. PICK i \in Bits : p = Prefix(x, i)
    OBVIOUS
  <2>2. NewInstance(IDBits[x][i]).pref = IDBits[x][i]
    BY DEF NewInstance
  <2> QED BY <1>2, <2>1, <2>2
<1> HIDE DEF t, D
<1>6. IsTrie(t)
  BY <1>1, <1>3, <1>4 DEF IsTrie
<1>7. \A y \in t.choices : \A i \in Bits : Prefix(y, i) \in DOMAIN t.inst
  BY <1>1, <1>2, <1>3
<1>8. \A p \in DOMAIN t.inst : \E y \in t.choices : \E i \in Bits :
        p = Prefix(y, i) /\ t.inst[p].pref = IDBits[y][i]
  BY <1>1, <1>3, <1>5
<1>9. TrieOK(t) /\ t.choices = {x}
  BY <1>1, <1>6, <1>7, <1>8 DEF TrieOK
<1> QED BY <1>9 DEF t

(* Tree.Add keeps a trie one, and adds the choice unless it was decided    *)
(* against.                                                                *)
LEMMA TrieAddOK ==
  ASSUME NEW t, TrieOK(t), NEW x \in IDs
  PROVE  /\ TrieOK(TrieAdd(t, x)) /\ Later(t, TrieAdd(t, x))
         /\ TrieAdd(t, x).choices = IF Undecided(t, x) THEN t.choices \cup {x} ELSE t.choices
<1>1. CASE ~Undecided(t, x)
  BY <1>1 DEF TrieAdd, Later
<1>2. CASE Undecided(t, x)
  <2> DEFINE u == TrieAdd(t, x)
             D == {Prefix(x, i) : i \in Bits}
             New(p) == NewInstance(IDBits[x][Cardinality(DOMAIN p)])
  <2>1. /\ u = [choices |-> u.choices, inst |-> u.inst] /\ u.choices = t.choices \cup {x}
        /\ u.inst = [p \in DOMAIN t.inst \cup D |->
                       IF p \in DOMAIN t.inst THEN t.inst[p] ELSE New(p)]
    BY <1>2 DEF TrieAdd
  <2>2. ASSUME NEW i \in Bits PROVE New(Prefix(x, i)) = NewInstance(IDBits[x][i])
    BY PrefixSize
  <2> HIDE DEF u, New
  <2>3. DOMAIN u.inst = DOMAIN t.inst \cup D /\ DOMAIN u.inst \subseteq BitPrefixes
    BY <2>1 DEF BitPrefixes, TrieOK, IsTrie
  <2>4. \A p \in DOMAIN t.inst : u.inst[p] = t.inst[p]
    BY <2>1
  <2>5. ASSUME NEW p \in D, p \notin DOMAIN t.inst
        PROVE  \E i \in Bits : p = Prefix(x, i) /\ u.inst[p] = NewInstance(IDBits[x][i])
    BY <2>1, <2>2, <2>5
  <2>6. ASSUME NEW i \in Bits PROVE NewInstance(IDBits[x][i]) \in Snowflakes
    BY ParametersVerify DEF NewInstance, Snowflakes
  <2>7. ASSUME NEW p \in DOMAIN u.inst PROVE u.inst[p] \in Snowflakes
    <3>1. CASE p \in DOMAIN t.inst
      BY <2>4, <3>1 DEF TrieOK, IsTrie
    <3>2. CASE p \notin DOMAIN t.inst
      BY <2>3, <2>5, <2>6, <3>2
    <3> QED BY <3>1, <3>2
  <2>8. IsTrie(u)
    <3>1. u.inst \in [DOMAIN u.inst -> Snowflakes]
      BY <2>1, <2>7
    <3> QED BY <2>1, <2>3, <3>1 DEF TrieOK, IsTrie
  <2>9. ASSUME NEW y \in u.choices, NEW i \in Bits PROVE Prefix(y, i) \in DOMAIN u.inst
    BY <2>1, <2>3 DEF TrieOK
  <2>10. ASSUME NEW p \in DOMAIN u.inst
         PROVE  \E y \in u.choices : \E i \in Bits :
                  p = Prefix(y, i) /\ u.inst[p].pref = IDBits[y][i]
    <3>1. CASE p \in DOMAIN t.inst
      <4>1. PICK y \in t.choices, i \in Bits : p = Prefix(y, i) /\ t.inst[p].pref = IDBits[y][i]
        BY <3>1 DEF TrieOK
      <4> QED BY <2>1, <2>4, <3>1, <4>1
    <3>2. CASE p \notin DOMAIN t.inst
      <4>1. PICK i \in Bits : p = Prefix(x, i) /\ u.inst[p] = NewInstance(IDBits[x][i])
        BY <2>3, <2>5, <3>2
      <4>2. u.inst[p].pref = IDBits[x][i]
        BY <4>1 DEF NewInstance
      <4> QED BY <2>1, <4>1, <4>2
    <3> QED BY <3>1, <3>2
  <2>11. TrieOK(u)
    BY Zenon, <2>1, <2>8, <2>9, <2>10 DEF TrieOK
  <2>12. Later(t, u)
    BY <2>1, <2>3, <2>4 DEF Later
  <2> QED BY <1>2, <2>1, <2>11, <2>12 DEF u
<1> QED BY <1>1, <1>2

(* A reset keeps a trie one, and its choices. *)
LEMMA TrieUnsuccessfulOK ==
  ASSUME NEW t, TrieOK(t)
  PROVE  /\ TrieOK(TrieUnsuccessful(t)) /\ Later(t, TrieUnsuccessful(t))
         /\ TrieUnsuccessful(t).choices = t.choices
<1> DEFINE u == TrieUnsuccessful(t)
<1>1. /\ u = [choices |-> t.choices, inst |-> u.inst]
      /\ u.inst = [p \in DOMAIN t.inst |-> Unsuccessful(t.inst[p])]
  BY DEF TrieUnsuccessful, TrieOK, IsTrie
<1> HIDE DEF u
<1>2. u.choices = t.choices /\ DOMAIN u.inst = DOMAIN t.inst
  BY <1>1
<1>3. ASSUME NEW p \in DOMAIN t.inst
      PROVE  /\ u.inst[p] \in Snowflakes /\ u.inst[p].pref = t.inst[p].pref
             /\ u.inst[p].finalized = t.inst[p].finalized
  <2>1. t.inst[p] \in Snowflakes
    BY DEF TrieOK, IsTrie
  <2>2. Unsuccessful(t.inst[p]) = [pref |-> t.inst[p].pref, confidence |-> 0,
                                   finalized |-> t.inst[p].finalized]
    BY <2>1 DEF Unsuccessful, Snowflakes
  <2> QED BY <1>1, <2>1, <2>2, ParametersVerify DEF Snowflakes
<1>4. u.inst \in [DOMAIN u.inst -> Snowflakes]
  BY <1>1, <1>2, <1>3
<1>5. IsTrie(u)
  BY <1>1, <1>2, <1>4 DEF TrieOK, IsTrie
<1>6. TrieOK(u)
  BY <1>2, <1>3, <1>5 DEF TrieOK
<1>7. Later(t, u)
  BY <1>2, <1>3 DEF Later
<1> QED BY <1>2, <1>6, <1>7 DEF u

(* binarySnowflake.RecordPoll changes nothing once finalized, and its      *)
(* preference only for enough votes.                                       *)
LEMMA BinaryPollIs ==
  ASSUME NEW s \in Snowflakes, NEW count, NEW choice \in {0, 1}
  PROVE  /\ BinaryPoll(s, count, choice) \in Snowflakes
         /\ s.finalized => BinaryPoll(s, count, choice) = s
         /\ \/ BinaryPoll(s, count, choice).pref = s.pref
            \/ ~(count < AlphaPreference) /\ BinaryPoll(s, count, choice).pref = choice
<1> DEFINE r == BinaryPoll(s, count, choice)
           c == IF choice = s.pref THEN s.confidence ELSE 0
           q == [pref |-> choice, confidence |-> c, finalized |-> s.finalized]
<1>0. Beta \in Nat /\ Beta >= 1
  BY ParametersVerify
<1>1. /\ s = [pref |-> s.pref, confidence |-> s.confidence, finalized |-> s.finalized]
      /\ s.pref \in {0, 1} /\ s.confidence \in 0..Beta /\ s.finalized \in BOOLEAN
  BY DEF Snowflakes
<1>2. CASE s.finalized
  BY <1>2 DEF BinaryPoll
<1>3. CASE ~s.finalized /\ count < AlphaPreference
  <2>1. r = [pref |-> s.pref, confidence |-> 0, finalized |-> s.finalized]
    BY <1>1, <1>3 DEF BinaryPoll, Unsuccessful
  <2> QED BY <1>0, <1>1, <1>3, <2>1 DEF Snowflakes
<1>4. CASE ~s.finalized /\ ~(count < AlphaPreference)
  <2>1. [s EXCEPT !.pref = choice, !.confidence = IF choice = s.pref THEN @ ELSE 0] = q
    <3>1. ASSUME NEW e, e = [s EXCEPT !.pref = choice,
                                      !.confidence = IF choice = s.pref THEN @ ELSE 0]
          PROVE  e = q
      BY Zenon, <1>1, <3>1
    <3> QED BY <3>1
  <2>2. r = Terminate(q, count)
    BY <1>4, <2>1 DEF BinaryPoll
  <2>3. c \in 0..Beta
    BY <1>0, <1>1
  <2> HIDE DEF r, c
  <2>4. CASE count < AlphaConfidence
    <3>1. r = [pref |-> choice, confidence |-> 0, finalized |-> s.finalized]
      BY <2>2, <2>4 DEF Terminate, Unsuccessful
    <3> QED BY <1>0, <1>1, <1>4, <3>1 DEF Snowflakes, r
  <2>5. CASE ~(count < AlphaConfidence)
    <3>1. r = [pref |-> choice, confidence |-> IF c < Beta THEN c + 1 ELSE Beta,
               finalized |-> (s.finalized \/ c + 1 >= Beta)]
      BY Zenon, <2>2, <2>5 DEF Terminate
    <3>2. (IF c < Beta THEN c + 1 ELSE Beta) \in 0..Beta
      BY <1>0, <2>3
    <3>3. (s.finalized \/ c + 1 >= Beta) \in BOOLEAN
      OBVIOUS
    <3>4. r \in Snowflakes /\ r.pref = choice
      BY <3>1, <3>2, <3>3 DEF Snowflakes
    <3> QED BY <1>4, <3>4 DEF r
  <2> QED BY <2>4, <2>5
<1> QED BY <1>1, <1>2, <1>3, <1>4

(* Tree.RecordPoll keeps a trie one, and its choices. *)
LEMMA TriePollOK ==
  ASSUME NEW t, TrieOK(t), NEW votes, DOMAIN votes \subseteq IDs,
         \A y \in DOMAIN votes : Undecided(t, y) => y \in t.choices
  PROVE  /\ TrieOK(TriePoll(t, votes)) /\ Later(t, TriePoll(t, votes))
         /\ TriePoll(t, votes).choices = t.choices
<1> DEFINE u == TriePoll(t, votes)
           valid == {x \in DOMAIN votes : Undecided(t, x)}
           For(p, bit) == {x \in valid : /\ Prefix(x, Cardinality(DOMAIN p)) = p
                                         /\ IDBits[x][Cardinality(DOMAIN p)] = bit}
           Bit(p) == IF Count(votes, For(p, 1)) >= AlphaPreference THEN 1 ELSE 0
           Record(p) == BinaryPoll(t.inst[p], Count(votes, For(p, Bit(p))), Bit(p))
<1>1. /\ u = [choices |-> t.choices, inst |-> u.inst]
      /\ u.inst = [p \in DOMAIN t.inst |-> Record(p)]
  <2> DEFINE recorded == [p \in DOMAIN t.inst |-> Record(p)]
  <2>1. u = [t EXCEPT !.inst = recorded]
    BY DEF TriePoll
  <2> HIDE DEF recorded, u
  <2>2. u = [choices |-> t.choices, inst |-> recorded]
    BY <2>1 DEF TrieOK, IsTrie
  <2>3. u.inst = recorded
    BY <2>2
  <2> QED BY <2>2, <2>3 DEF recorded
<1>2. ASSUME NEW p, NEW bit, NEW x \in For(p, bit)
      PROVE  /\ x \in t.choices /\ p = Prefix(x, Cardinality(DOMAIN p))
             /\ IDBits[x][Cardinality(DOMAIN p)] = bit
  OBVIOUS
<1> HIDE DEF u, For
<1>3. u.choices = t.choices /\ DOMAIN u.inst = DOMAIN t.inst
  BY <1>1
<1>4. ASSUME NEW p \in DOMAIN t.inst
      PROVE  /\ u.inst[p] \in Snowflakes /\ t.inst[p] \in Snowflakes
             /\ t.inst[p].finalized => u.inst[p] = t.inst[p]
             /\ \/ u.inst[p].pref = t.inst[p].pref
                \/ ~(Count(votes, For(p, Bit(p))) < AlphaPreference) /\ u.inst[p].pref = Bit(p)
  <2>1. t.inst[p] \in Snowflakes /\ Bit(p) \in {0, 1}
    BY DEF TrieOK, IsTrie
  <2>2. u.inst[p] = BinaryPoll(t.inst[p], Count(votes, For(p, Bit(p))), Bit(p))
    BY <1>1
  <2> HIDE DEF Bit
  <2> QED BY <2>1, <2>2, BinaryPollIs
<1>5. IsTrie(u)
  <2>1. u.inst \in [DOMAIN u.inst -> Snowflakes]
    BY <1>1, <1>3, <1>4
  <2> QED BY <1>1, <1>3, <2>1 DEF TrieOK, IsTrie
<1>6. ASSUME NEW p \in DOMAIN t.inst
      PROVE  \E x \in t.choices : \E i \in Bits : p = Prefix(x, i) /\ u.inst[p].pref = IDBits[x][i]
  <2>1. PICK y \in t.choices, i \in Bits : p = Prefix(y, i) /\ t.inst[p].pref = IDBits[y][i]
    BY DEF TrieOK
  <2>2. Cardinality(DOMAIN p) = i
    BY <2>1, PrefixSize DEF TrieOK, IsTrie
  <2>3. CASE u.inst[p].pref = t.inst[p].pref
    BY <2>1, <2>3
  <2>4. CASE ~(Count(votes, For(p, Bit(p))) < AlphaPreference) /\ u.inst[p].pref = Bit(p)
    <3>1. For(p, Bit(p)) # {}
      BY <2>4, EnoughVotes
    <3>2. PICK x \in For(p, Bit(p)) : TRUE
      BY <3>1
    <3>3. x \in t.choices /\ p = Prefix(x, i) /\ IDBits[x][i] = Bit(p)
      BY <1>2, <2>2, <3>2
    <3> QED BY <2>4, <3>3
  <2> QED BY <1>4, <2>3, <2>4
<1>7. TrieOK(u)
  BY <1>3, <1>5, <1>6 DEF TrieOK
<1>8. Later(t, u)
  BY <1>3, <1>4 DEF Later
<1> QED BY <1>3, <1>7, <1>8 DEF u

(* Only one ID follows a trie's preferences. *)
LEMMA PreferenceUnique ==
  ASSUME NEW t, TrieOK(t), NEW x \in IDs,
         \A i \in Bits : t.inst[Prefix(x, i)].pref = IDBits[x][i]
  PROVE  x = TriePreference(t)
<1> DEFINE y == TriePreference(t)
           D == {i \in Bits : IDBits[x][i] # IDBits[y][i]}
<1>1. y \in IDs /\ \A i \in Bits : t.inst[Prefix(y, i)].pref = IDBits[y][i]
  BY PreferenceIs
<1> HIDE DEF y
<1>2. Bits \subseteq Nat
  BY ParametersVerify DEF Bits
<1>3. D = {}
  <2> SUFFICES ASSUME D # {} PROVE FALSE
    OBVIOUS
  <2>1. PICK i \in D : \A j \in D : i <= j
    <3>1. D \subseteq Bits
      OBVIOUS
    <3> HIDE DEF D
    <3>2. D \in SUBSET Nat
      BY <1>2, <3>1
    <3> QED BY <3>2, MinExists
  <2>2. ASSUME NEW j \in Bits, j < i PROVE IDBits[x][j] = IDBits[y][j]
    <3>1. ~(i <= j)
      BY <1>2, <2>1, <2>2
    <3> QED BY <2>1, <3>1
  <2>3. Prefix(x, i) = Prefix(y, i)
    BY <1>1, <2>1, <2>2, PrefixSame
  <2> QED BY <1>1, <2>1, <2>3
<1>4. IDBits[x] = IDBits[y]
  <2>1. IDBits[x] \in [Bits -> {0, 1}] /\ IDBits[y] \in [Bits -> {0, 1}]
    BY <1>1, ParametersVerify
  <2>2. \A i \in Bits : IDBits[x][i] = IDBits[y][i]
    BY <1>3
  <2> QED BY <2>1, <2>2
<1>5. x = y
  BY <1>1, <1>4, ParametersVerify
<1> QED BY <1>5 DEF y

-----------------------------------------------------------------------------
(* No instance is ahead of those above it, in a tree or in the tree of its *)
(* parent.                                                                 *)

(* r is not ahead of s, an instance above it that leads to it with bit. *)
Leads(s, bit, r) ==
  /\ r.finalized => s.finalized /\ s.pref = bit
  /\ r.confidence > 0 => s.pref = bit /\ (s.finalized \/ r.confidence <= s.confidence)

TrieLeads(t) ==
  \A x \in t.choices : \A i, j \in Bits :
    i < j => Leads(t.inst[Prefix(x, i)], IDBits[x][i], t.inst[Prefix(x, j)])

(* The tree u of a child x is not ahead of the tree t of its parent. *)
ChildFollows(t, x, u) ==
  \A i \in Bits : \A p \in DOMAIN u.inst :
    Leads(t.inst[Prefix(x, i)], IDBits[x][i], u.inst[p])

(* A poll that succeeds, and one that does not. *)
Succeeded(s, choice) ==
  LET c == IF choice = s.pref THEN s.confidence ELSE 0
  IN  [pref |-> choice, confidence |-> IF c < Beta THEN c + 1 ELSE Beta,
       finalized |-> c + 1 >= Beta]

(* The record that a poll makes of an instance, up to its preference. *)
LEMMA PollPrefers ==
  ASSUME NEW s, s = [pref |-> s.pref, confidence |-> s.confidence, finalized |-> s.finalized],
         NEW choice, NEW e,
         e = [s EXCEPT !.pref = choice, !.confidence = IF choice = s.pref THEN @ ELSE 0]
  PROVE  e = [pref |-> choice, confidence |-> IF choice = s.pref THEN s.confidence ELSE 0,
              finalized |-> s.finalized]
BY Zenon

(* The record that a poll makes of an instance, up to its confidence. *)
LEMMA PollCounts ==
  ASSUME NEW a, NEW b, NEW d, NEW e,
         e = [[pref |-> a, confidence |-> b, finalized |-> d] EXCEPT
                !.confidence = IF @ < Beta THEN @ + 1 ELSE Beta,
                !.finalized  = @ \/ b + 1 >= Beta]
  PROVE  e = [pref |-> a, confidence |-> IF b < Beta THEN b + 1 ELSE Beta,
              finalized |-> (d \/ b + 1 >= Beta)]
BY Zenon

(* What a poll with AlphaConfidence votes does to an instance. *)
LEMMA BinaryPollSucceeds ==
  ASSUME NEW s \in Snowflakes, ~s.finalized, NEW count \in Nat, count >= AlphaConfidence,
         NEW choice \in {0, 1}
  PROVE  BinaryPoll(s, count, choice) = Succeeded(s, choice)
<1> DEFINE c == IF choice = s.pref THEN s.confidence ELSE 0
           q == [pref |-> choice, confidence |-> c, finalized |-> s.finalized]
           e == Terminate(q, count)
<1>1. s = [pref |-> s.pref, confidence |-> s.confidence, finalized |-> s.finalized]
  BY DEF Snowflakes
<1>2. ~(count < AlphaPreference) /\ ~(count < AlphaConfidence)
  BY ParametersVerify
<1>3. BinaryPoll(s, count, choice) = Terminate(q, count)
  <2>1. [s EXCEPT !.pref = choice, !.confidence = IF choice = s.pref THEN @ ELSE 0] = q
    BY <1>1, PollPrefers, Zenon
  <2> QED BY <1>2, <2>1 DEF BinaryPoll
<1> HIDE DEF c
<1>4. q.confidence = c /\ q.finalized = s.finalized /\ q.pref = choice
  OBVIOUS
<1>5. e = [pref |-> choice, confidence |-> IF c < Beta THEN c + 1 ELSE Beta,
           finalized |-> (s.finalized \/ c + 1 >= Beta)]
  <2>1. e = [q EXCEPT !.confidence = IF @ < Beta THEN @ + 1 ELSE Beta,
                      !.finalized  = @ \/ q.confidence + 1 >= Beta]
    BY <1>2 DEF Terminate
  <2>2. e = [q EXCEPT !.confidence = IF @ < Beta THEN @ + 1 ELSE Beta,
                      !.finalized  = @ \/ c + 1 >= Beta]
    BY <1>4, <2>1
  <2> HIDE DEF e
  <2> QED BY <2>2, PollCounts, Zenon
<1>6. (s.finalized \/ c + 1 >= Beta) = (c + 1 >= Beta)
  OBVIOUS
<1>7. e = [pref |-> choice, confidence |-> IF c < Beta THEN c + 1 ELSE Beta,
           finalized |-> c + 1 >= Beta]
  BY <1>5, <1>6
<1> QED BY <1>3, <1>7 DEF Succeeded, c

(* A poll with fewer resets the confidence and finalizes nothing. *)
LEMMA BinaryPollFails ==
  ASSUME NEW s \in Snowflakes, ~s.finalized, NEW count \in Nat, count < AlphaConfidence,
         NEW choice \in {0, 1}
  PROVE  /\ BinaryPoll(s, count, choice).confidence = 0
         /\ ~BinaryPoll(s, count, choice).finalized
<1> DEFINE c == IF choice = s.pref THEN s.confidence ELSE 0
           q == [pref |-> choice, confidence |-> c, finalized |-> s.finalized]
<1>1. s = [pref |-> s.pref, confidence |-> s.confidence, finalized |-> s.finalized]
  BY DEF Snowflakes
<1>2. CASE count < AlphaPreference
  <2>1. BinaryPoll(s, count, choice) = Unsuccessful(s)
    BY <1>2 DEF BinaryPoll
  <2>2. Unsuccessful(s) = [pref |-> s.pref, confidence |-> 0, finalized |-> s.finalized]
    BY <1>1 DEF Unsuccessful
  <2> QED BY <2>1, <2>2
<1>3. CASE ~(count < AlphaPreference)
  <2>1. BinaryPoll(s, count, choice) = Unsuccessful(q)
    <3>1. [s EXCEPT !.pref = choice, !.confidence = IF choice = s.pref THEN @ ELSE 0] = q
      BY <1>1, PollPrefers, Zenon
    <3> QED BY <1>3, <3>1 DEF BinaryPoll, Terminate
  <2> HIDE DEF c
  <2>2. Unsuccessful(q) = [pref |-> choice, confidence |-> 0, finalized |-> s.finalized]
    BY DEF Unsuccessful
  <2> QED BY <2>1, <2>2
<1> QED BY <1>2, <1>3

(* The step of Leads: s and r are polled, and r never succeeds alone.      *)
LEMMA LeadsStep ==
  ASSUME NEW s \in Snowflakes, NEW r \in Snowflakes, NEW bit \in {0, 1}, Leads(s, bit, r),
         NEW n, NEW m \in Nat, NEW c \in {0, 1}, NEW b \in {0, 1},
         ~r.finalized /\ m >= AlphaConfidence =>
           \/ s.finalized /\ s.pref = bit
           \/ ~s.finalized /\ c = bit /\ n \in Nat /\ n >= AlphaConfidence
  PROVE  Leads(BinaryPoll(s, n, c), bit, BinaryPoll(r, m, b))
<1> DEFINE s1 == BinaryPoll(s, n, c)
           r1 == BinaryPoll(r, m, b)
<1>0. Beta \in Nat /\ Beta >= 1 /\ AlphaConfidence \in Nat
  BY ParametersVerify
<1>1. s.finalized => s1 = s
  BY BinaryPollIs
<1>2. CASE r.finalized
  <2>1. r1 = r
    BY <1>2, BinaryPollIs
  <2> QED BY <1>1, <1>2, <2>1 DEF Leads
<1>3. CASE ~r.finalized /\ m < AlphaConfidence
  <2>1. r1.confidence = 0 /\ ~r1.finalized
    BY <1>3, BinaryPollFails
  <2> HIDE DEF r1, s1
  <2>2. ~(r1.confidence > 0)
    BY <2>1
  <2> QED BY <2>1, <2>2 DEF Leads, r1, s1
<1>4. CASE ~r.finalized /\ m >= AlphaConfidence
  <2> DEFINE e == IF b = r.pref THEN r.confidence ELSE 0
             d == IF bit = s.pref THEN s.confidence ELSE 0
  <2>1. r1 = Succeeded(r, b)
    BY <1>4, BinaryPollSucceeds
  <2>2. r1.pref = b /\ r1.confidence = (IF e < Beta THEN e + 1 ELSE Beta)
          /\ r1.finalized = (e + 1 >= Beta)
    BY <2>1 DEF Succeeded
  <2>3. r.confidence \in 0..Beta /\ s.confidence \in 0..Beta /\ r.finalized \in BOOLEAN
    BY DEF Snowflakes
  <2>4. e \in 0..Beta /\ d \in 0..Beta
    BY <1>0, <2>3
  <2>5. CASE s.finalized /\ s.pref = bit
    <3>1. s1 = s
      BY <1>1, <2>5
    <3> HIDE DEF s1, r1
    <3> QED BY <2>5, <3>1 DEF Leads, s1, r1
  <2>6. CASE ~s.finalized /\ c = bit /\ n \in Nat /\ n >= AlphaConfidence
    <3>1. s1 = Succeeded(s, bit)
      BY <2>6, BinaryPollSucceeds
    <3>2. s1.pref = bit /\ s1.confidence = (IF d < Beta THEN d + 1 ELSE Beta)
            /\ s1.finalized = (d + 1 >= Beta)
      BY <3>1 DEF Succeeded
    <3>3. e <= d
      <4>1. CASE e = 0
        BY <1>0, <2>4, <4>1
      <4>2. CASE e # 0
        <5>1. e = r.confidence /\ r.confidence > 0
          BY <1>0, <2>3, <2>4, <4>2
        <5>2. s.pref = bit /\ r.confidence <= s.confidence
          BY <2>6, <5>1 DEF Leads
        <5> QED BY <5>1, <5>2
      <4> QED BY <4>1, <4>2
    <3> HIDE DEF e, d, s1, r1
    <3>4. r1.confidence <= s1.confidence
      BY <1>0, <2>2, <2>4, <3>2, <3>3
    <3>5. r1.finalized => s1.finalized
      <4>1. e + 1 >= Beta => d + 1 >= Beta
        BY <1>0, <2>4, <3>3
      <4>2. r1.finalized = (e + 1 >= Beta) /\ s1.finalized = (d + 1 >= Beta)
        BY <2>2, <3>2
      <4> QED BY <4>1, <4>2, Zenon
    <3> QED BY <3>2, <3>4, <3>5 DEF Leads, r1, s1
  <2> QED BY <1>4, <2>5, <2>6
<1>5. m < AlphaConfidence \/ m >= AlphaConfidence
  BY <1>0
<1> QED BY <1>2, <1>3, <1>4, <1>5

(* Down to a finalized instance, a trie's preference is decided: a choice  *)
(* it has not decided against has the bit of that instance.                *)
LEMMA FinalizedPath ==
  ASSUME NEW t, TrieOK(t), TrieLeads(t), NEW x \in t.choices, NEW i \in Bits,
         t.inst[Prefix(x, i)].finalized
  PROVE  LET z == TriePreference(t)
         IN  /\ Prefix(z, i) = Prefix(x, i)
             /\ \A j \in 0..i : t.inst[Prefix(z, j)].finalized
<1> DEFINE z == TriePreference(t)
           D == {j \in Bits : j < i /\ IDBits[x][j] # IDBits[z][j]}
<1>1. z \in IDs /\ x \in IDs /\ \A j \in Bits : t.inst[Prefix(z, j)].pref = IDBits[z][j]
  BY Zenon, PreferenceIs DEF TrieOK, IsTrie
<1> HIDE DEF z
<1>2. i \in Nat /\ Bits \subseteq Nat /\ 0..i \subseteq Bits
  BY ParametersVerify DEF Bits
<1>3. ASSUME NEW j \in Bits, j < i
      PROVE  t.inst[Prefix(x, j)].finalized /\ t.inst[Prefix(x, j)].pref = IDBits[x][j]
  BY <1>3 DEF TrieLeads, Leads
<1>4. D = {}
  <2> SUFFICES ASSUME D # {} PROVE FALSE
    OBVIOUS
  <2>1. PICK j \in D : \A k \in D : j <= k
    <3>1. D \subseteq Bits
      OBVIOUS
    <3> HIDE DEF D
    <3>2. D \in SUBSET Nat
      BY <1>2, <3>1
    <3> QED BY <3>2, MinExists
  <2>2. ASSUME NEW k \in Bits, k < j PROVE IDBits[x][k] = IDBits[z][k]
    <3>1. ~(j <= k) /\ k < i
      BY <1>2, <2>1, <2>2
    <3> QED BY <2>1, <3>1
  <2>3. Prefix(x, j) = Prefix(z, j)
    BY <1>1, <2>1, <2>2, PrefixSame
  <2> QED BY <1>1, <1>3, <2>1, <2>3
<1>5. ASSUME NEW j \in 0..i PROVE Prefix(z, j) = Prefix(x, j) /\ j \in Bits
  <2>1. \A k \in Bits : k < j => IDBits[z][k] = IDBits[x][k]
    BY <1>2, <1>4
  <2> QED BY <1>1, <1>2, <2>1, PrefixSame
<1>6. ASSUME NEW j \in 0..i PROVE t.inst[Prefix(z, j)].finalized
  <2>1. j = i \/ j < i
    BY <1>2
  <2> QED BY <1>3, <1>5, <2>1
<1>7. i \in 0..i
  BY <1>2
<1> QED BY <1>5, <1>6, <1>7 DEF z

(* A choice that is open has the bits that were finalized on its way. *)
LEMMA UndecidedFollows ==
  ASSUME NEW t, TrieOK(t), TrieLeads(t), NEW x \in t.choices, NEW i \in Bits,
         t.inst[Prefix(x, i)].finalized, NEW y \in IDs, Undecided(t, y)
  PROVE  IDBits[y][i] = t.inst[Prefix(x, i)].pref
<1> DEFINE z == TriePreference(t)
<1>1. Prefix(z, i) = Prefix(x, i) /\ \A j \in 0..i : t.inst[Prefix(z, j)].finalized
  BY FinalizedPath
<1>2. t.inst[Prefix(z, i)].pref = IDBits[z][i]
  BY PreferenceIs
<1>3. IDBits[y][i] = IDBits[z][i]
  BY <1>1 DEF Undecided
<1> QED BY <1>1, <1>2, <1>3

(* The votes that the instance before bit i of x counts for a bit. *)
ForBit(t, votes, x, i, bit) ==
  {y \in DOMAIN votes : Undecided(t, y) /\ Prefix(y, i) = Prefix(x, i) /\ IDBits[y][i] = bit}

VotesOK(votes) ==
  /\ DOMAIN votes \in SUBSET IDs /\ \A y \in DOMAIN votes : votes[y] \in Nat
  /\ Count(votes, DOMAIN votes) <= K

(* The votes for a bit are some of the votes. *)
LEMMA ForBitIs ==
  ASSUME NEW t, NEW votes, VotesOK(votes), NEW x, NEW i, NEW bit
  PROVE  /\ ForBit(t, votes, x, i, bit) \in SUBSET (DOMAIN votes)
         /\ Count(votes, ForBit(t, votes, x, i, bit)) \in Nat
<1>1. ForBit(t, votes, x, i, bit) \in SUBSET (DOMAIN votes)
  BY DEF ForBit
<1>2. ForBit(t, votes, x, i, bit) \in SUBSET IDs
        /\ \A y \in ForBit(t, votes, x, i, bit) : votes[y] \in Nat
  BY <1>1 DEF VotesOK
<1> QED BY <1>1, <1>2, CountNat

PollBit(t, votes, x, i) ==
  IF Count(votes, ForBit(t, votes, x, i, 1)) >= AlphaPreference THEN 1 ELSE 0

(* What a poll does to one instance. *)
LEMMA PollAt ==
  ASSUME NEW t, TrieOK(t), NEW votes, NEW x \in IDs, NEW i \in Bits,
         Prefix(x, i) \in DOMAIN t.inst
  PROVE  LET bit == PollBit(t, votes, x, i)
         IN  /\ bit \in {0, 1}
             /\ TriePoll(t, votes).inst[Prefix(x, i)]
                  = BinaryPoll(t.inst[Prefix(x, i)], Count(votes, ForBit(t, votes, x, i, bit)), bit)
<1> DEFINE valid == {y \in DOMAIN votes : Undecided(t, y)}
           For(p, b) == {y \in valid : /\ Prefix(y, Cardinality(DOMAIN p)) = p
                                       /\ IDBits[y][Cardinality(DOMAIN p)] = b}
           Record(p) ==
             LET b == IF Count(votes, For(p, 1)) >= AlphaPreference THEN 1 ELSE 0
             IN  BinaryPoll(t.inst[p], Count(votes, For(p, b)), b)
           recorded == [p \in DOMAIN t.inst |-> Record(p)]
           bit == PollBit(t, votes, x, i)
<1>1. TriePoll(t, votes) = [t EXCEPT !.inst = recorded]
  BY DEF TriePoll
<1>2. [t EXCEPT !.inst = recorded].inst = recorded
  <2> HIDE DEF recorded
  <2> QED BY DEF TrieOK, IsTrie
<1>3. TriePoll(t, votes).inst[Prefix(x, i)] = Record(Prefix(x, i))
  <2>1. recorded[Prefix(x, i)] = Record(Prefix(x, i))
    <3> HIDE DEF Record
    <3> QED OBVIOUS
  <2> HIDE DEF recorded, Record
  <2> QED BY <1>1, <1>2, <2>1
<1>4. ASSUME NEW b PROVE For(Prefix(x, i), b) = ForBit(t, votes, x, i, b)
  BY PrefixSize DEF ForBit
<1> HIDE DEF For
<1>5. Record(Prefix(x, i))
        = BinaryPoll(t.inst[Prefix(x, i)], Count(votes, ForBit(t, votes, x, i, bit)), bit)
  BY <1>4 DEF PollBit
<1>6. bit \in {0, 1}
  BY DEF PollBit
<1> QED BY <1>3, <1>5, <1>6

(* The poll is counted for a bit that AlphaPreference of the votes are for. *)
LEMMA PollBitIs ==
  ASSUME NEW t, NEW votes, VotesOK(votes), NEW x, NEW i, NEW b \in {0, 1},
         Count(votes, ForBit(t, votes, x, i, b)) >= AlphaPreference
  PROVE  PollBit(t, votes, x, i) = b
<1> SUFFICES ASSUME b = 0, PollBit(t, votes, x, i) # 0 PROVE FALSE
  BY DEF PollBit
<1> DEFINE S == ForBit(t, votes, x, i, 0)
           T == ForBit(t, votes, x, i, 1)
<1>1. Count(votes, T) >= AlphaPreference /\ Count(votes, S) >= AlphaPreference
  BY DEF PollBit
<1>2. S \in SUBSET (DOMAIN votes) /\ T \in SUBSET (DOMAIN votes)
  BY ForBitIs
<1>3. S \cap T = {}
  BY DEF ForBit
<1> HIDE DEF S, T
<1> QED BY <1>1, <1>2, <1>3, NoTwoMajorities DEF VotesOK

(* Votes for choices that go through an instance of x are votes for x's    *)
(* bit there.                                                              *)
LEMMA PollSupports ==
  ASSUME NEW t, TrieOK(t), TrieLeads(t), NEW votes, VotesOK(votes),
         NEW x \in t.choices, NEW i \in Bits,
         NEW T \in SUBSET ForBit(t, votes, x, i, IDBits[x][i]),
         Count(votes, T) >= AlphaConfidence
  PROVE  LET s == t.inst[Prefix(x, i)]
             c == PollBit(t, votes, x, i)
             n == Count(votes, ForBit(t, votes, x, i, c))
         IN  \/ s.finalized /\ s.pref = IDBits[x][i]
             \/ ~s.finalized /\ c = IDBits[x][i] /\ n \in Nat /\ n >= AlphaConfidence
<1> DEFINE bit == IDBits[x][i]
           all == ForBit(t, votes, x, i, bit)
<1>1. x \in IDs /\ bit \in {0, 1}
  BY ParametersVerify DEF TrieOK, IsTrie
<1>2. /\ all \in SUBSET IDs /\ \A y \in all : votes[y] \in Nat
      /\ all \in SUBSET (DOMAIN votes) /\ Count(votes, all) \in Nat
  BY ForBitIs DEF VotesOK
<1>3. AlphaConfidence \in Nat /\ AlphaPreference \in Nat /\ AlphaPreference <= AlphaConfidence
  BY ParametersVerify
<1>4. T \in SUBSET IDs /\ \A y \in T : votes[y] \in Nat
  BY <1>2
<1>5. Count(votes, T) \in Nat
  BY <1>4, CountNat
<1>6. Count(votes, T) <= Count(votes, all)
  <2> HIDE DEF all
  <2> QED BY <1>2, CountMonotonic DEF all
<1>7. Count(votes, all) >= AlphaConfidence /\ Count(votes, all) >= AlphaPreference
  BY <1>2, <1>3, <1>5, <1>6
<1>8. PollBit(t, votes, x, i) = bit
  BY <1>1, <1>7, PollBitIs
<1>9. CASE t.inst[Prefix(x, i)].finalized
  <2>1. T # {}
    BY <1>3, <1>5, EnoughVotes
  <2>2. PICK y \in T : TRUE
    BY <2>1
  <2>3. y \in IDs /\ Undecided(t, y) /\ IDBits[y][i] = bit
    BY <1>2 DEF ForBit
  <2> QED BY <1>9, <2>3, UndecidedFollows
<1> QED BY <1>2, <1>7, <1>8, <1>9

(* A poll keeps instances from getting ahead of those above them in a      *)
(* tree.                                                                   *)
LEMMA TriePollLeads ==
  ASSUME NEW t, TrieOK(t), TrieLeads(t), NEW votes, VotesOK(votes),
         \A y \in DOMAIN votes : Undecided(t, y) => y \in t.choices
  PROVE  TrieLeads(TriePoll(t, votes))
<1> DEFINE u == TriePoll(t, votes)
<1>1. u.choices = t.choices
  BY TriePollOK DEF VotesOK
<1>2. SUFFICES ASSUME NEW x \in t.choices, NEW i \in Bits, NEW j \in Bits, i < j
               PROVE  Leads(u.inst[Prefix(x, i)], IDBits[x][i], u.inst[Prefix(x, j)])
  BY <1>1 DEF TrieLeads
<1> DEFINE s == t.inst[Prefix(x, i)]
           r == t.inst[Prefix(x, j)]
           bit == IDBits[x][i]
           c == PollBit(t, votes, x, i)
           b == PollBit(t, votes, x, j)
           n == Count(votes, ForBit(t, votes, x, i, c))
           T == ForBit(t, votes, x, j, b)
           m == Count(votes, T)
<1>3. /\ x \in IDs /\ Prefix(x, i) \in DOMAIN t.inst /\ Prefix(x, j) \in DOMAIN t.inst
      /\ s \in Snowflakes /\ r \in Snowflakes /\ bit \in {0, 1}
  BY ParametersVerify DEF TrieOK, IsTrie
<1>4. c \in {0, 1} /\ u.inst[Prefix(x, i)] = BinaryPoll(s, n, c)
  BY <1>3, PollAt
<1>5. b \in {0, 1} /\ u.inst[Prefix(x, j)] = BinaryPoll(r, m, b)
  BY <1>3, PollAt
<1>6. Leads(s, bit, r)
  BY <1>2 DEF TrieLeads
<1>7. T \in SUBSET ForBit(t, votes, x, i, bit)
  <2> SUFFICES ASSUME NEW y \in T PROVE Prefix(y, i) = Prefix(x, i) /\ IDBits[y][i] = bit
    BY DEF ForBit
  <2>1. y \in IDs /\ Prefix(y, j) = Prefix(x, j)
    BY DEF ForBit, VotesOK
  <2>2. \A k \in Bits : k < j => IDBits[y][k] = IDBits[x][k]
    BY <1>3, <2>1, PrefixDiffers
  <2>3. \A k \in Bits : k < i => k < j
    BY <1>2, ParametersVerify DEF Bits
  <2> QED BY <1>2, <1>3, <2>1, <2>2, <2>3, PrefixSame
<1>8. m \in Nat
  BY ForBitIs
<1> HIDE DEF u, T, c, b
<1>9. ASSUME m >= AlphaConfidence
      PROVE  \/ s.finalized /\ s.pref = bit
             \/ ~s.finalized /\ c = bit /\ n \in Nat /\ n >= AlphaConfidence
  BY <1>7, <1>9, PollSupports DEF c
<1> HIDE DEF s, r, bit, n, m
<1>10. Leads(BinaryPoll(s, n, c), bit, BinaryPoll(r, m, b))
  BY Zenon, <1>3, <1>4, <1>5, <1>6, <1>8, <1>9, LeadsStep
<1> QED BY <1>4, <1>5, <1>10 DEF bit

(* A poll keeps the tree of a child from getting ahead of its parent's. *)
LEMMA ChildFollowsPoll ==
  ASSUME NEW t, TrieOK(t), TrieLeads(t), NEW u, TrieOK(u), NEW x \in t.choices, Undecided(t, x),
         ChildFollows(t, x, u), NEW tv, VotesOK(tv), NEW uv, VotesOK(uv),
         x \in DOMAIN tv, Count(uv, DOMAIN uv) <= tv[x],
         \A y \in DOMAIN uv : Undecided(u, y) => y \in u.choices
  PROVE  ChildFollows(TriePoll(t, tv), x, TriePoll(u, uv))
<1> DEFINE t1 == TriePoll(t, tv)
           u1 == TriePoll(u, uv)
<1>1. TrieOK(u1) /\ u1.choices = u.choices
  BY TriePollOK DEF VotesOK
<1>2. SUFFICES ASSUME NEW i \in Bits, NEW y \in u.choices, NEW j \in Bits
               PROVE  Leads(t1.inst[Prefix(x, i)], IDBits[x][i], u1.inst[Prefix(y, j)])
  <2> SUFFICES ChildFollows(t1, x, u1)
    OBVIOUS
  <2> HIDE DEF u1, t1
  <2>1. \A p \in DOMAIN u1.inst : \E y \in u.choices : \E j \in Bits : p = Prefix(y, j)
    BY <1>1 DEF TrieOK
  <2> QED BY <1>1, <2>1 DEF ChildFollows
<1> DEFINE s == t.inst[Prefix(x, i)]
           r == u.inst[Prefix(y, j)]
           bit == IDBits[x][i]
           c == PollBit(t, tv, x, i)
           b == PollBit(u, uv, y, j)
           n == Count(tv, ForBit(t, tv, x, i, c))
           T == ForBit(u, uv, y, j, b)
           m == Count(uv, T)
<1>3. /\ x \in IDs /\ y \in IDs /\ Prefix(x, i) \in DOMAIN t.inst /\ Prefix(y, j) \in DOMAIN u.inst
      /\ s \in Snowflakes /\ r \in Snowflakes /\ bit \in {0, 1}
  BY ParametersVerify DEF TrieOK, IsTrie
<1>4. c \in {0, 1} /\ t1.inst[Prefix(x, i)] = BinaryPoll(s, n, c)
  BY <1>3, PollAt
<1>5. b \in {0, 1} /\ u1.inst[Prefix(y, j)] = BinaryPoll(r, m, b)
  BY <1>3, PollAt
<1>6. Leads(s, bit, r)
  BY <1>3 DEF ChildFollows
<1>7. {x} \in SUBSET ForBit(t, tv, x, i, bit)
  BY DEF ForBit
<1>8. m \in Nat /\ T \in SUBSET (DOMAIN uv)
  BY ForBitIs
<1> HIDE DEF t1, u1, T, c, b
<1>9. ASSUME m >= AlphaConfidence PROVE Count(tv, {x}) >= AlphaConfidence
  <2>1. m <= Count(uv, DOMAIN uv) /\ Count(uv, DOMAIN uv) \in Nat
    BY <1>8, CountMonotonic, CountNat DEF VotesOK
  <2>2. {x} \in SUBSET IDs /\ tv[x] \in Nat /\ \A z \in {x} : tv[z] \in Nat
    BY <1>3 DEF VotesOK
  <2>3. tv[x] <= Count(tv, {x}) /\ Count(tv, {x}) \in Nat
    BY <2>2, CountOfOne, CountNat
  <2>4. AlphaConfidence \in Nat
    BY ParametersVerify
  <2> QED BY <1>8, <1>9, <2>1, <2>2, <2>3, <2>4
<1>10. ASSUME m >= AlphaConfidence
       PROVE  \/ s.finalized /\ s.pref = bit
              \/ ~s.finalized /\ c = bit /\ n \in Nat /\ n >= AlphaConfidence
  <2> DEFINE one == {x}
  <2>1. one \in SUBSET ForBit(t, tv, x, i, bit) /\ Count(tv, one) >= AlphaConfidence
    BY <1>7, <1>9, <1>10
  <2> HIDE DEF one
  <2> QED BY <2>1, PollSupports DEF c
<1> HIDE DEF s, r, bit, n, m
<1>11. Leads(BinaryPoll(s, n, c), bit, BinaryPoll(r, m, b))
  BY <1>3, <1>4, <1>5, <1>6, <1>8, <1>10, LeadsStep
<1> QED BY Zenon, <1>4, <1>5, <1>11 DEF bit

(* What a new instance is, or one after a reset. *)
LEMMA LeadsFresh ==
  ASSUME NEW s, NEW bit, NEW r, r.confidence = 0, ~r.finalized
  PROVE  Leads(s, bit, r)
BY DEF Leads

(* In a new tree nothing is counted and nothing is finalized. *)
LEMMA NewTrieLeads ==
  ASSUME NEW x \in IDs
  PROVE  /\ TrieLeads(NewTrie(x))
         /\ \A p \in DOMAIN NewTrie(x).inst :
              NewTrie(x).inst[p].confidence = 0 /\ ~NewTrie(x).inst[p].finalized
<1> DEFINE t == NewTrie(x)
<1>1. \A p \in DOMAIN t.inst : t.inst[p].confidence = 0 /\ ~t.inst[p].finalized
  BY DEF NewTrie, NewInstance
<1>2. TrieOK(t)
  BY NewTrieOK
<1> HIDE DEF t
<1>3. TrieLeads(t)
  BY Zenon, <1>1, <1>2, LeadsFresh DEF TrieLeads, TrieOK
<1> QED BY <1>1, <1>3 DEF t

(* A reset touches the confidence only. *)
LEMMA TrieUnsuccessfulIs ==
  ASSUME NEW t, TrieOK(t)
  PROVE  LET u == TrieUnsuccessful(t)
         IN  /\ DOMAIN u.inst = DOMAIN t.inst /\ u.choices = t.choices
             /\ \A p \in DOMAIN t.inst : /\ u.inst[p].confidence = 0
                                         /\ u.inst[p].finalized = t.inst[p].finalized
                                         /\ u.inst[p].pref = t.inst[p].pref
<1>1. \A p \in DOMAIN t.inst : t.inst[p] \in Snowflakes
  BY DEF TrieOK, IsTrie
<1>2. t = [choices |-> t.choices, inst |-> t.inst]
  BY DEF TrieOK, IsTrie
<1>3. TrieUnsuccessful(t).inst = [p \in DOMAIN t.inst |-> Unsuccessful(t.inst[p])]
  BY <1>2 DEF TrieUnsuccessful
<1>4. TrieUnsuccessful(t).choices = t.choices
  BY <1>2 DEF TrieUnsuccessful
<1>5. \A s \in Snowflakes : /\ Unsuccessful(s).confidence = 0
                            /\ Unsuccessful(s).finalized = s.finalized
                            /\ Unsuccessful(s).pref = s.pref
  BY DEF Snowflakes, Unsuccessful
<1> QED BY <1>1, <1>3, <1>4, <1>5

(* A reset keeps instances from getting ahead of those above them. *)
LEMMA TrieUnsuccessfulLeads ==
  ASSUME NEW t, TrieOK(t), TrieLeads(t)
  PROVE  TrieLeads(TrieUnsuccessful(t))
<1> DEFINE u == TrieUnsuccessful(t)
<1>1. /\ DOMAIN u.inst = DOMAIN t.inst /\ u.choices = t.choices
      /\ \A p \in DOMAIN t.inst : /\ u.inst[p].confidence = 0
                                  /\ u.inst[p].finalized = t.inst[p].finalized
                                  /\ u.inst[p].pref = t.inst[p].pref
  BY TrieUnsuccessfulIs
<1> HIDE DEF u
<1>2. ASSUME NEW x \in t.choices, NEW i \in Bits, NEW j \in Bits, i < j
      PROVE  Leads(u.inst[Prefix(x, i)], IDBits[x][i], u.inst[Prefix(x, j)])
  <2>1. Leads(t.inst[Prefix(x, i)], IDBits[x][i], t.inst[Prefix(x, j)])
    BY <1>2 DEF TrieLeads
  <2>2. Prefix(x, i) \in DOMAIN t.inst /\ Prefix(x, j) \in DOMAIN t.inst
    BY DEF TrieOK
  <2> QED BY <1>1, <2>1, <2>2 DEF Leads
<1>3. TrieLeads(u)
  BY <1>1, <1>2 DEF TrieLeads
<1> QED BY <1>3 DEF u

(* Adding a choice changes no instance; the ones it makes are fresh. *)
LEMMA TrieAddIs ==
  ASSUME NEW t, TrieOK(t), NEW x \in IDs
  PROVE  LET u == TrieAdd(t, x)
         IN  /\ DOMAIN t.inst \subseteq DOMAIN u.inst
             /\ \A p \in DOMAIN t.inst : u.inst[p] = t.inst[p]
             /\ \A p \in DOMAIN u.inst \ DOMAIN t.inst :
                  u.inst[p].confidence = 0 /\ ~u.inst[p].finalized
<1>1. CASE ~Undecided(t, x)
  BY <1>1 DEF TrieAdd
<1>2. CASE Undecided(t, x)
  BY <1>2 DEF TrieAdd, NewInstance
<1> QED BY <1>1, <1>2

(* Add keeps instances from getting ahead of those above them. *)
LEMMA TrieAddLeads ==
  ASSUME NEW t, TrieOK(t), TrieLeads(t), NEW x \in IDs
  PROVE  TrieLeads(TrieAdd(t, x))
<1> DEFINE u == TrieAdd(t, x)
<1>1. /\ DOMAIN t.inst \subseteq DOMAIN u.inst
      /\ \A p \in DOMAIN t.inst : u.inst[p] = t.inst[p]
      /\ \A p \in DOMAIN u.inst \ DOMAIN t.inst :
           u.inst[p].confidence = 0 /\ ~u.inst[p].finalized
  BY TrieAddIs
<1>2. TrieOK(u)
  BY Zenon, TrieAddOK
<1> HIDE DEF u
<1>3. ASSUME NEW y \in u.choices, NEW i \in Bits, NEW j \in Bits, i < j
      PROVE  Leads(u.inst[Prefix(y, i)], IDBits[y][i], u.inst[Prefix(y, j)])
  <2>1. Prefix(y, j) \in DOMAIN u.inst /\ y \in IDs
    BY <1>2 DEF TrieOK, IsTrie
  <2>2. CASE Prefix(y, j) \notin DOMAIN t.inst
    BY <1>1, <2>1, <2>2, LeadsFresh
  <2>3. CASE Prefix(y, j) \in DOMAIN t.inst
    <3>1. PICK z \in t.choices, k \in Bits : Prefix(y, j) = Prefix(z, k)
      BY <2>3 DEF TrieOK
    <3>2. z \in IDs
      BY DEF TrieOK, IsTrie
    <3>3. k = j
      BY <2>1, <3>1, <3>2, PrefixDiffers
    <3>4. \A l \in Bits : l < j => IDBits[y][l] = IDBits[z][l]
      BY <2>1, <3>1, <3>2, <3>3, PrefixDiffers
    <3>5. \A l \in Bits : l < i => l < j
      BY <1>3, ParametersVerify DEF Bits
    <3>6. Prefix(y, i) = Prefix(z, i) /\ IDBits[y][i] = IDBits[z][i]
      BY <1>3, <2>1, <3>2, <3>4, <3>5, PrefixSame
    <3>7. Leads(t.inst[Prefix(z, i)], IDBits[z][i], t.inst[Prefix(z, j)])
      BY <1>3 DEF TrieLeads
    <3>8. Prefix(z, i) \in DOMAIN t.inst /\ Prefix(z, j) \in DOMAIN t.inst
      BY DEF TrieOK
    <3> QED BY <1>1, <3>1, <3>3, <3>6, <3>7, <3>8
  <2> QED BY <2>2, <2>3
<1>4. TrieLeads(u)
  BY <1>3 DEF TrieLeads
<1> QED BY <1>4 DEF u

(* What resets, and additions to either tree, keep. *)
LEMMA ChildFollowsReset ==
  ASSUME NEW t, TrieOK(t), NEW t1, Later(t, t1), NEW x \in t.choices, NEW u, TrieOK(u),
         ChildFollows(t, x, u)
  PROVE  ChildFollows(t1, x, TrieUnsuccessful(u))
<1> DEFINE u1 == TrieUnsuccessful(u)
<1>1. /\ DOMAIN u1.inst = DOMAIN u.inst
      /\ \A p \in DOMAIN u.inst : /\ u1.inst[p].confidence = 0
                                  /\ u1.inst[p].finalized = u.inst[p].finalized
  BY TrieUnsuccessfulIs
<1> HIDE DEF u1
<1>2. ASSUME NEW i \in Bits, NEW p \in DOMAIN u.inst
      PROVE  Leads(t1.inst[Prefix(x, i)], IDBits[x][i], u1.inst[p])
  <2>1. Leads(t.inst[Prefix(x, i)], IDBits[x][i], u.inst[p])
    BY DEF ChildFollows
  <2>2. Prefix(x, i) \in DOMAIN t.inst
    BY Zenon DEF TrieOK
  <2> QED BY <1>1, <2>1, <2>2 DEF Leads, Later
<1>3. ChildFollows(t1, x, u1)
  BY <1>1, <1>2 DEF ChildFollows
<1> QED BY <1>3 DEF u1

(* Add keeps the tree of a child from getting ahead of its parent's. *)
LEMMA ChildFollowsAdd ==
  ASSUME NEW t, TrieOK(t), NEW x \in t.choices, NEW u, TrieOK(u), NEW y \in IDs,
         ChildFollows(t, x, u)
  PROVE  ChildFollows(TrieAdd(t, y), x, u) /\ ChildFollows(t, x, TrieAdd(u, y))
<1>1. \A i \in Bits : Prefix(x, i) \in DOMAIN t.inst
  BY DEF TrieOK
<1>2. \A p \in DOMAIN t.inst : TrieAdd(t, y).inst[p] = t.inst[p]
  BY TrieAddIs
<1>3. ChildFollows(TrieAdd(t, y), x, u)
  BY <1>1, <1>2 DEF ChildFollows
<1> DEFINE u1 == TrieAdd(u, y)
<1>4. /\ \A p \in DOMAIN u.inst : u1.inst[p] = u.inst[p]
      /\ \A p \in DOMAIN u1.inst \ DOMAIN u.inst : u1.inst[p].confidence = 0 /\ ~u1.inst[p].finalized
  BY TrieAddIs
<1> HIDE DEF u1
<1>5. ChildFollows(t, x, u1)
  BY <1>4, LeadsFresh DEF ChildFollows
<1> QED BY <1>3, <1>5 DEF u1

(* TreeOf, for a set of children. *)
Chooses(C, t) ==
  /\ TrieOK(t) /\ t.choices \subseteq C
  /\ \A y \in C : Undecided(t, y) => y \in t.choices

(* What keeps a trie's choices keeps it the trie of the same children. *)
LEMMA ChoosesLater ==
  ASSUME NEW C \in SUBSET IDs, NEW t, Chooses(C, t), NEW u, TrieOK(u), Later(t, u),
         u.choices = t.choices
  PROVE  Chooses(C, u)
<1>1. ASSUME NEW y \in C, Undecided(u, y) PROVE y \in u.choices
  <2>1. Undecided(t, y)
    BY <1>1, UndecidedShrinks DEF Chooses
  <2> QED BY <2>1 DEF Chooses
<1> QED BY <1>1 DEF Chooses

(* Add makes it the trie of one more child. *)
LEMMA ChoosesAdd ==
  ASSUME NEW C \in SUBSET IDs, NEW t, Chooses(C, t), TrieLeads(t), NEW x \in IDs
  PROVE  /\ Chooses(C \cup {x}, TrieAdd(t, x)) /\ TrieLeads(TrieAdd(t, x))
         /\ Later(t, TrieAdd(t, x))
<1> DEFINE u == TrieAdd(t, x)
<1>1. TrieOK(t) /\ t.choices \subseteq C
  BY DEF Chooses
<1>2. /\ TrieOK(u) /\ Later(t, u) /\ TrieLeads(u)
      /\ u.choices = IF Undecided(t, x) THEN t.choices \cup {x} ELSE t.choices
  BY <1>1, TrieAddOK, TrieAddLeads
<1> HIDE DEF u
<1>3. ASSUME NEW y \in C \cup {x}, Undecided(u, y) PROVE y \in u.choices
  <2>1. Undecided(t, y)
    BY <1>1, <1>2, <1>3, UndecidedShrinks
  <2> QED BY <1>2, <2>1 DEF Chooses
<1>4. Chooses(C \cup {x}, u)
  BY <1>1, <1>2, <1>3 DEF Chooses
<1> QED BY <1>2, <1>4 DEF u

(* A reset keeps it the trie of the same children. *)
LEMMA ChoosesReset ==
  ASSUME NEW C \in SUBSET IDs, NEW t, Chooses(C, t), TrieLeads(t)
  PROVE  /\ Chooses(C, TrieUnsuccessful(t)) /\ TrieLeads(TrieUnsuccessful(t))
         /\ Later(t, TrieUnsuccessful(t))
<1> DEFINE u == TrieUnsuccessful(t)
<1>1. TrieOK(t)
  BY DEF Chooses
<1>2. TrieOK(u) /\ Later(t, u) /\ u.choices = t.choices /\ TrieLeads(u)
  BY <1>1, TrieUnsuccessfulOK, TrieUnsuccessfulLeads
<1> HIDE DEF u
<1>3. Chooses(C, u)
  BY <1>2, ChoosesLater
<1> QED BY <1>2, <1>3 DEF u

(* A poll keeps it the trie of the same children. *)
LEMMA ChoosesPoll ==
  ASSUME NEW t, NEW votes, VotesOK(votes), Chooses(DOMAIN votes, t), TrieLeads(t)
  PROVE  /\ Chooses(DOMAIN votes, TriePoll(t, votes)) /\ TrieLeads(TriePoll(t, votes))
         /\ Later(t, TriePoll(t, votes))
<1> DEFINE u == TriePoll(t, votes)
<1>1. TrieOK(t) /\ DOMAIN votes \in SUBSET IDs
        /\ \A y \in DOMAIN votes : Undecided(t, y) => y \in t.choices
  BY DEF Chooses, VotesOK
<1>2. TrieOK(u) /\ Later(t, u) /\ u.choices = t.choices /\ TrieLeads(u)
  BY <1>1, TriePollOK, TriePollLeads
<1> HIDE DEF u
<1>3. Chooses(DOMAIN votes, u)
  BY <1>1, <1>2, ChoosesLater
<1> QED BY <1>2, <1>3 DEF u

-----------------------------------------------------------------------------
(* Resets may be put off. *)

(* Tries with the same choices and instances are equal. *)
LEMMA TrieEqual ==
  ASSUME NEW t, IsTrie(t), NEW u, IsTrie(u), t.choices = u.choices,
         DOMAIN t.inst = DOMAIN u.inst, \A p \in DOMAIN t.inst : t.inst[p] = u.inst[p]
  PROVE  t = u
<1>1. t.inst = u.inst
  BY DEF IsTrie
<1> QED BY <1>1 DEF IsTrie

(* What a reset does to one instance. *)
LEMMA UnsuccessfulOf ==
  ASSUME NEW t, TrieOK(t), NEW p \in DOMAIN t.inst
  PROVE  /\ TrieUnsuccessful(t).inst[p] = Unsuccessful(t.inst[p])
         /\ p \in DOMAIN TrieUnsuccessful(t).inst
<1>1. t = [choices |-> t.choices, inst |-> t.inst]
  BY DEF TrieOK, IsTrie
<1>2. TrieUnsuccessful(t).inst = [q \in DOMAIN t.inst |-> Unsuccessful(t.inst[q])]
  BY <1>1 DEF TrieUnsuccessful
<1> QED BY <1>2

(* A reset of a trie that was reset changes nothing. *)
LEMMA UnsuccessfulTwice ==
  ASSUME NEW t, TrieOK(t)
  PROVE  TrieUnsuccessful(TrieUnsuccessful(t)) = TrieUnsuccessful(t)
<1> DEFINE u == TrieUnsuccessful(t)
           v == TrieUnsuccessful(u)
<1>1. TrieOK(u) /\ u.choices = t.choices /\ DOMAIN u.inst = DOMAIN t.inst
  BY TrieUnsuccessfulOK, TrieUnsuccessfulIs
<1>2. \A p \in DOMAIN t.inst : u.inst[p] = Unsuccessful(t.inst[p]) /\ t.inst[p] \in Snowflakes
  BY Zenon, UnsuccessfulOf DEF TrieOK, IsTrie
<1> HIDE DEF u
<1>3. TrieOK(v) /\ v.choices = u.choices /\ DOMAIN v.inst = DOMAIN u.inst
  BY <1>1, TrieUnsuccessfulOK, TrieUnsuccessfulIs
<1>4. \A p \in DOMAIN u.inst : v.inst[p] = Unsuccessful(u.inst[p])
  BY <1>1, UnsuccessfulOf
<1> HIDE DEF v
<1>5. \A s \in Snowflakes : Unsuccessful(Unsuccessful(s)) = Unsuccessful(s)
  BY Zenon DEF Snowflakes, Unsuccessful
<1>6. v = u
  BY <1>1, <1>2, <1>3, <1>4, <1>5, TrieEqual DEF TrieOK
<1> QED BY <1>6 DEF u, v

(* A reset changes no preference and no decision. *)
LEMMA UnsuccessfulPreference ==
  ASSUME NEW t, TrieOK(t)
  PROVE  LET u == TrieUnsuccessful(t)
         IN  /\ TriePreference(u) = TriePreference(t)
             /\ TrieFinalized(u) <=> TrieFinalized(t)
             /\ \A x : Undecided(u, x) <=> Undecided(t, x)
<1> DEFINE u == TrieUnsuccessful(t)
           z == TriePreference(t)
<1>1. /\ DOMAIN u.inst = DOMAIN t.inst /\ TrieOK(u)
      /\ \A p \in DOMAIN t.inst : /\ u.inst[p].finalized = t.inst[p].finalized
                                  /\ u.inst[p].pref = t.inst[p].pref
  BY TrieUnsuccessfulIs, TrieUnsuccessfulOK
<1>2. /\ z \in t.choices /\ z \in IDs
      /\ \A i \in Bits : Prefix(z, i) \in DOMAIN t.inst /\ t.inst[Prefix(z, i)].pref = IDBits[z][i]
  BY Zenon, PreferenceIs DEF TrieOK
<1> HIDE DEF u, z
<1>3. TriePreference(u) = z
  BY <1>1, <1>2, PreferenceUnique
<1>4. TrieFinalized(u) <=> TrieFinalized(t)
  BY <1>1, <1>2, <1>3 DEF TrieFinalized, z
<1>5. \A i \in Bits : \A j \in 0..i : j \in Bits
  BY ParametersVerify DEF Bits
<1>6. \A i \in Bits : (\A j \in 0..i : u.inst[Prefix(z, j)].finalized)
                        <=> (\A j \in 0..i : t.inst[Prefix(z, j)].finalized)
  BY <1>1, <1>2, <1>5
<1>7. \A x : Undecided(u, x) <=> Undecided(t, x)
  BY <1>3, <1>6 DEF Undecided, z
<1> QED BY <1>3, <1>4, <1>7 DEF u, z

(* A new trie is as good as reset, and not finalized. *)
LEMMA UnsuccessfulNew ==
  ASSUME NEW x \in IDs
  PROVE  TrieUnsuccessful(NewTrie(x)) = NewTrie(x) /\ ~TrieFinalized(NewTrie(x))
<1> DEFINE t == NewTrie(x)
           u == TrieUnsuccessful(t)
<1>1. TrieOK(t) /\ \A p \in DOMAIN t.inst : t.inst[p].confidence = 0 /\ ~t.inst[p].finalized
  BY NewTrieOK, NewTrieLeads
<1> HIDE DEF t
<1>2. \A p \in DOMAIN t.inst : u.inst[p] = Unsuccessful(t.inst[p]) /\ t.inst[p] \in Snowflakes
  BY Zenon, <1>1, UnsuccessfulOf DEF TrieOK, IsTrie
<1>3. TrieOK(u) /\ u.choices = t.choices /\ DOMAIN u.inst = DOMAIN t.inst
  BY <1>1, TrieUnsuccessfulOK, TrieUnsuccessfulIs
<1> HIDE DEF u
<1>4. \A s \in Snowflakes : s.confidence = 0 => Unsuccessful(s) = s
  BY DEF Snowflakes, Unsuccessful
<1>5. u = t
  <2>1. \A p \in DOMAIN u.inst : u.inst[p] = t.inst[p]
    BY <1>1, <1>2, <1>3, <1>4
  <2>2. IsTrie(u) /\ IsTrie(t)
    BY <1>1, <1>3 DEF TrieOK
  <2> QED BY <1>3, <2>1, <2>2, TrieEqual
<1>6. 0 \in Bits
  BY ParametersVerify DEF Bits
<1>7. ~TrieFinalized(t)
  BY Zenon, <1>1, <1>6, PreferenceIs DEF TrieFinalized, TrieOK
<1> QED BY <1>5, <1>7 DEF t, u

(* What Add does to the instances of a trie. *)
LEMMA AddAt ==
  ASSUME NEW t, TrieOK(t), NEW x \in IDs, Undecided(t, x)
  PROVE  LET u == TrieAdd(t, x)
         IN  /\ DOMAIN u.inst = DOMAIN t.inst \cup {Prefix(x, i) : i \in Bits}
             /\ \A p \in DOMAIN u.inst :
                  u.inst[p] = IF p \in DOMAIN t.inst THEN t.inst[p]
                              ELSE NewInstance(IDBits[x][Cardinality(DOMAIN p)])
BY DEF TrieAdd

(* Add and a reset may come in either order. *)
LEMMA UnsuccessfulAdd ==
  ASSUME NEW t, TrieOK(t), NEW x \in IDs
  PROVE  TrieUnsuccessful(TrieAdd(t, x)) = TrieAdd(TrieUnsuccessful(t), x)
<1> DEFINE r == TrieUnsuccessful(t)
           a == TrieAdd(t, x)
           u == TrieUnsuccessful(a)
           v == TrieAdd(r, x)
<1>1. /\ TrieOK(r) /\ r.choices = t.choices /\ DOMAIN r.inst = DOMAIN t.inst
      /\ Undecided(r, x) <=> Undecided(t, x)
  BY TrieUnsuccessfulOK, TrieUnsuccessfulIs, UnsuccessfulPreference
<1>2. CASE ~Undecided(t, x)
  BY <1>1, <1>2 DEF TrieAdd
<1>3. CASE Undecided(t, x)
  <2>1. \A p \in DOMAIN t.inst : r.inst[p] = Unsuccessful(t.inst[p])
    BY UnsuccessfulOf
  <2>2. /\ TrieOK(a) /\ a.choices = t.choices \cup {x}
        /\ DOMAIN a.inst = DOMAIN t.inst \cup {Prefix(x, i) : i \in Bits}
        /\ \A p \in DOMAIN a.inst :
             a.inst[p] = IF p \in DOMAIN t.inst THEN t.inst[p]
                         ELSE NewInstance(IDBits[x][Cardinality(DOMAIN p)])
    <3>1. TrieOK(a) /\ a.choices = t.choices \cup {x}
      BY Zenon, <1>3, TrieAddOK
    <3>2. /\ DOMAIN a.inst = DOMAIN t.inst \cup {Prefix(x, i) : i \in Bits}
          /\ \A p \in DOMAIN a.inst :
               a.inst[p] = IF p \in DOMAIN t.inst THEN t.inst[p]
                           ELSE NewInstance(IDBits[x][Cardinality(DOMAIN p)])
      BY <1>3, AddAt
    <3> QED BY <3>1, <3>2
  <2>10. \A p \in DOMAIN a.inst \ DOMAIN t.inst : a.inst[p].confidence = 0
    BY TrieAddIs
  <2> HIDE DEF r, a
  <2>3. /\ TrieOK(v) /\ v.choices = t.choices \cup {x}
        /\ DOMAIN v.inst = DOMAIN r.inst \cup {Prefix(x, i) : i \in Bits}
        /\ \A p \in DOMAIN v.inst :
             v.inst[p] = IF p \in DOMAIN r.inst THEN r.inst[p]
                         ELSE NewInstance(IDBits[x][Cardinality(DOMAIN p)])
    BY Zenon, <1>1, <1>3, TrieAddOK, AddAt
  <2>4. TrieOK(u) /\ u.choices = a.choices /\ DOMAIN u.inst = DOMAIN a.inst
    BY <2>2, TrieUnsuccessfulOK, TrieUnsuccessfulIs
  <2>5. \A p \in DOMAIN a.inst : u.inst[p] = Unsuccessful(a.inst[p])
    BY <2>2, UnsuccessfulOf
  <2> HIDE DEF u, v
  <2>6. \A s \in Snowflakes : s.confidence = 0 => Unsuccessful(s) = s
    BY DEF Unsuccessful, Snowflakes
  <2>7. DOMAIN u.inst = DOMAIN v.inst /\ u.choices = v.choices
    BY <1>1, <2>2, <2>3, <2>4
  <2>8. ASSUME NEW p \in DOMAIN u.inst PROVE u.inst[p] = v.inst[p]
    <3>1. p \in DOMAIN a.inst /\ p \in DOMAIN v.inst /\ u.inst[p] = Unsuccessful(a.inst[p])
      BY <2>4, <2>5, <2>7
    <3>2. CASE p \in DOMAIN t.inst
      BY <1>1, <2>1, <2>2, <2>3, <3>1, <3>2
    <3>3. CASE p \notin DOMAIN t.inst
      <4>1. a.inst[p] \in Snowflakes /\ a.inst[p].confidence = 0
        BY Zenon, <2>2, <2>10, <3>1, <3>3 DEF TrieOK, IsTrie
      <4>2. u.inst[p] = a.inst[p]
        BY <2>6, <3>1, <4>1
      <4> QED BY <1>1, <2>2, <2>3, <3>1, <3>3, <4>2
    <3> QED BY <3>2, <3>3
  <2>9. u = v
    <3>1. IsTrie(u) /\ IsTrie(v)
      BY <2>3, <2>4 DEF TrieOK
    <3> QED BY <2>7, <2>8, <3>1, TrieEqual
  <2> QED BY <2>9 DEF u, v, r, a
<1> QED BY <1>2, <1>3

(* Add finalizes nothing. *)
LEMMA AddFinalized ==
  ASSUME NEW t, TrieOK(t), NEW x \in IDs, TrieFinalized(TrieAdd(t, x))
  PROVE  TrieFinalized(t)
<1> DEFINE u == TrieAdd(t, x)
           z == TriePreference(u)
<1>1. /\ TrieOK(u) /\ \A p \in DOMAIN t.inst : u.inst[p] = t.inst[p]
      /\ \A p \in DOMAIN u.inst \ DOMAIN t.inst : ~u.inst[p].finalized
  BY Zenon, TrieAddOK, TrieAddIs
<1>2. \A i \in Bits : u.inst[Prefix(z, i)].finalized
  BY DEF TrieFinalized
<1> HIDE DEF u
<1>3. z \in u.choices /\ z \in IDs /\ \A i \in Bits : u.inst[Prefix(z, i)].pref = IDBits[z][i]
  BY <1>1, PreferenceIs
<1> HIDE DEF z
<1>4. \A i \in Bits : Prefix(z, i) \in DOMAIN t.inst
  BY Zenon, <1>1, <1>2, <1>3 DEF TrieOK
<1>5. \A i \in Bits : t.inst[Prefix(z, i)].pref = IDBits[z][i]
  BY <1>1, <1>3, <1>4
<1>6. z = TriePreference(t)
  BY <1>3, <1>5, PreferenceUnique
<1> QED BY <1>1, <1>2, <1>4, <1>6 DEF TrieFinalized

(* A trie is no earlier than itself. *)
LEMMA LaterSame ==
  ASSUME NEW t
  PROVE  Later(t, t)
BY DEF Later

(* A trie that may have been reset is the same after a reset. *)
LEMMA ResetReset ==
  ASSUME NEW t, TrieOK(t), NEW u, u = t \/ u = TrieUnsuccessful(t)
  PROVE  TrieUnsuccessful(u) = TrieUnsuccessful(t)
BY UnsuccessfulTwice

(* Tree.Add changes no preference. *)
LEMMA AddPreference ==
  ASSUME NEW t, TrieOK(t), NEW x \in IDs
  PROVE  TriePreference(TrieAdd(t, x)) = TriePreference(t)
<1> DEFINE u == TrieAdd(t, x)
           z == TriePreference(t)
<1>1. TrieOK(u) /\ \A p \in DOMAIN t.inst : u.inst[p] = t.inst[p]
  BY Zenon, TrieAddOK, TrieAddIs
<1>2. /\ z \in IDs
      /\ \A i \in Bits : Prefix(z, i) \in DOMAIN t.inst /\ t.inst[Prefix(z, i)].pref = IDBits[z][i]
  BY PreferenceIs DEF TrieOK
<1> HIDE DEF u, z
<1>3. z = TriePreference(u)
  BY <1>1, <1>2, PreferenceUnique
<1> QED BY <1>3 DEF u, z

(* A poll that decides a tree was in favour of the block that it decides   *)
(* for: another one that was voted for enough would have to differ from it *)
(* at a bit that this poll decided, with votes of its own.                 *)
LEMMA DecidedByPoll ==
  ASSUME NEW t, TrieOK(t), NEW votes, VotesOK(votes), NEW w \in t.choices, NEW i \in Bits,
         ~t.inst[Prefix(w, i)].finalized, TriePoll(t, votes).inst[Prefix(w, i)].finalized,
         TriePoll(t, votes).inst[Prefix(w, i)].pref = IDBits[w][i],
         NEW y \in DOMAIN votes, votes[y] >= AlphaPreference
  PROVE  y \in ForBit(t, votes, w, i, IDBits[w][i])
<1> DEFINE s == t.inst[Prefix(w, i)]
           c == PollBit(t, votes, w, i)
           S == ForBit(t, votes, w, i, c)
           n == Count(votes, S)
           T == {y}
<1>1. w \in IDs /\ Prefix(w, i) \in DOMAIN t.inst /\ s \in Snowflakes
  BY DEF TrieOK, IsTrie
<1>2. c \in {0, 1} /\ TriePoll(t, votes).inst[Prefix(w, i)] = BinaryPoll(s, n, c)
  BY Zenon, <1>1, PollAt
<1>3. n \in Nat /\ S \in SUBSET (DOMAIN votes)
  BY Zenon, ForBitIs
<1> HIDE DEF s, c, S, n
<1>4. n >= AlphaConfidence /\ c = IDBits[w][i]
  <2>1. ~s.finalized
    BY DEF s
  <2>2. BinaryPoll(s, n, c).finalized /\ BinaryPoll(s, n, c).pref = IDBits[w][i]
    BY <1>2
  <2>3. n >= AlphaConfidence
    <3> SUFFICES ASSUME ~(n >= AlphaConfidence) PROVE FALSE
      OBVIOUS
    <3>1. n < AlphaConfidence
      BY <1>3, ParametersVerify
    <3> QED BY <1>1, <1>2, <1>3, <2>1, <2>2, <3>1, BinaryPollFails
  <2>4. BinaryPoll(s, n, c).pref = c
    BY <1>1, <1>2, <1>3, <2>1, <2>3, BinaryPollSucceeds DEF Succeeded
  <2> QED BY <2>2, <2>3, <2>4
<1>5. n >= AlphaPreference
  BY <1>3, <1>4, ParametersVerify
<1>6. T \in SUBSET (DOMAIN votes) /\ T \in SUBSET IDs /\ (\A z \in T : votes[z] \in Nat) /\ y \in T
  BY DEF VotesOK
<1> HIDE DEF T
<1>7. Count(votes, T) >= AlphaPreference
  <2>1. votes[y] <= Count(votes, T) /\ Count(votes, T) \in Nat
    BY <1>6, CountOfOne, CountNat
  <2> QED BY <1>6, <2>1, ParametersVerify
<1>8. S \cap T # {}
  BY <1>3, <1>5, <1>6, <1>7, NoTwoMajorities DEF VotesOK, n
<1> QED BY <1>4, <1>8 DEF S, T

(* A poll that finalizes a tree does so for the child with AlphaPreference *)
(* votes.                                                                  *)
LEMMA DecidesForVoted ==
  ASSUME NEW t, NEW votes, VotesOK(votes), Chooses(DOMAIN votes, t), TrieLeads(t),
         ~TrieFinalized(t), TrieFinalized(TriePoll(t, votes)),
         NEW y \in DOMAIN votes, votes[y] >= AlphaPreference
  PROVE  y = TriePreference(TriePoll(t, votes))
<1> DEFINE u == TriePoll(t, votes)
           w == TriePreference(u)
<1>1. /\ TrieOK(t) /\ DOMAIN votes \in SUBSET IDs
      /\ \A z \in DOMAIN votes : Undecided(t, z) => z \in t.choices
  BY DEF Chooses, VotesOK
<1>2. TrieOK(u) /\ Later(t, u) /\ u.choices = t.choices
  BY <1>1, TriePollOK
<1>3. \A i \in Bits : u.inst[Prefix(w, i)].finalized
  BY DEF TrieFinalized
<1>4. w \in t.choices /\ w \in IDs /\ \A i \in Bits : u.inst[Prefix(w, i)].pref = IDBits[w][i]
  BY <1>2, PreferenceIs
<1>5. ASSUME NEW i \in Bits, ~t.inst[Prefix(w, i)].finalized
      PROVE  Prefix(y, i) = Prefix(w, i) /\ IDBits[y][i] = IDBits[w][i]
  <2> HIDE DEF w
  <2>1. u.inst[Prefix(w, i)].finalized /\ u.inst[Prefix(w, i)].pref = IDBits[w][i]
    BY <1>3, <1>4
  <2>2. y \in ForBit(t, votes, w, i, IDBits[w][i])
    BY Zenon, <1>1, <1>4, <1>5, <2>1, DecidedByPoll
  <2> QED BY <2>2 DEF ForBit
<1> HIDE DEF u, w
<1>6. PICK i \in Bits : ~t.inst[Prefix(w, i)].finalized
  <2> SUFFICES ASSUME \A i \in Bits : t.inst[Prefix(w, i)].finalized PROVE FALSE
    OBVIOUS
  <2>1. \A i \in Bits : Prefix(w, i) \in DOMAIN t.inst
    BY <1>1, <1>4 DEF TrieOK
  <2>2. \A i \in Bits : t.inst[Prefix(w, i)].pref = IDBits[w][i]
    BY <1>2, <1>4, <2>1 DEF Later
  <2>3. w = TriePreference(t)
    BY <1>1, <1>4, <2>2, PreferenceUnique
  <2> QED BY <2>3 DEF TrieFinalized
<1>7. y \in IDs
  BY <1>1
<1>8. \A k \in Bits : k < i => IDBits[y][k] = IDBits[w][k]
  BY <1>4, <1>5, <1>6, <1>7, PrefixDiffers
<1>9. ASSUME NEW j \in Bits PROVE IDBits[y][j] = IDBits[w][j]
  <2>1. i \in Nat /\ j \in Nat
    BY ParametersVerify DEF Bits
  <2>2. CASE j < i
    BY <1>8, <2>2
  <2>3. CASE j = i
    BY <1>5, <1>6, <2>3
  <2>4. CASE i < j
    <3>1. Leads(t.inst[Prefix(w, i)], IDBits[w][i], t.inst[Prefix(w, j)])
      BY <1>4, <2>4 DEF TrieLeads
    <3>2. ~t.inst[Prefix(w, j)].finalized
      BY <1>6, <3>1 DEF Leads
    <3> QED BY <1>5, <3>2
  <2> QED BY <2>1, <2>2, <2>3, <2>4
<1>10. IDBits[y] = IDBits[w]
  BY <1>4, <1>7, <1>9, ParametersVerify
<1>11. y = w
  BY <1>4, <1>7, <1>10, ParametersVerify
<1> QED BY <1>11 DEF u, w

-----------------------------------------------------------------------------
(* The invariants. *)

(* The tree of a block chooses between children of it: all those that no   *)
(* finalized instance has decided against.                                 *)
TreeOf(x, t) ==
  /\ TrieOK(t) /\ t.choices \subseteq Children(x)
  /\ \A y \in Children(x) : Undecided(t, y) => y \in t.choices

TreesOK ==
  /\ sb = [x \in Nodes |-> sb[x]] /\ stack \subseteq Nodes
  /\ \A x \in Nodes : IF sb[x] = NoTrie THEN x \in blocks => Children(x) = {}
                                         ELSE x \in blocks /\ TreeOf(x, sb[x])
  /\ phase = "vote" => \A x \in stack \cap blocks : sb[x] # NoTrie

RootOK ==
  /\ RootedAtLastAccepted
  /\ blocks \subseteq Nodes /\ lastAccepted \in blocks /\ rejected \subseteq IDs
  /\ \A x \in rejected : lastAccepted \notin Ancestry[x]

TsInv == TreesOK /\ RootOK

(* A block with a tree is told from one without (snowmanBlock.sb is nil). *)
LEMMA TrieIsNoTrie ==
  ASSUME NEW t, IsTrie(t)
  PROVE  t # NoTrie
<1>1. t.inst \in UNION {[D -> Snowflakes] : D \in SUBSET BitPrefixes}
  BY DEF IsTrie
<1>2. t \in Tries
  BY <1>1 DEF IsTrie, Tries
<1> QED BY <1>2, NoBlockAssumption

-----------------------------------------------------------------------------
(* TsInv is inductive. *)

(* The top of the vote stack is a lowest block of it. *)
LEMMA TopIs ==
  ASSUME NEW ids \in SUBSET Nodes, ids # {}
  PROVE  Top(ids) \in ids /\ \A y \in ids : HeightOf[Top(ids)] <= HeightOf[y]
<1>1. \E x \in ids : \A y \in ids : HeightOf[x] <= HeightOf[y]
  BY Lowest
<1> QED BY <1>1 DEF Top

(* The children of a block are blocks that extend it by one. *)
LEMMA ChildrenAre ==
  ASSUME TsInv, NEW x, NEW y \in Children(x)
  PROVE  /\ y \in IDs /\ y \in Nodes /\ y \in blocks /\ ParentOf[y] = x
         /\ x \in Ancestry[y] /\ y \notin Ancestry[x]
         /\ Ancestry[y] = {y} \cup Ancestry[x]
         /\ y # lastAccepted \/ x \notin blocks
<1>1. y \in IDs /\ y \in Nodes /\ y \in blocks /\ ParentOf[y] = x /\ y # Genesis
  BY DEF Children, TsInv, RootOK, Nodes
<1>2. x \in Ancestry[y] /\ y \notin Ancestry[x] /\ Ancestry[y] = {y} \cup Ancestry[x]
  BY <1>1, AncestryOfChild, AncestryIs
<1>3. x \in blocks => lastAccepted \in Ancestry[x]
  BY DEF TsInv, RootOK, RootedAtLastAccepted
<1> QED BY <1>1, <1>2, <1>3

(* TsInv holds after Initialize. *)
LEMMA TsInitInv ==
  ASSUME TsInit PROVE TsInv
<1>1. /\ blocks = {Genesis} /\ lastAccepted = Genesis /\ sb = [x \in Nodes |-> NoTrie]
      /\ stack = {} /\ accepted = {} /\ rejected = {} /\ phase = "idle"
  BY DEF TsInit
<1>2. TreesOK
  <2>1. \A x : Children(x) = {}
    BY <1>1 DEF Children
  <2>2. \A x \in Nodes : sb[x] = NoTrie
    BY <1>1
  <2>3. sb = [x \in Nodes |-> sb[x]]
    BY <1>1
  <2> QED BY <1>1, <2>1, <2>2, <2>3 DEF TreesOK
<1>3. RootOK
  <2>1. Genesis \in Nodes /\ Ancestry[Genesis] = {Genesis}
    BY BlocksAssumption DEF Nodes
  <2> QED BY <1>1, <2>1 DEF RootOK, RootedAtLastAccepted
<1> QED BY <1>2, <1>3 DEF TsInv

(* Steps that leave the blocks, the trees and the decisions alone. *)
LEMMA TsInvKept ==
  ASSUME TsInv, UNCHANGED <<blocks, lastAccepted, sb, accepted, rejected>>,
         stack' \subseteq Nodes,
         phase' = "vote" => \A x \in stack' \cap blocks : sb[x] # NoTrie
  PROVE  TsInv'
<1>1. \A x : Children(x)' = Children(x)
  BY DEF Children
<1>2. \A x, t : TreeOf(x, t)' <=> TreeOf(x, t)
  BY <1>1 DEF TreeOf
<1>3. TreesOK'
  <2>1. /\ sb = [x \in Nodes |-> sb[x]]
        /\ \A x \in Nodes : IF sb[x] = NoTrie THEN x \in blocks => Children(x) = {}
                                              ELSE x \in blocks /\ TreeOf(x, sb[x])
    BY DEF TsInv, TreesOK
  <2> QED BY <1>1, <1>2, <2>1 DEF TreesOK
<1>4. RootOK'
  BY DEF TsInv, RootOK, RootedAtLastAccepted
<1> QED BY <1>3, <1>4 DEF TsInv

(* Add takes only blocks that are new and were never decided. *)
LEMMA AddedIsNew ==
  ASSUME TsInv, NEW x \in IDs, ~Processing(x), ParentOf[x] \in blocks
  PROVE  /\ x \notin blocks /\ x \notin Ancestry[lastAccepted]
         /\ x \notin accepted /\ x \notin rejected /\ lastAccepted \in Ancestry[x]
         /\ x # ParentOf[x] /\ Children(x) = {}
<1> DEFINE q == ParentOf[x]
<1>1. x \in Nodes /\ x # Genesis /\ q \in Nodes /\ lastAccepted \in Nodes /\ x # q
  BY AncestryOfChild, BlocksAssumption DEF Nodes, TsInv, RootOK
<1>2. lastAccepted \in Ancestry[q] /\ Ancestry[q] \ Ancestry[lastAccepted] \subseteq blocks
  BY DEF TsInv, RootOK, RootedAtLastAccepted
<1>3. x \notin Ancestry[q]
  BY AncestryOfChild
<1>4. x \notin Ancestry[lastAccepted]
  BY <1>1, <1>2, <1>3, AncestryTransitive
<1>5. x # lastAccepted
  BY <1>2, <1>3
<1>6. x \notin blocks
  BY <1>5 DEF Processing
<1>7. x \notin accepted
  BY <1>4 DEF TsInv, RootOK, RootedAtLastAccepted
<1>8. lastAccepted \in Ancestry[x]
  BY <1>1, <1>2, AncestryIs
<1>9. x \notin rejected
  BY <1>8 DEF TsInv, RootOK
<1>10. Children(x) = {}
  <2> SUFFICES ASSUME NEW y \in Children(x) PROVE FALSE
    OBVIOUS
  <2>1. y \in blocks /\ x \in Ancestry[y]
    BY ChildrenAre
  <2>2. Ancestry[y] \ Ancestry[lastAccepted] \subseteq blocks
    BY <2>1 DEF TsInv, RootOK, RootedAtLastAccepted
  <2> QED BY <1>4, <1>6, <2>1, <2>2
<1> QED BY <1>1, <1>4, <1>6, <1>7, <1>8, <1>9, <1>10

(* Add keeps TsInv. *)
LEMMA TsAddInv ==
  ASSUME TsInv, NEW x \in IDs, TsAdd(x)
  PROVE  TsInv'
<1> DEFINE q == ParentOf[x]
<1>1. /\ phase = "idle" /\ ~Processing(x) /\ q \in blocks
      /\ blocks' = blocks \cup {x} /\ sb' = AddChild(sb, q, x)
      /\ lastAccepted' = lastAccepted /\ phase' = phase /\ stack' = stack
      /\ accepted' = accepted /\ rejected' = rejected
  BY DEF TsAdd
<1>2. /\ x \notin blocks /\ x \notin Ancestry[lastAccepted]
      /\ x \notin accepted /\ x \notin rejected /\ lastAccepted \in Ancestry[x]
      /\ x # q /\ Children(x) = {}
  BY <1>1, AddedIsNew
<1>3. x \in Nodes /\ x # Genesis /\ q \in Nodes /\ Ancestry[x] = {x} \cup Ancestry[q]
  <2>1. x \in Nodes /\ x # Genesis
    BY BlocksAssumption DEF Nodes
  <2> QED BY <2>1, AncestryIs
<1>4. RootOK'
  <2>1. \A y \in blocks' : /\ lastAccepted \in Ancestry[y]
                           /\ Ancestry[y] \ Ancestry[lastAccepted] \subseteq blocks'
    BY <1>1, <1>2, <1>3 DEF TsInv, RootOK, RootedAtLastAccepted
  <2>2. /\ (blocks' \ {lastAccepted}) \cap (accepted \cup rejected) = {}
        /\ blocks' \subseteq Nodes /\ lastAccepted \in blocks'
    BY <1>1, <1>2, <1>3 DEF TsInv, RootOK, RootedAtLastAccepted
  <2> QED BY <1>1, <2>1, <2>2 DEF TsInv, RootOK, RootedAtLastAccepted
<1>5. \A z : Children(z)' = IF z = q THEN Children(z) \cup {x} ELSE Children(z)
  BY <1>1, <1>3 DEF Children
<1>6. ASSUME NEW z \in Nodes, z # q
      PROVE  sb'[z] = sb[z] /\ Children(z)' = Children(z)
  BY <1>1, <1>5, <1>6 DEF AddChild, TsInv, TreesOK
<1>7. sb'[q] = IF sb[q] = NoTrie THEN NewTrie(x) ELSE TrieAdd(sb[q], x)
  BY <1>1, <1>3 DEF AddChild, TsInv, TreesOK
<1>8. sb'[q] # NoTrie /\ TreeOf(q, sb[q])'
  <2>1. CASE sb[q] = NoTrie
    <3>1. Children(q)' = {x}
      BY <1>1, <1>3, <1>5, <2>1 DEF TsInv, TreesOK
    <3>2. TrieOK(NewTrie(x)) /\ NewTrie(x).choices = {x}
      BY NewTrieOK
    <3>3. NewTrie(x) # NoTrie
      BY <3>2, TrieIsNoTrie DEF TrieOK
    <3> QED BY <1>7, <2>1, <3>1, <3>2, <3>3 DEF TreeOf
  <2>2. CASE sb[q] # NoTrie
    <3> DEFINE t == sb[q]
               u == TrieAdd(t, x)
    <3>1. TrieOK(t) /\ t.choices \subseteq Children(q)
            /\ \A y \in Children(q) : Undecided(t, y) => y \in t.choices
      BY <1>3, <2>2 DEF TsInv, TreesOK, TreeOf
    <3> HIDE DEF t
    <3>2. /\ TrieOK(u) /\ Later(t, u)
          /\ u.choices = IF Undecided(t, x) THEN t.choices \cup {x} ELSE t.choices
      BY <3>1, TrieAddOK
    <3> HIDE DEF u
    <3>3. ASSUME NEW y \in Children(q) \cup {x}, Undecided(u, y) PROVE y \in u.choices
      <4>1. y \in IDs
        BY ChildrenAre
      <4>2. Undecided(t, y)
        BY <3>1, <3>2, <3>3, <4>1, UndecidedShrinks
      <4> QED BY <3>1, <3>2, <4>2
    <3>4. u.choices \subseteq Children(q) \cup {x}
      BY <3>1, <3>2
    <3>5. u # NoTrie
      BY <3>2, TrieIsNoTrie DEF TrieOK
    <3>6. sb'[q] = u /\ Children(q)' = Children(q) \cup {x}
      BY <1>5, <1>7, <2>2 DEF t, u
    <3> QED BY <3>2, <3>3, <3>4, <3>5, <3>6 DEF TreeOf
  <2> QED BY <2>1, <2>2
<1>9. ASSUME NEW z \in Nodes
      PROVE  IF sb'[z] = NoTrie THEN z \in blocks' => Children(z)' = {}
                                ELSE z \in blocks' /\ TreeOf(z, sb[z])'
  <2>1. CASE z = q
    BY <1>1, <1>8, <2>1
  <2>2. CASE z = x
    <3>1. sb[z] = NoTrie
      BY <1>2, <2>2 DEF TsInv, TreesOK
    <3> QED BY <1>2, <1>6, <2>2, <3>1
  <2>3. CASE z # q /\ z # x
    <3>1. sb'[z] = sb[z] /\ Children(z)' = Children(z) /\ (z \in blocks' <=> z \in blocks)
      BY <1>1, <1>6, <2>3
    <3>2. IF sb[z] = NoTrie THEN z \in blocks => Children(z) = {}
                            ELSE z \in blocks /\ TreeOf(z, sb[z])
      BY DEF TsInv, TreesOK
    <3>3. TreeOf(z, sb[z]) => TreeOf(z, sb[z])'
      BY <3>1 DEF TreeOf
    <3> QED BY <3>1, <3>2, <3>3
  <2> QED BY <2>1, <2>2, <2>3
<1>10. TreesOK'
  <2>1. sb' = [z \in Nodes |-> sb'[z]]
    BY <1>1 DEF AddChild, TsInv, TreesOK
  <2>2. stack' \subseteq Nodes /\ phase' # "vote"
    BY <1>1 DEF TsInv, TreesOK
  <2> QED BY <1>9, <2>1, <2>2 DEF TreesOK
<1> QED BY <1>4, <1>10 DEF TsInv

(* Pushing the votes keeps TsInv. *)
LEMMA TsRecordPollInv ==
  ASSUME TsInv, NEW votes, TsRecordPoll(votes)
  PROVE  TsInv'
<1>1. PICK p : stack' = VoteStack(p)
  BY DEF TsRecordPoll
<1>2. stack' \subseteq Nodes
  BY <1>1 DEF VoteStack, TsInv, RootOK
<1>3. ASSUME NEW x \in stack' PROVE sb[x] # NoTrie
  <2>1. Children(x) # {} /\ x \in blocks
    BY <1>1, EnoughVotes DEF VoteStack
  <2> QED BY <1>2, <2>1 DEF TsInv, TreesOK
<1>4. UNCHANGED <<blocks, lastAccepted, sb, accepted, rejected>>
  BY DEF TsRecordPoll
<1> QED BY <1>2, <1>3, <1>4, TsInvKept

(* A poll keeps the tree of the block it is recorded for, and the tree's   *)
(* preference is a child of that block.                                    *)
LEMMA RecordedOK ==
  ASSUME TsInv, NEW x \in blocks, sb[x] # NoTrie
  PROVE  /\ TreeOf(x, Recorded(x)) /\ Later(sb[x], Recorded(x))
         /\ TriePreference(Recorded(x)) \in Children(x)
<1> DEFINE t == sb[x]
           s == IF x \in shouldFalter THEN TrieUnsuccessful(t) ELSE t
           u == TriePoll(s, ChildVotes(poll, x))
<1>0. u = Recorded(x)
  BY DEF Recorded
<1>1. TrieOK(t) /\ t.choices \subseteq Children(x)
        /\ \A y \in Children(x) : Undecided(t, y) => y \in t.choices
  BY DEF TsInv, TreesOK, TreeOf, RootOK
<1>2. Children(x) \subseteq IDs /\ DOMAIN ChildVotes(poll, x) = Children(x)
  BY ChildrenAre DEF ChildVotes
<1> HIDE DEF t
<1>3. TrieOK(s) /\ Later(t, s) /\ s.choices = t.choices
  <2>1. Later(t, t)
    BY DEF Later
  <2> QED BY <1>1, <2>1, TrieUnsuccessfulOK
<1> HIDE DEF s
<1>4. ASSUME NEW y \in Children(x), Undecided(s, y) PROVE y \in s.choices
  BY <1>1, <1>2, <1>3, <1>4, UndecidedShrinks
<1>5. TrieOK(u) /\ Later(s, u) /\ u.choices = s.choices
  BY <1>2, <1>3, <1>4, TriePollOK
<1> HIDE DEF u
<1>6. ASSUME NEW y \in Children(x), Undecided(u, y) PROVE y \in u.choices
  BY <1>2, <1>3, <1>4, <1>5, <1>6, UndecidedShrinks
<1>7. TriePreference(u) \in Children(x)
  BY <1>1, <1>3, <1>5, PreferenceIs
<1>8. Later(t, u)
  BY <1>3, <1>5 DEF Later
<1> QED BY <1>0, <1>1, <1>3, <1>5, <1>6, <1>7, <1>8 DEF TreeOf, t

(* What acceptPreferredChild leaves: the block accepted and what extends   *)
(* it.  What it rejects conflicts with that block.                         *)
LEMMA AcceptedIs ==
  ASSUME TsInv, NEW w \in Children(lastAccepted)
  PROVE  LET lost == Losers(lastAccepted, w)
             left == blocks \ ({lastAccepted} \cup lost)
         IN  /\ w \in left
             /\ \A z \in left : /\ w \in Ancestry[z] /\ Ancestry[z] \ Ancestry[w] \subseteq left
                                /\ {y \in left \ {Genesis} : ParentOf[y] = z} = Children(z)
             /\ lastAccepted \notin lost /\ lost \subseteq IDs
             /\ \A z \in lost : z \in blocks /\ w \notin Ancestry[z] /\ z \notin Ancestry[w]
<1> DEFINE a == lastAccepted
           lost == Losers(a, w)
           left == blocks \ ({a} \cup lost)
<1>1. /\ w \in IDs /\ w \in Nodes /\ w \in blocks /\ ParentOf[w] = a /\ a \in Ancestry[w]
      /\ w \notin Ancestry[a] /\ Ancestry[w] = {w} \cup Ancestry[a]
  BY ChildrenAre
<1>2. a \in Nodes /\ a \in blocks /\ blocks \subseteq Nodes /\ a \in Ancestry[a]
  BY AncestryIs DEF TsInv, RootOK
<1>3. \A x \in blocks : a \in Ancestry[x] /\ Ancestry[x] \ Ancestry[a] \subseteq blocks
  BY DEF TsInv, RootOK, RootedAtLastAccepted
<1>4. ASSUME NEW y \in Children(a), y # w PROVE y \notin Ancestry[w] /\ w \notin Ancestry[y]
  <2>1. y \notin Ancestry[a] /\ Ancestry[y] = {y} \cup Ancestry[a]
    BY ChildrenAre
  <2> QED BY <1>1, <1>4, <2>1
<1>5. a \notin lost /\ w \notin lost
  <2>1. \A y \in Children(a) : y \notin Ancestry[a]
    BY ChildrenAre
  <2> QED BY <1>4, <2>1 DEF Losers
<1>6. w \in left
  BY <1>1, <1>2, <1>5
<1>7. ASSUME NEW z \in left PROVE w \in Ancestry[z]
  <2>1. z \in Nodes /\ a \in Ancestry[z] /\ a # z /\ z \notin lost /\ z \in blocks
    BY <1>2, <1>3
  <2>2. PICK y \in Ancestry[z] : y \in IDs /\ ParentOf[y] = a
    BY <2>1, AncestryChild
  <2>3. y \notin Ancestry[a] /\ y # Genesis
    BY <2>2, AncestryOfChild, BlocksAssumption
  <2>4. y \in Children(a)
    BY <1>3, <2>1, <2>2, <2>3 DEF Children
  <2> QED BY <2>1, <2>2, <2>4 DEF Losers
<1>8. ASSUME NEW z \in left, NEW x \in Ancestry[z], x \notin Ancestry[w] PROVE x \in left
  <2>1. z \in Nodes /\ z \in blocks /\ z \notin lost
    BY <1>2
  <2>2. x \in blocks /\ x # a
    BY <1>1, <1>3, <1>8, <2>1
  <2>3. x \notin lost
    <3>1. \A y : y \in Ancestry[x] => y \in Ancestry[z]
      BY <2>1, AncestryTransitive
    <3> QED BY <2>1, <3>1 DEF Losers
  <2> QED BY <2>2, <2>3
<1>9. ASSUME NEW z \in left, NEW y \in Children(z) PROVE y \in left
  <2>1. y \in blocks /\ y # a /\ ParentOf[y] = z /\ Ancestry[y] = {y} \cup Ancestry[z]
    BY ChildrenAre
  <2>2. y \notin lost
    <3> SUFFICES ASSUME NEW c \in Children(a) \ {w}, c \in Ancestry[y] PROVE FALSE
      BY DEF Losers
    <3>1. c # y
      <4>1. ParentOf[c] = a /\ z # a
        BY ChildrenAre
      <4> QED BY <2>1, <4>1
    <3>2. c \in Ancestry[z]
      BY <2>1, <3>1
    <3> QED BY <3>2 DEF Losers
  <2> QED BY <2>1, <2>2
<1>10. ASSUME NEW z \in left PROVE {y \in left \ {Genesis} : ParentOf[y] = z} = Children(z)
  BY <1>9 DEF Children
<1>11. ASSUME NEW z \in lost
       PROVE  z \in IDs /\ z \in blocks /\ w \notin Ancestry[z] /\ z \notin Ancestry[w]
  <2>1. PICK y \in Children(a) : y # w /\ y \in Ancestry[z] /\ z \in blocks
    BY DEF Losers
  <2>2. z \in Nodes /\ y \in IDs
    BY <1>2, <2>1, ChildrenAre
  <2>3. z # Genesis
    BY <2>1, <2>2, AncestryIs, BlocksAssumption
  <2>4. HeightOf[y] = HeightOf[a] + 1 /\ HeightOf[w] = HeightOf[a] + 1
    <3>1. ParentOf[y] = a
      BY ChildrenAre
    <3> QED BY <1>1, <2>2, <3>1, BlocksAssumption
  <2>5. HeightOf[y] <= HeightOf[w]
    <3>1. HeightOf[a] \in Nat
      BY <1>2, AncestryIs
    <3> QED BY <2>4, <3>1
  <2>6. w \notin Ancestry[z]
    <3> SUFFICES ASSUME w \in Ancestry[z] PROVE FALSE
      OBVIOUS
    <3>1. y \in Ancestry[w]
      BY <2>1, <2>2, <2>5, AncestryLinear
    <3> QED BY <1>4, <2>1, <3>1
  <2>7. z \notin Ancestry[w]
    <3> SUFFICES ASSUME z \in Ancestry[w] PROVE FALSE
      OBVIOUS
    <3>1. y \in Ancestry[w]
      BY <1>1, <2>1, AncestryTransitive
    <3> QED BY <1>4, <2>1, <3>1
  <2> QED BY <2>1, <2>2, <2>3, <2>6, <2>7 DEF Nodes
<1> QED BY <1>5, <1>6, <1>7, <1>8, <1>10, <1>11

(* acceptPreferredChild leaves a tree under the new last accepted block. *)
LEMMA AcceptInv ==
  ASSUME TsInv, NEW w \in Children(lastAccepted),
         AcceptPreferredChild(lastAccepted, w)
  PROVE  RootOK'
<1> DEFINE a == lastAccepted
           lost == Losers(a, w)
           left == blocks \ ({a} \cup lost)
<1>1. /\ lastAccepted' = w /\ accepted' = accepted \cup {w}
      /\ rejected' = rejected \cup lost /\ blocks' = left
  BY DEF AcceptPreferredChild
<1>2. /\ w \in left
      /\ \A z \in left : w \in Ancestry[z] /\ Ancestry[z] \ Ancestry[w] \subseteq left
      /\ a \notin lost /\ lost \subseteq IDs
      /\ \A z \in lost : z \in blocks /\ w \notin Ancestry[z]
  BY AcceptedIs
<1>3. w \in IDs /\ w # Genesis /\ Ancestry[w] = {w} \cup Ancestry[a] /\ w \in Nodes
        /\ a \in Ancestry[w]
  BY ChildrenAre, BlocksAssumption
<1>4. /\ (blocks \ {a}) \cap (accepted \cup rejected) = {}
      /\ accepted \cap rejected = {} /\ accepted = Ancestry[a] \ {Genesis}
      /\ blocks \subseteq Nodes /\ rejected \subseteq IDs
      /\ \A x \in rejected : a \notin Ancestry[x]
  BY DEF TsInv, RootOK, RootedAtLastAccepted
<1> HIDE DEF lost, a
<1>5. (blocks' \ {w}) \cap (accepted' \cup rejected') = {}
  BY <1>1, <1>4
<1>6. accepted' \cap rejected' = {}
  BY <1>1, <1>2, <1>4
<1>7. accepted' = Ancestry[w] \ {Genesis}
  BY <1>1, <1>3, <1>4
<1>8. ASSUME NEW x \in rejected' PROVE w \notin Ancestry[x]
  <2>1. CASE x \in lost
    BY <1>2, <2>1
  <2>2. CASE x \in rejected
    <3>1. x \in Nodes /\ a \notin Ancestry[x]
      BY <1>4, <2>2 DEF Nodes
    <3> QED BY <1>3, <3>1, AncestryTransitive
  <2> QED BY <1>1, <2>1, <2>2
<1> QED BY <1>1, <1>2, <1>4, <1>5, <1>6, <1>7, <1>8 DEF RootOK, RootedAtLastAccepted

(* A turn of the loop of vote keeps TsInv. *)
LEMMA TsVoteInv ==
  ASSUME TsInv, TsVote
  PROVE  TsInv'
<1> DEFINE x == Top(stack)
           tree == Recorded(x)
           w == TriePreference(tree)
<1>1. phase = "vote" /\ stack # {} /\ phase' = phase /\ stack \subseteq Nodes
  BY DEF TsVote, TsInv, TreesOK
<1>2. x \in stack
  BY <1>1, TopIs
<1>3. CASE x \notin blocks
  <2>1. stack' = {} /\ UNCHANGED <<blocks, lastAccepted, sb, accepted, rejected>>
    BY <1>3 DEF TsVote
  <2> QED BY <2>1, TsInvKept
<1>4. CASE x \in blocks
  <2>1. PICK next : Recording(x, next)
    BY <1>4 DEF TsVote
  <2>2. stack' = stack \ {x}
    BY <1>4 DEF TsVote
  <2>3. sb[x] # NoTrie /\ x \in Nodes
    BY <1>1, <1>2, <1>4 DEF TsInv, TreesOK
  <2>4. TreeOf(x, tree) /\ w \in Children(x) /\ tree # NoTrie
    BY Zenon, <1>4, <2>3, RecordedOK, TrieIsNoTrie DEF TreeOf, TrieOK
  <2>5. sb' = [z \in Nodes |-> IF z \notin blocks' THEN NoTrie
                               ELSE IF z = x THEN tree ELSE sb[z]]
    BY Zenon, <2>1 DEF Recording
  <2>6. /\ RootOK' /\ blocks' \subseteq blocks
        /\ \A z \in blocks' : Children(z)' = Children(z)
    <3>1. CASE CanAccept(x, tree)
      <4>1. AcceptPreferredChild(x, w) /\ x = lastAccepted
        BY <2>1, <3>1 DEF Recording, CanAccept
      <4>2. RootOK'
        BY <2>4, <4>1, AcceptInv
      <4>3. blocks' = blocks \ ({x} \cup Losers(x, w))
        BY <4>1 DEF AcceptPreferredChild
      <4>4. \A z \in blocks' : {y \in blocks' \ {Genesis} : ParentOf[y] = z} = Children(z)
        BY Zenon, <2>4, <4>1, <4>3, AcceptedIs
      <4> QED BY <4>2, <4>3, <4>4 DEF Children
    <3>2. CASE ~CanAccept(x, tree)
      <4>1. UNCHANGED <<lastAccepted, accepted, rejected, blocks>>
        BY Zenon, <2>1, <3>2 DEF Recording
      <4> QED BY <4>1 DEF Children, TsInv, RootOK, RootedAtLastAccepted
    <3> QED BY <3>1, <3>2
  <2> HIDE DEF tree, x
  <2>7. ASSUME NEW z \in Nodes
        PROVE  IF sb'[z] = NoTrie THEN z \in blocks' => Children(z)' = {}
                                  ELSE z \in blocks' /\ TreeOf(z, sb[z])'
    <3>1. CASE z \notin blocks'
      BY <2>5, <3>1
    <3>2. CASE z \in blocks' /\ z = x
      <4>1. sb'[z] = tree /\ Children(z)' = Children(z)
        BY <2>5, <2>6, <3>2
      <4>2. TreeOf(z, sb[z])'
        BY <2>4, <3>2, <4>1 DEF TreeOf
      <4> QED BY <2>4, <3>2, <4>1, <4>2
    <3>3. CASE z \in blocks' /\ z # x
      <4>1. sb'[z] = sb[z] /\ Children(z)' = Children(z) /\ z \in blocks
        BY <2>5, <2>6, <3>3
      <4>2. IF sb[z] = NoTrie THEN Children(z) = {} ELSE TreeOf(z, sb[z])
        BY <4>1 DEF TsInv, TreesOK
      <4>3. TreeOf(z, sb[z]) => TreeOf(z, sb[z])'
        BY <4>1 DEF TreeOf
      <4> QED BY <3>3, <4>1, <4>2, <4>3
    <3> QED BY <3>1, <3>2, <3>3
  <2>8. ASSUME NEW z \in stack' \cap blocks' PROVE sb'[z] # NoTrie
    <3>1. sb[z] # NoTrie /\ z \in Nodes
      BY <1>1, <2>2, <2>6 DEF TsInv, TreesOK
    <3> QED BY <2>4, <2>5, <3>1
  <2>9. sb' = [z \in Nodes |-> sb'[z]] /\ stack' \subseteq Nodes
    BY <1>1, <2>2, <2>5
  <2>10. TreesOK'
    BY <2>7, <2>8, <2>9 DEF TreesOK
  <2> QED BY <2>6, <2>10 DEF TsInv
<1> QED BY <1>3, <1>4

(* Every step keeps TsInv. *)
LEMMA TsNextInv ==
  ASSUME TsInv, [TsNext]_tsVars
  PROVE  TsInv'
<1>1. CASE \E x \in IDs : TsAdd(x)
  BY <1>1, TsAddInv
<1>2. CASE \E votes \in Votes : TsRecordPoll(votes)
  BY <1>2, TsRecordPollInv
<1>3. CASE TsVote
  BY <1>3, TsVoteInv
<1>4. CASE TsVoteFails
  <2>1. /\ UNCHANGED <<blocks, lastAccepted, sb, accepted, rejected>>
        /\ stack' = stack /\ phase' = "halted"
    BY <1>4 DEF TsVoteFails
  <2> QED BY <2>1, TsInvKept DEF TsInv, TreesOK
<1>5. CASE TsEndPoll
  <2>1. /\ UNCHANGED <<blocks, lastAccepted, sb, accepted, rejected>>
        /\ stack' = stack /\ phase' = "idle"
    BY <1>5 DEF TsEndPoll
  <2> QED BY <2>1, TsInvKept DEF TsInv, TreesOK
<1>6. CASE UNCHANGED tsVars
  <2>1. UNCHANGED <<blocks, lastAccepted, sb, accepted, rejected, stack, phase>>
    BY <1>6 DEF tsVars
  <2> QED BY <2>1, TsInvKept DEF TsInv, TreesOK
<1> QED BY <1>1, <1>2, <1>3, <1>4, <1>5, <1>6 DEF TsNext

(* Add and RecordPoll: TsInv is inductive. *)
THEOREM TsInvHolds == TsSpec => []TsInv
<1>1. TsInit => TsInv
  BY TsInitInv
<1>2. TsInv /\ [TsNext]_tsVars => TsInv'
  BY TsNextInv
<1> QED BY <1>1, <1>2, PTL DEF TsSpec

(* The blocks that consensus keeps form a tree under the last accepted     *)
(* block, none of them was decided, and what was accepted is exactly that  *)
(* block's ancestry: for every tree of blocks, any parameters that Verify  *)
(* admits, and every sequence of Add and RecordPoll.                       *)
THEOREM SnowmanRooted == TsSpec => []RootedAtLastAccepted
<1>1. TsInv => RootedAtLastAccepted
  BY DEF TsInv, RootOK
<1> QED BY <1>1, TsInvHolds, PTL

-----------------------------------------------------------------------------
(* Topological implements Finality. *)

(* acceptPreferredChild is a decision of Finality. *)
LEMMA AcceptDecides ==
  ASSUME TsInv, NEW w \in Children(lastAccepted), AcceptPreferredChild(lastAccepted, w)
  PROVE  Promise!Decide(w)
<1> DEFINE lost == Losers(lastAccepted, w)
<1>1. /\ lastAccepted' = w /\ accepted' = accepted \cup {w} /\ rejected' = rejected \cup lost
  BY DEF AcceptPreferredChild
<1>2. w \in IDs /\ ParentOf[w] = lastAccepted /\ w \in blocks /\ w # lastAccepted
  BY ChildrenAre DEF TsInv, RootOK
<1>3. w \notin accepted \cup rejected
  BY <1>2 DEF TsInv, RootOK, RootedAtLastAccepted
<1>4. rejected' \subseteq IDs \ accepted'
  <2>1. RootOK'
    BY AcceptInv
  <2>2. rejected' \subseteq IDs /\ accepted' \cap rejected' = {}
    BY <2>1 DEF RootOK, RootedAtLastAccepted
  <2> QED BY <2>2
<1>5. ASSUME NEW y \in rejected' \ rejected PROVE Promise!Conflicts(w, y)
  <2>1. y \in lost
    BY <1>1
  <2>2. w \notin Ancestry[y] /\ y \notin Ancestry[w]
    BY <2>1, AcceptedIs
  <2> QED BY <2>2 DEF Promise!Conflicts
<1> QED BY <1>1, <1>2, <1>3, <1>4, <1>5 DEF Promise!Decide

(* What snowman consensus tells the VM is what Finality promises: one      *)
(* chain, block after block, rejections only of what conflicts with it,    *)
(* and nothing is revised.  Only acceptPreferredChild decides anything.    *)
THEOREM SnowmanDecidesOneChain == TsSpec => DecidesOneChain
<1>1. TsInit => Promise!FinalityInit
  BY DEF TsInit, Promise!FinalityInit
<1>2. TsInv /\ [TsNext]_tsVars => [Promise!FinalityNext]_(Promise!decisions)
  <2> SUFFICES ASSUME TsInv, [TsNext]_tsVars
               PROVE  [Promise!FinalityNext]_(Promise!decisions)
    OBVIOUS
  <2> USE DEF Promise!decisions
  <2>1. CASE \E x \in IDs : TsAdd(x)
    BY <2>1 DEF TsAdd
  <2>2. CASE \E votes \in Votes : TsRecordPoll(votes)
    BY <2>2 DEF TsRecordPoll
  <2>3. CASE TsVote
    <3> DEFINE x == Top(stack)
               w == TriePreference(Recorded(x))
    <3>1. CASE x \in blocks /\ CanAccept(x, Recorded(x))
      <4>1. AcceptPreferredChild(x, w) /\ x = lastAccepted
        BY <2>3, <3>1 DEF TsVote, Recording, CanAccept
      <4>2. x \in stack /\ phase = "vote"
        BY <2>3, TopIs DEF TsVote, TsInv, TreesOK
      <4>3. sb[x] # NoTrie
        BY <3>1, <4>2 DEF TsInv, TreesOK
      <4>4. w \in Children(x)
        BY <3>1, <4>3, RecordedOK
      <4>5. Promise!Decide(w) /\ w \in IDs
        BY <4>1, <4>4, AcceptDecides, ChildrenAre
      <4> QED BY <4>5 DEF Promise!FinalityNext
    <3>2. CASE ~(x \in blocks /\ CanAccept(x, Recorded(x)))
      BY <2>3, <3>2 DEF TsVote, Recording
    <3> QED BY <3>1, <3>2
  <2>4. CASE TsVoteFails
    BY <2>4 DEF TsVoteFails
  <2>5. CASE TsEndPoll
    BY <2>5 DEF TsEndPoll
  <2>6. CASE UNCHANGED tsVars
    BY <2>6 DEF tsVars
  <2> QED BY <2>1, <2>2, <2>3, <2>4, <2>5, <2>6 DEF TsNext
<1> QED BY <1>1, <1>2, TsInvHolds, PTL DEF TsSpec, DecidesOneChain, Promise!FinalitySpec
=============================================================================
