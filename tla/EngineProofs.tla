----------------------------- MODULE EngineProofs -----------------------------
(***************************************************************************)
(* Theorems about the polls and the engine of a snowman chain, for any     *)
(* blocks, validators, samples and answers.                                *)
(***************************************************************************)
EXTENDS SnowmanEngine, Polls, SnowLemmas

-----------------------------------------------------------------------------
(* Polls.  Votes that are in and those that are out are K at most, and a   *)
(* poll that has the flag finished is settled.                             *)

PollRecords == [id : Nat, polled : [Validators -> Nat], votes : [IDs -> Nat], finished : BOOLEAN]

PollOK(p) ==
  /\ p \in PollRecords
  /\ Count(p.votes, IDs) + Remaining(p) <= K
  /\ p.finished => Settled(p)

(* A finished poll waits for an older one, and IDs are given in order.     *)
PollsInv ==
  /\ requests \in 0..MaxPolls
  /\ known \subseteq IDs
  /\ polls \in Seq(PollRecords) /\ Len(polls) <= requests
  /\ \A p \in PollRecords, i \in 1..Len(polls) :
       p = polls[i] => PollOK(p) /\ p.id = requests - Len(polls) + i
  /\ results = [i \in 1..(requests - Len(polls)) |-> i]
  /\ \A p \in PollRecords : polls # <<>> /\ p = polls[1] => ~Finished(p)

(* A sum of which one term is changed. *)
LEMMA SumExcept ==
  ASSUME NEW S, IsFiniteSet(S), NEW f \in [S -> Nat], NEW x \in S, NEW n \in Nat, NEW T \in SUBSET S
  PROVE  /\ x \notin T => Count([f EXCEPT ![x] = n], T) = Count(f, T)
         /\ x \in T => /\ Count([f EXCEPT ![x] = n], T) + f[x] = Count(f, T) + n
                       /\ f[x] <= Count(f, T)
         /\ Count(f, T) \in Nat /\ Count([f EXCEPT ![x] = n], T) \in Nat
<1> DEFINE g == [f EXCEPT ![x] = n]
<1>1. IsFiniteSet(T) /\ IsFiniteSet(T \ {x})
  BY FS_Subset
<1>2. /\ g \in [S -> Nat] /\ g[x] = n /\ \A y \in S : y # x => g[y] = f[y]
      /\ \A y \in T : f[y] \in Nat /\ g[y] \in Nat
  OBVIOUS
<1> HIDE DEF g
<1>3. Sum(f, T \ {x}) = Sum(g, T \ {x})
  BY <1>1, <1>2, SumCongruent
<1>4. Sum(f, T) \in Nat /\ Sum(g, T) \in Nat /\ Sum(f, T \ {x}) \in Nat
  BY <1>1, <1>2, SumNat
<1>5. CASE x \notin T
  BY <1>3, <1>4, <1>5, CountIsSum, T \ {x} = T DEF g
<1>6. CASE x \in T
  <2>1. Sum(f, T) = f[x] + Sum(f, T \ {x}) /\ Sum(g, T) = g[x] + Sum(g, T \ {x})
    BY <1>1, <1>2, <1>6, SumRemove
  <2> QED BY <1>2, <1>3, <1>4, <1>6, <2>1, CountIsSum DEF g
<1> QED BY <1>5, <1>6

(* What is known does not change, and so neither does what a poll is.      *)
LEMMA SameGraph ==
  ASSUME known' = known, NEW p
  PROVE  /\ VoteGraph(p)' = VoteGraph(p)
         /\ \A ids : TransitiveVotes(p, ids)' = TransitiveVotes(p, ids)
<1>1. \A x : GraphAncestry(x)' = GraphAncestry(x)
  BY DEF GraphAncestry
<1>2. VoteGraph(p)' = VoteGraph(p)
  BY <1>1 DEF VoteGraph
<1>3. ASSUME NEW ids PROVE TransitiveVotes(p, ids)' = TransitiveVotes(p, ids)
  <2>1. {y \in IDs : GraphAncestry(y)' \cap ids # {}} = {y \in IDs : GraphAncestry(y) \cap ids # {}}
    BY <1>1
  <2> QED BY <2>1 DEF TransitiveVotes
<1> QED BY <1>2, <1>3

(* Whether it is finished or settled does not change either. *)
LEMMA SameFinished ==
  ASSUME known' = known, NEW p
  PROVE  /\ Finished(p)' <=> Finished(p)
         /\ Settled(p)' <=> Settled(p)
<1>1. VoteGraph(p)' = VoteGraph(p) /\ \A ids : TransitiveVotes(p, ids)' = TransitiveVotes(p, ids)
  BY SameGraph
<1>2. Remaining(p)' = Remaining(p)
  BY DEF Remaining
<1>3. VoteCounts(p)' = VoteCounts(p)
  BY <1>1 DEF VoteCounts
<1>4. Finished(p)' <=> Finished(p)
  BY <1>2, <1>3 DEF Finished
<1>5. Settled(p)' <=> Settled(p)
  BY <1>1, <1>2 DEF Settled
<1> QED BY <1>4, <1>5

(* A new poll is not finished: all its K answers are out. *)
LEMMA NewPollOK ==
  ASSUME NEW r \in 1..MaxPolls,
         NEW p, p = [id |-> r, polled |-> SampleOf[r], votes |-> NoVotes, finished |-> FALSE]
  PROVE  PollOK(p) /\ ~Finished(p)
<1>1. p \in PollRecords
  BY PollsAssumption DEF PollRecords, NoVotes
<1>2. Remaining(p) = K /\ K > 0 /\ K \in Nat /\ AlphaPreference \in Nat /\ AlphaPreference <= K
  BY PollsAssumption, ParametersVerify DEF Remaining
<1>3. Count(p.votes, IDs) = 0
  <2>1. Sum(NoVotes, IDs) = 0
    BY SumPositive, IDsFinite DEF NoVotes
  <2> QED BY <2>1, CountIsSum
<1>4. VoteCounts(p) = {}
  <2>1. {y \in IDs : p.votes[y] > 0} = {}
    BY DEF NoVotes
  <2>2. VoteGraph(p) = {}
    BY <2>1 DEF VoteGraph
  <2> QED BY <2>2 DEF VoteCounts
<1>5. ~p.finished
  OBVIOUS
<1>6. ~Finished(p)
  <2>1. Remaining(p) # 0 /\ ~(Count(p.votes, IDs) + Remaining(p) < AlphaPreference)
    BY <1>2, <1>3
  <2> QED BY Zenon, <1>4, <1>5, <2>1 DEF Finished
<1> QED BY <1>1, <1>2, <1>3, <1>5, <1>6 DEF PollOK

(* Blocks without votes do not count. *)
LEMMA CountVoted ==
  ASSUME NEW f \in [IDs -> Nat], NEW S \in SUBSET IDs, NEW T \in SUBSET S, \A y \in S \ T : f[y] = 0
  PROVE  Count(f, S) = Count(f, T)
<1>1. IsFiniteSet(T) /\ IsFiniteSet(S \ T) /\ T \cap (S \ T) = {} /\ T \cup (S \ T) = S
  BY IDsFinite, FS_Subset
<1>2. Sum(f, S \ T) = 0
  BY <1>1, SumPositive
<1>3. Sum(f, S) = Sum(f, T) + Sum(f, S \ T)
  <2>1. Sum(f, T \cup (S \ T)) = Sum(f, T) + Sum(f, S \ T)
    BY <1>1, SumUnion
  <2> QED BY <1>1, <2>1
<1>4. Sum(f, T) \in Nat
  BY <1>1, SumNat
<1> QED BY <1>2, <1>3, <1>4, CountIsSum

(* What the sums of a poll are. *)
LEMMA PollSums ==
  ASSUME NEW p \in PollRecords
  PROVE  /\ Remaining(p) \in Nat /\ Count(p.votes, IDs) \in Nat
         /\ \A ids : /\ TransitiveVotes(p, ids) \in Nat
                     /\ TransitiveVotes(p, ids) <= Count(p.votes, IDs)
<1>1. p.votes \in [IDs -> Nat] /\ p.polled \in [Validators -> Nat]
  BY DEF PollRecords
<1>2. Remaining(p) \in Nat
  BY <1>1, PollsAssumption, SumNat, CountIsSum DEF Remaining
<1>3. ASSUME NEW ids
      PROVE  TransitiveVotes(p, ids) \in Nat /\ TransitiveVotes(p, ids) <= Count(p.votes, IDs)
  <2>1. {y \in IDs : GraphAncestry(y) \cap ids # {}} \in SUBSET IDs
    OBVIOUS
  <2> QED BY <1>1, <2>1, CountNat, CountMonotonic DEF TransitiveVotes
<1>4. Count(p.votes, IDs) \in Nat
  BY <1>1, CountNat
<1> QED BY <1>2, <1>3, <1>4

(* Only the blocks of the vote graph count. *)
LEMMA VotesInGraph ==
  ASSUME NEW p \in PollRecords, NEW ids
  PROVE  TransitiveVotes(p, ids) = TransitiveVotes(p, ids \cap VoteGraph(p))
<1> DEFINE S == {y \in IDs : GraphAncestry(y) \cap ids # {}}
           T == {y \in IDs : GraphAncestry(y) \cap (ids \cap VoteGraph(p)) # {}}
<1>1. p.votes \in [IDs -> Nat]
  BY DEF PollRecords
<1>2. ASSUME NEW y \in S \ T PROVE p.votes[y] = 0
  <2> SUFFICES ASSUME p.votes[y] > 0 PROVE FALSE
    BY <1>1
  <2>1. GraphAncestry(y) \subseteq VoteGraph(p)
    BY DEF VoteGraph
  <2> QED BY <2>1
<1>3. S \in SUBSET IDs /\ T \in SUBSET S
  OBVIOUS
<1> HIDE DEF S, T
<1>4. Count(p.votes, S) = Count(p.votes, T)
  BY <1>1, <1>2, <1>3, CountVoted
<1> QED BY <1>4 DEF TransitiveVotes, S, T

(* The vote graph has the parents of the known blocks in it. *)
LEMMA GraphHasParents ==
  ASSUME known \subseteq IDs, NEW p, NEW z \in VoteGraph(p) \cap known
  PROVE  ParentOf[z] \in VoteGraph(p)
<1>1. PICK y \in IDs : p.votes[y] > 0 /\ z \in GraphAncestry(y)
  BY DEF VoteGraph
<1>2. y \in known /\ z \in Ancestry[y]
  BY <1>1, AncestryIs DEF GraphAncestry, Nodes
<1>3. ParentOf[z] \in Ancestry[y]
  BY <1>2, AncestryOfChild, AncestryTransitive DEF Nodes
<1> QED BY <1>1, <1>2, <1>3 DEF VoteGraph, GraphAncestry

(* What a count that lets a poll terminate has settled. *)
LEMMA TerminateSettles ==
  ASSUME NEW n \in Nat, NEW r \in Nat, n + r <= K, ShouldTerminate(n, r),
         NEW alpha \in {AlphaPreference, AlphaConfidence}
  PROVE  (n >= alpha <=> n + r >= alpha) /\ r < AlphaPreference
<1>1. AlphaPreference \in Nat /\ AlphaConfidence \in Nat /\ AlphaPreference <= AlphaConfidence /\ K \in Nat
  BY ParametersVerify
<1>2. r < AlphaPreference
  <2>1. 2 * AlphaPreference > K
    BY ParametersVerify
  <2> QED BY <1>1, <2>1 DEF ShouldTerminate
<1> QED BY <1>1, <1>2 DEF ShouldTerminate

(* Children of a known block with a prefix in common that have votes are   *)
(* one block or one of the groups the poll counts.                         *)
LEMMA SiblingsCounted ==
  ASSUME known \subseteq IDs, NEW p \in PollRecords, NEW x \in known, NEW n \in 1..NumBits,
         NEW V, V # {},
         V = {y \in known : ParentOf[y] = ParentOf[x] /\ Prefix(y, n) = Prefix(x, n)} \cap VoteGraph(p)
  PROVE  TransitiveVotes(p, V) \in VoteCounts(p)
<1> DEFINE graph == VoteGraph(p)
           siblings(z) == {y \in graph \cap known : ParentOf[y] = z}
<1>1. PICK z \in V : TRUE
  OBVIOUS
<1>2. z \in graph /\ z \in known /\ ParentOf[z] = ParentOf[x] /\ Prefix(z, n) = Prefix(x, n)
  BY <1>1
<1>3. CASE V = {z}
  BY <1>2, <1>3 DEF VoteCounts
<1>4. CASE V # {z}
  <2>1. PICK w \in V : w # z
    BY <1>1, <1>4
  <2>2. n < NumBits
    <3> SUFFICES ASSUME n = NumBits PROVE FALSE
      BY ParametersVerify
    <3>1. w \in IDs /\ z \in IDs /\ Prefix(w, n) = Prefix(z, n)
      BY <1>2, <2>1
    <3>2. ASSUME NEW i \in Bits PROVE IDBits[w][i] = IDBits[z][i]
      <4>1. i \in 0..(n - 1)
        BY DEF Bits
      <4>2. Prefix(w, n)[i] = IDBits[w][i] /\ Prefix(z, n)[i] = IDBits[z][i]
        BY <4>1 DEF Prefix
      <4> QED BY <3>1, <4>2
    <3> QED BY <2>1, <3>1, <3>2, ParametersVerify
  <2>3. n \in 1..(NumBits - 1)
    BY <2>2, ParametersVerify
  <2> DEFINE h == {y \in IDs : Prefix(y, n) = Prefix(x, n)}
  <2>4. h \in PrefixGroups
    BY <2>3 DEF PrefixGroups
  <2>5. V = siblings(ParentOf[x]) \cap h
    OBVIOUS
  <2>6. Cardinality(V) > 1
    <3>1. IsFiniteSet(V) /\ {w, z} \subseteq V
      BY <1>1, <2>1, IDsFinite, FS_Subset
    <3>2. Cardinality({w, z}) = 2
      <4>1. IsFiniteSet({z}) /\ Cardinality({z}) = 1 /\ {w, z} = {z} \cup {w}
        BY FS_Singleton
      <4>2. Cardinality({z} \cup {w}) = Cardinality({z}) + 1
        BY <2>1, <4>1, FS_AddElement
      <4> QED BY <4>1, <4>2
    <3> QED BY <3>1, <3>2, FS_Subset, FS_CardinalityType
  <2>7. V \in Bifurcations(siblings(ParentOf[x]))
    BY <2>4, <2>5, <2>6 DEF Bifurcations
  <2>8. ParentOf[x] \in graph
    BY <1>2, GraphHasParents
  <2> QED BY <2>7, <2>8 DEF VoteCounts
<1> QED BY <1>3, <1>4

(* A poll that finishes is settled. *)
LEMMA FinishedSettles ==
  ASSUME known \subseteq IDs, NEW p \in PollRecords, Count(p.votes, IDs) + Remaining(p) <= K,
         ~p.finished, Finished(p)
  PROVE  Settled(p)
<1> DEFINE sib(x, n) == {y \in known : ParentOf[y] = ParentOf[x] /\ Prefix(y, n) = Prefix(x, n)}
<1> SUFFICES ASSUME NEW x \in known, NEW n \in 1..NumBits, NEW alpha \in {AlphaPreference, AlphaConfidence}
             PROVE  TransitiveVotes(p, sib(x, n)) >= alpha
                      <=> TransitiveVotes(p, sib(x, n)) + Remaining(p) >= alpha
  BY DEF Settled
<1> DEFINE rem == Remaining(p)
           freq == TransitiveVotes(p, sib(x, n))
           all == Count(p.votes, IDs)
           V == sib(x, n) \cap VoteGraph(p)
<1>1. rem \in Nat /\ all \in Nat /\ freq \in Nat /\ freq <= all /\ all + rem <= K
  BY PollSums
<1>2. /\ AlphaPreference \in Nat /\ AlphaConfidence \in Nat /\ K \in Nat
      /\ AlphaPreference <= AlphaConfidence /\ AlphaPreference > 0
  BY ParametersVerify, AlphaPositive
<1>3. freq = TransitiveVotes(p, V)
  BY VotesInGraph
<1>4. \/ rem = 0
      \/ all + rem < AlphaPreference
      \/ VoteCounts(p) # {} /\ \A m \in VoteCounts(p) : ShouldTerminate(m, rem)
  BY DEF Finished
<1>5. V # {} => TransitiveVotes(p, V) \in VoteCounts(p)
  BY SiblingsCounted
<1>6. \A m \in VoteCounts(p) : m \in Nat /\ m <= all
  BY PollSums DEF VoteCounts
<1> HIDE DEF rem, freq, all, V
<1>7. CASE rem = 0
  BY <1>1, <1>2, <1>7 DEF freq, rem
<1>8. CASE all + rem < AlphaPreference
  BY <1>1, <1>2, <1>8 DEF freq, rem
<1>9. CASE VoteCounts(p) # {} /\ \A m \in VoteCounts(p) : ShouldTerminate(m, rem)
  <2>1. CASE V # {}
    <3>1. ShouldTerminate(freq, rem) /\ freq + rem <= K
      BY <1>1, <1>2, <1>3, <1>5, <1>9, <2>1
    <3> QED BY <1>1, <3>1, TerminateSettles DEF freq, rem
  <2>2. CASE V = {}
    <3>1. freq = 0
      <4>1. {y \in IDs : GraphAncestry(y) \cap V # {}} = {}
        BY <2>2
      <4> QED BY <1>3, <4>1, SumEmpty, CountIsSum DEF TransitiveVotes
    <3>2. PICK m \in VoteCounts(p) : ShouldTerminate(m, rem) /\ m \in Nat /\ m + rem <= K
      BY <1>1, <1>2, <1>6, <1>9
    <3>3. rem < AlphaPreference
      BY <1>1, <3>2, TerminateSettles
    <3> QED BY <1>1, <1>2, <3>1, <3>3 DEF freq, rem
  <2> QED BY <2>1, <2>2
<1> QED BY <1>4, <1>7, <1>8, <1>9

(* An answer moves votes that were out to at most one block, so what was   *)
(* settled stays settled.                                                  *)
LEMMA AnswerSettles ==
  ASSUME NEW p \in PollRecords, NEW q \in PollRecords, NEW k \in Nat, Remaining(q) + k = Remaining(p),
         \A T \in SUBSET IDs : /\ Count(p.votes, T) <= Count(q.votes, T)
                               /\ Count(q.votes, T) <= Count(p.votes, T) + k,
         Settled(p)
  PROVE  Settled(q)
<1> DEFINE sib(x, n) == {y \in known : ParentOf[y] = ParentOf[x] /\ Prefix(y, n) = Prefix(x, n)}
<1> SUFFICES ASSUME NEW x \in known, NEW n \in 1..NumBits, NEW alpha \in {AlphaPreference, AlphaConfidence}
             PROVE  TransitiveVotes(q, sib(x, n)) >= alpha
                      <=> TransitiveVotes(q, sib(x, n)) + Remaining(q) >= alpha
  BY DEF Settled
<1> DEFINE f == TransitiveVotes(p, sib(x, n))
           g == TransitiveVotes(q, sib(x, n))
<1>1. f >= alpha <=> f + Remaining(p) >= alpha
  BY DEF Settled
<1>2. f <= g /\ g <= f + k
  <2>1. {y \in IDs : GraphAncestry(y) \cap sib(x, n) # {}} \in SUBSET IDs
    OBVIOUS
  <2> QED BY <2>1 DEF TransitiveVotes
<1>3. f \in Nat /\ g \in Nat /\ Remaining(p) \in Nat /\ Remaining(q) \in Nat
  BY PollSums
<1>4. alpha \in Nat
  BY ParametersVerify
<1> HIDE DEF f, g
<1>5. g >= alpha <=> g + Remaining(q) >= alpha
  BY <1>1, <1>2, <1>3, <1>4
<1> QED BY <1>5 DEF g

(* The flag does not matter to what a poll counts. *)
LEMMA SameCounts ==
  ASSUME NEW q, NEW r, r.votes = q.votes, r.polled = q.polled
  PROVE  /\ Remaining(r) = Remaining(q) /\ VoteCounts(r) = VoteCounts(q)
         /\ Settled(r) <=> Settled(q)
<1>1. \A ids : TransitiveVotes(r, ids) = TransitiveVotes(q, ids)
  BY DEF TransitiveVotes
<1>2. VoteGraph(r) = VoteGraph(q)
  BY DEF VoteGraph
<1>3. Remaining(r) = Remaining(q)
  BY DEF Remaining
<1>4. VoteCounts(r) = VoteCounts(q)
  BY <1>1, <1>2 DEF VoteCounts
<1>5. Settled(r) <=> Settled(q)
  BY <1>1, <1>3 DEF Settled
<1> QED BY <1>3, <1>4, <1>5

(* Votes are added to those of one block. *)
LEMMA AddVotes ==
  ASSUME NEW f \in [IDs -> Nat], NEW x \in IDs, NEW k \in Nat
  PROVE  [f EXCEPT ![x] = f[x] + k] \in [IDs -> Nat]
<1>1. f[x] + k \in Nat
  OBVIOUS
<1> QED BY <1>1

(* A poll is as it should be after Vote and after Drop. *)
LEMMA AnswerOK ==
  ASSUME known \subseteq IDs, NEW p, PollOK(p), NEW v \in Validators, NEW q \in PollRecords,
         q.polled = [p.polled EXCEPT ![v] = 0], q.id = p.id, q.finished = p.finished,
         q.votes = p.votes \/ \E x \in IDs : q.votes = [p.votes EXCEPT ![x] = p.votes[x] + p.polled[v]],
         NEW r \in PollRecords, r.votes = q.votes, r.polled = q.polled, r.id = q.id, r.finished = Finished(q)
  PROVE  PollOK(r) /\ r.id = p.id /\ (Finished(r) <=> Finished(q))
<1> DEFINE k == p.polled[v]
<1>1. /\ p \in PollRecords /\ p.polled \in [Validators -> Nat] /\ p.votes \in [IDs -> Nat]
      /\ k \in Nat
      /\ Count(p.votes, IDs) + Remaining(p) <= K /\ (p.finished => Settled(p))
  BY DEF PollOK, PollRecords
<1> HIDE DEF k
<1>4. Remaining(q) + k = Remaining(p)
  <2>1. Validators \in SUBSET Validators /\ IsFiniteSet(Validators) /\ 0 \in Nat
    BY PollsAssumption
  <2>2. /\ Count([p.polled EXCEPT ![v] = 0], Validators) + p.polled[v] = Count(p.polled, Validators) + 0
        /\ Count(p.polled, Validators) \in Nat
    BY <1>1, <2>1, SumExcept
  <2> QED BY <2>2 DEF Remaining, k
<1>5. ASSUME NEW T \in SUBSET IDs
      PROVE  /\ Count(p.votes, T) <= Count(q.votes, T)
             /\ Count(q.votes, T) <= Count(p.votes, T) + k
  <2>1. Count(p.votes, T) \in Nat
    BY <1>1, CountNat
  <2>2. CASE q.votes = p.votes
    BY <1>1, <2>1, <2>2
  <2>3. ASSUME NEW x \in IDs, q.votes = [p.votes EXCEPT ![x] = p.votes[x] + k]
        PROVE  /\ Count(p.votes, T) <= Count(q.votes, T)
               /\ Count(q.votes, T) <= Count(p.votes, T) + k
    <3>1. p.votes[x] \in Nat /\ p.votes[x] + k \in Nat
      BY <1>1
    <3>2. /\ x \notin T => Count(q.votes, T) = Count(p.votes, T)
          /\ x \in T => Count(q.votes, T) + p.votes[x] = Count(p.votes, T) + (p.votes[x] + k)
          /\ Count(q.votes, T) \in Nat
      BY <1>1, <2>3, <3>1, IDsFinite, SumExcept DEF k
    <3> QED BY <1>1, <2>1, <3>1, <3>2
  <2> QED BY <2>2, <2>3 DEF k
<1>6. Count(q.votes, IDs) + Remaining(q) <= K
  <2>1. /\ Count(q.votes, IDs) \in Nat /\ Remaining(q) \in Nat
        /\ Count(p.votes, IDs) \in Nat /\ Remaining(p) \in Nat /\ K \in Nat
    BY <1>1, PollSums, ParametersVerify
  <2> QED BY <1>1, <1>4, <1>5, <2>1
<1>7. q.finished => Settled(q)
  BY <1>1, <1>4, <1>5, AnswerSettles
<1>8. Finished(q) => Settled(q)
  BY <1>6, <1>7, FinishedSettles
<1>11. Remaining(r) = Remaining(q) /\ VoteCounts(r) = VoteCounts(q) /\ (Settled(r) <=> Settled(q))
  BY SameCounts
<1>12. PollOK(r)
  BY <1>6, <1>8, <1>11 DEF PollOK
<1>13. Finished(r) <=> Finished(q)
  BY Zenon, <1>11 DEF Finished
<1> QED BY <1>12, <1>13

(* processFinishedPolls stops at the oldest poll that is not finished. *)
LEMMA FinishingIs ==
  ASSUME NEW ps, Len(ps) \in Nat
  PROVE  /\ Finishing(ps) \in 0..Len(ps) /\ \A i \in 1..Finishing(ps) : Finished(ps[i])
         /\ Finishing(ps) = Len(ps) \/ ~Finished(ps[Finishing(ps) + 1])
<1> DEFINE T == {n \in 0..Len(ps) : n = Len(ps) \/ ~Finished(ps[n + 1])}
<1>1. T \in SUBSET Nat /\ T # {}
  <2>1. Len(ps) \in T
    OBVIOUS
  <2> QED BY <2>1
<1>2. PICK n \in T : \A m \in T : n <= m
  BY <1>1, MinExists
<1>3. ASSUME NEW i \in 1..n PROVE Finished(ps[i])
  <2>1. i - 1 \in 0..Len(ps) /\ i - 1 # Len(ps) /\ i - 1 < n /\ (i - 1) + 1 = i
    BY <1>2
  <2>2. i - 1 \notin T
    <3> HIDE DEF T
    <3>1. SUFFICES ASSUME i - 1 \in T PROVE FALSE
      OBVIOUS
    <3> QED BY <1>1, <1>2, <2>1, <3>1
  <2> QED BY <2>1, <2>2
<1>4. \E m \in 0..Len(ps) : /\ \A i \in 1..m : Finished(ps[i])
                            /\ m = Len(ps) \/ ~Finished(ps[m + 1])
  BY <1>2, <1>3
<1> QED BY <1>4 DEF Finishing

(* The invariant after a step, by what the polls are then. *)
LEMMA PollsInvKept ==
  ASSUME known' = known, known \subseteq IDs, requests' \in 0..MaxPolls,
         polls' \in Seq(PollRecords), Len(polls') <= requests',
         \A i \in 1..Len(polls') : PollOK(polls'[i]) /\ polls'[i].id = requests' - Len(polls') + i,
         results' = [i \in 1..(requests' - Len(polls')) |-> i],
         polls' # <<>> => ~Finished(polls'[1])
  PROVE  PollsInv'
<1>1. ASSUME NEW p PROVE (Finished(p)' <=> Finished(p)) /\ (PollOK(p)' <=> PollOK(p))
  <2>1. (Finished(p)' <=> Finished(p)) /\ (Settled(p)' <=> Settled(p))
    BY SameFinished
  <2> QED BY <2>1 DEF PollOK, Remaining
<1>2. ASSUME NEW p \in PollRecords, NEW i \in 1..Len(polls'), p = polls'[i]
      PROVE  PollOK(p)' /\ p.id = requests' - Len(polls') + i
  BY <1>1, <1>2
<1>3. ASSUME NEW p \in PollRecords, polls' # <<>>, p = polls'[1]
      PROVE  ~Finished(p)'
  BY <1>1, <1>3
<1> QED BY <1>2, <1>3 DEF PollsInv

(* What the invariant says of the polls. *)
LEMMA PollsAre ==
  ASSUME PollsInv
  PROVE  /\ requests \in 0..MaxPolls /\ requests \in Nat /\ known \subseteq IDs
         /\ polls \in Seq(PollRecords) /\ Len(polls) \in Nat /\ Len(polls) <= requests
         /\ \A i \in 1..Len(polls) : /\ polls[i] \in PollRecords /\ PollOK(polls[i])
                                     /\ polls[i].id = requests - Len(polls) + i
         /\ results = [i \in 1..(requests - Len(polls)) |-> i]
         /\ polls # <<>> => ~Finished(polls[1])
<1>1. /\ requests \in 0..MaxPolls /\ requests \in Nat /\ known \subseteq IDs
      /\ polls \in Seq(PollRecords) /\ Len(polls) \in Nat /\ Len(polls) <= requests
  BY PollsAssumption DEF PollsInv
<1>2. \A i \in 1..Len(polls) : polls[i] \in PollRecords
  BY <1>1
<1>3. polls # <<>> => 1 \in 1..Len(polls)
  BY <1>1
<1> QED BY <1>1, <1>2, <1>3 DEF PollsInv

(* The first poll is not finished, and polls are numbered as they come. *)
LEMMA PollsInitInv == PollsInit => PollsInv
<1> SUFFICES ASSUME PollsInit PROVE PollsInv
  OBVIOUS
<1>1. polls = <<>> /\ requests = 0 /\ results = <<>> /\ known \subseteq IDs
  BY DEF PollsInit
<1>2. results = [i \in 1..(requests - Len(polls)) |-> i]
  <2>1. 1..(requests - Len(polls)) = 1..0
    BY <1>1
  <2>2. <<>> = [i \in 1..0 |-> i]
    OBVIOUS
  <2> QED BY <1>1, <2>1, <2>2
<1> QED BY <1>1, <1>2, PollsAssumption DEF PollsInv

(* Add: the new poll is OK and the others are as they were. *)
LEMMA PollsAddInv ==
  ASSUME PollsInv, PollsAdd
  PROVE  PollsInv'
<1> DEFINE r == requests + 1
           p == [id |-> r, polled |-> SampleOf[r], votes |-> NoVotes, finished |-> FALSE]
<1>1. /\ requests \in 0..MaxPolls /\ polls \in Seq(PollRecords) /\ Len(polls) <= requests
      /\ known \subseteq IDs /\ Len(polls) \in Nat /\ requests \in Nat
      /\ results = [i \in 1..(requests - Len(polls)) |-> i]
  BY PollsAre
<1>2. /\ requests < MaxPolls /\ requests' = r /\ polls' = Append(polls, p)
      /\ known' = known /\ results' = results
  BY DEF PollsAdd
<1>3. r \in 1..MaxPolls
  BY <1>1, <1>2, PollsAssumption
<1>4. PollOK(p) /\ ~Finished(p) /\ p.id = r
  BY <1>3, NewPollOK
<1>5. p \in PollRecords
  BY <1>4 DEF PollOK
<1> HIDE DEF p
<1>6. /\ polls' \in Seq(PollRecords) /\ Len(polls') = Len(polls) + 1 /\ polls' # <<>>
      /\ \A i \in 1..Len(polls) : polls'[i] = polls[i]
      /\ polls'[Len(polls) + 1] = p
  <2> HIDE DEF PollsInv, PollsAdd
  <2> QED BY <1>1, <1>2, <1>5
<1>7. ASSUME NEW i \in 1..Len(polls')
      PROVE  PollOK(polls'[i]) /\ polls'[i].id = requests' - Len(polls') + i
  <2>2. CASE i = Len(polls) + 1
    BY <1>1, <1>2, <1>4, <1>6, <2>2
  <2>3. CASE i \in 1..Len(polls)
    BY <1>1, <1>2, <1>6, <2>3, PollsAre
  <2> QED BY <1>1, <1>6, <2>2, <2>3
<1>8. ~Finished(polls'[1])
  <2>1. CASE polls = <<>>
    BY <1>4, <1>6, <2>1
  <2>2. CASE polls # <<>>
    <3>1. 1 \in 1..Len(polls)
      BY <1>1, <2>2
    <3> QED BY <1>6, <2>2, <3>1, PollsAre
  <2> QED BY <2>1, <2>2
<1>9. requests' - Len(polls') = requests - Len(polls)
  BY <1>1, <1>2, <1>6
<1> QED BY <1>1, <1>2, <1>3, <1>6, <1>7, <1>8, <1>9, PollsInvKept

(* What is left of a sequence without its first elements. *)
LEMMA SuffixIs ==
  ASSUME NEW S, NEW s \in Seq(S), NEW n \in 0..Len(s)
  PROVE  /\ SubSeq(s, n + 1, Len(s)) \in Seq(S) /\ Len(SubSeq(s, n + 1, Len(s))) = Len(s) - n
         /\ \A j \in 1..(Len(s) - n) : SubSeq(s, n + 1, Len(s))[j] = s[n + j]
OBVIOUS

(* Counting on. *)
LEMMA CountingOn ==
  ASSUME NEW m \in Nat, NEW n \in Nat
  PROVE  [k \in 1..m |-> k] \o [j \in 1..n |-> m + j] = [k \in 1..(m + n) |-> k]
<1> DEFINE s == [k \in 1..m |-> k]
           t == [j \in 1..n |-> m + j]
           u == [k \in 1..(m + n) |-> k]
<1>1. s \in Seq(Nat) /\ Len(s) = m /\ \A k \in 1..m : s[k] = k
  OBVIOUS
<1>2. t \in Seq(Nat) /\ Len(t) = n /\ \A j \in 1..n : t[j] = m + j
  OBVIOUS
<1>3. u \in Seq(Nat) /\ Len(u) = m + n /\ \A k \in 1..(m + n) : u[k] = k
  OBVIOUS
<1> HIDE DEF s, t, u
<1>4. s \o t \in Seq(Nat) /\ Len(s \o t) = m + n
  BY <1>1, <1>2
<1>5. ASSUME NEW k \in 1..(m + n) PROVE (s \o t)[k] = u[k]
  <2>1. CASE k <= m
    BY <1>1, <1>2, <1>3, <2>1
  <2>2. CASE k > m
    <3>1. k - m \in 1..n /\ m + (k - m) = k
      BY <2>2
    <3>2. (s \o t)[k] = t[k - m]
      BY <1>1, <1>2, <2>2
    <3> QED BY <1>2, <1>3, <3>1, <3>2
  <2>3. k <= m \/ k > m
    OBVIOUS
  <2> QED BY Zenon, <2>1, <2>2, <2>3
<1> QED BY <1>3, <1>4, <1>5 DEF s, t, u

(* When n of b polls go, a have been made and b - n are left. *)
LEMMA FewerLeft ==
  ASSUME NEW a \in Nat, NEW b \in Nat, b <= a, NEW n \in 0..b
  PROVE  (a - b) + n \in Nat /\ a - (b - n) = (a - b) + n /\ b - n \in Nat
OBVIOUS

(* An answer: the polls with one of them changed, without the oldest that  *)
(* are finished.                                                           *)
LEMMA AnswerInv ==
  ASSUME PollsInv, NEW ps \in Seq(PollRecords), Len(ps) = Len(polls),
         \A j \in 1..Len(polls) : PollOK(ps[j]) /\ ps[j].id = requests - Len(polls) + j,
         NEW n \in 0..Len(polls), n < Len(polls) => ~Finished(ps[n + 1]),
         polls' = SubSeq(ps, n + 1, Len(ps)), results' = results \o [j \in 1..n |-> ps[j].id],
         requests' = requests, known' = known
  PROVE  PollsInv'
<1> DEFINE first == requests - Len(polls)
<1>1. /\ requests \in 0..MaxPolls /\ polls \in Seq(PollRecords) /\ Len(polls) <= requests
      /\ known \subseteq IDs /\ Len(polls) \in Nat /\ requests \in Nat /\ first \in Nat
      /\ results = [k \in 1..first |-> k]
  BY PollsAre
<1>2. requests \in Nat /\ Len(polls) \in Nat /\ Len(polls) <= requests /\ first \in Nat
  BY <1>1
<1>5. ASSUME NEW j \in 1..Len(polls) PROVE PollOK(ps[j]) /\ ps[j].id = first + j
  OBVIOUS
<1>6. n \in 0..Len(ps) /\ n \in Nat /\ n <= Len(polls)
  BY <1>1
<1> HIDE DEF first
<1>7. /\ polls' \in Seq(PollRecords) /\ Len(polls') = Len(polls) - n
      /\ \A j \in 1..Len(polls') : polls'[j] = ps[n + j]
  BY <1>6, SuffixIs
<1>8. first + n \in Nat /\ requests' - Len(polls') = first + n /\ Len(polls') \in Nat
  <2>1. Len(polls') = Len(polls) - n /\ requests' = requests
    BY <1>7
  <2>2. /\ (requests - Len(polls)) + n \in Nat /\ Len(polls) - n \in Nat
        /\ requests - (Len(polls) - n) = (requests - Len(polls)) + n
    BY <1>2, FewerLeft
  <2> QED BY Zenon, <2>1, <2>2 DEF first
<1>9. ASSUME NEW j \in 1..Len(polls')
      PROVE  PollOK(polls'[j]) /\ polls'[j].id = requests' - Len(polls') + j
  <2>1. n + j \in 1..Len(polls) /\ first + (n + j) = (first + n) + j
    BY <1>1, <1>6, <1>7
  <2> QED BY <1>5, <1>7, <1>8, <2>1
<1>10. results' = [k \in 1..(requests' - Len(polls')) |-> k]
  <2>1. ASSUME NEW j \in 1..n PROVE ps[j].id = first + j
    <3>1. j \in 1..Len(polls)
      BY <1>1, <1>6
    <3> QED BY <1>5, <3>1
  <2>2. [j \in 1..n |-> ps[j].id] = [j \in 1..n |-> first + j]
    BY Zenon, <2>1
  <2> QED BY <1>1, <1>6, <1>8, <2>2, CountingOn
<1>11. polls' # <<>> => ~Finished(polls'[1])
  <2> SUFFICES ASSUME polls' # <<>> PROVE ~Finished(polls'[1])
    OBVIOUS
  <2>1. 1 \in 1..Len(polls') /\ n < Len(polls)
    BY <1>1, <1>6, <1>7, <1>8
  <2> QED BY <1>6, <1>7, <2>1
<1>12. requests' \in 0..MaxPolls /\ Len(polls') <= requests'
  BY <1>1, <1>6, <1>7
<1> QED BY <1>1, <1>7, <1>9, <1>10, <1>11, <1>12, PollsInvKept

(* Vote and Drop. *)
LEMMA PollsAnswerInv ==
  ASSUME PollsInv, NEW i \in DOMAIN polls, NEW v \in Validators,
         PollsDrop(i, v) \/ \E x \in IDs : PollsVote(i, v, x)
  PROVE  PollsInv'
<1>1. PICK p : p = polls[i]
  OBVIOUS
<1>2. /\ i \in 1..Len(polls) /\ known \subseteq IDs /\ p \in PollRecords /\ PollOK(p)
      /\ p.id = requests - Len(polls) + i
      /\ polls \in Seq(PollRecords) /\ Len(polls) \in Nat
  BY <1>1, PollsAre
<1>3. PICK q : /\ Answer(i, q)
               /\ \/ q = [p EXCEPT !.polled[v] = 0]
                  \/ \E x \in IDs : q = [p EXCEPT !.polled[v] = 0, !.votes[x] = @ + p.polled[v]]
  BY <1>1 DEF PollsDrop, PollsVote
<1>4. /\ q \in PollRecords /\ q.polled = [p.polled EXCEPT ![v] = 0]
      /\ q.id = p.id /\ q.finished = p.finished
      /\ q.votes = p.votes \/ \E x \in IDs : q.votes = [p.votes EXCEPT ![x] = p.votes[x] + p.polled[v]]
  <2>0. p \in PollRecords
    BY <1>2
  <2>1. CASE q = [p EXCEPT !.polled[v] = 0]
    BY <2>0, <2>1 DEF PollRecords
  <2>2. ASSUME NEW x \in IDs, q = [p EXCEPT !.polled[v] = 0, !.votes[x] = @ + p.polled[v]]
        PROVE  /\ q \in PollRecords /\ q.polled = [p.polled EXCEPT ![v] = 0]
               /\ q.id = p.id /\ q.finished = p.finished
               /\ q.votes = [p.votes EXCEPT ![x] = p.votes[x] + p.polled[v]]
    <3>1. /\ p.polled \in [Validators -> Nat] /\ p.votes \in [IDs -> Nat]
          /\ p.finished \in BOOLEAN /\ p.id \in Nat /\ p.polled[v] \in Nat
      BY <2>0 DEF PollRecords
    <3>2. [p.votes EXCEPT ![x] = p.votes[x] + p.polled[v]] \in [IDs -> Nat]
      BY <3>1, AddVotes
    <3>3. [p.polled EXCEPT ![v] = 0] \in [Validators -> Nat]
      BY <3>1
    <3>4. /\ q.polled = [p.polled EXCEPT ![v] = 0] /\ q.id = p.id /\ q.finished = p.finished
          /\ q.votes = [p.votes EXCEPT ![x] = p.votes[x] + p.polled[v]]
          /\ q = [id |-> p.id, polled |-> [p.polled EXCEPT ![v] = 0],
                  votes |-> [p.votes EXCEPT ![x] = p.votes[x] + p.polled[v]], finished |-> p.finished]
      BY <2>0, <2>2 DEF PollRecords
    <3>5. q \in PollRecords
      BY <3>1, <3>2, <3>3, <3>4 DEF PollRecords
    <3> QED BY <3>4, <3>5
  <2> QED BY Zenon, <1>3, <2>1, <2>2
<1> DEFINE r == [q EXCEPT !.finished = Finished(q)]
<1>6. /\ r.votes = q.votes /\ r.polled = q.polled /\ r.id = q.id /\ r.finished = Finished(q)
      /\ r \in PollRecords
  <2>1. Finished(q) \in BOOLEAN
    BY DEF Finished
  <2> QED BY <1>4, <2>1 DEF PollRecords
<1>7. PollOK(r) /\ r.id = p.id /\ (Finished(r) <=> Finished(q))
  <2> HIDE DEF r
  <2> QED BY <1>2, <1>4, <1>6, AnswerOK
<1> DEFINE ps == [polls EXCEPT ![i] = r]
           n == IF Finished(q) THEN Finishing(ps) ELSE 0
<1>8. /\ polls' = SubSeq(ps, n + 1, Len(ps)) /\ results' = results \o [j \in 1..n |-> ps[j].id]
      /\ requests' = requests /\ known' = known
  <2>1. Answer(i, q)
    BY Zenon, <1>3
  <2> QED BY Zenon, <2>1 DEF Answer
<1>9. /\ ps \in Seq(PollRecords) /\ Len(ps) = Len(polls)
      /\ \A j \in 1..Len(polls) : ps[j] = IF j = i THEN r ELSE polls[j]
  <2> HIDE DEF r
  <2> QED BY <1>2, <1>6
<1> HIDE DEF ps, r
<1>10. ASSUME NEW j \in 1..Len(polls)
       PROVE  PollOK(ps[j]) /\ ps[j].id = requests - Len(polls) + j
  BY <1>2, <1>7, <1>9, PollsAre
<1>11. n \in 0..Len(polls) /\ (n < Len(polls) => ~Finished(ps[n + 1]))
  <2>1. CASE Finished(q)
    <3>1. /\ Finishing(ps) \in 0..Len(ps)
          /\ Finishing(ps) = Len(ps) \/ ~Finished(ps[Finishing(ps) + 1])
      BY <1>2, <1>9, FinishingIs
    <3>2. n = Finishing(ps)
      BY <2>1
    <3> HIDE DEF n
    <3> QED BY <1>2, <1>9, <3>1, <3>2
  <2>2. CASE ~Finished(q)
    <3>1. 1 \in 1..Len(polls) /\ polls # <<>> /\ n = 0
      BY <1>2, <2>2
    <3>2. ~Finished(ps[1])
      BY <1>7, <1>9, <2>2, <3>1, PollsAre
    <3> HIDE DEF n
    <3> QED BY <1>2, <3>1, <3>2
  <2> QED BY <2>1, <2>2
<1> HIDE DEF n
<1> QED BY <1>8, <1>9, <1>10, <1>11, AnswerInv

(* Whatever is asked and answered, the polls are as PollsInv says. *)
LEMMA PollsNextInv == PollsInv /\ [PollsNext]_pollVars => PollsInv'
<1> SUFFICES ASSUME PollsInv, [PollsNext]_pollVars PROVE PollsInv'
  OBVIOUS
<1>1. CASE PollsAdd
  BY <1>1, PollsAddInv
<1>2. CASE \E i \in DOMAIN polls, v \in Validators : PollsDrop(i, v)
  BY <1>2, PollsAnswerInv
<1>3. CASE \E i \in DOMAIN polls, v \in Validators, x \in IDs : PollsVote(i, v, x)
  BY <1>3, PollsAnswerInv
<1>4. CASE UNCHANGED pollVars
  <2>1. polls' = polls /\ requests' = requests /\ known' = known /\ results' = results
    BY <1>4 DEF pollVars
  <2> QED BY <2>1, PollsAre, PollsInvKept
<1> QED BY <1>1, <1>2, <1>3, <1>4 DEF PollsNext

(* A poll that finished early has the effect it would have with all        *)
(* answers in (early_term_traversal.go, Finished), whatever the sample,    *)
(* the blocks and the answers.                                             *)
THEOREM PollsEarlyIsFinal == PollsSpec => []EarlyIsFinal
<1>1. PollsInv => EarlyIsFinal
  <2> SUFFICES ASSUME PollsInv, NEW i \in DOMAIN polls, polls[i].finished PROVE Settled(polls[i])
    BY DEF EarlyIsFinal
  <2>1. PollOK(polls[i])
    BY PollsAre
  <2> QED BY <2>1 DEF PollOK
<1> QED BY <1>1, PollsInitInv, PollsNextInv, PTL DEF PollsSpec

(* Polls are handed over in the order they were made, and a finished one   *)
(* waits only for an older one (set.go, processFinishedPolls).             *)
THEOREM PollsOldestFirst == PollsSpec => []OldestFirst
<1>1. PollsInv => OldestFirst
  BY PollsAre DEF OldestFirst
<1> QED BY <1>1, PollsInitInv, PollsNextInv, PTL DEF PollsSpec
=============================================================================
