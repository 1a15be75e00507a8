------------------------------- MODULE Polls -------------------------------
(***************************************************************************)
(* Package poll: the outstanding polls of a snowman chain, oldest first,   *)
(* and the rule by which a poll finishes before everyone has answered.     *)
(* The blocks it knows parents of are those of Topological.                *)
(***************************************************************************)
EXTENDS BlockTree, Sequences

CONSTANTS
  Validators,
  MaxPolls,    \* bound: the polls that are made
  SampleOf     \* for every poll, how often each validator was drawn

(* Every poll asks a sample of K. *)
ASSUME PollsAssumption ==
  /\ MaxPolls \in Nat /\ IsFiniteSet(Validators)
  /\ SampleOf \in [1..MaxPolls -> [Validators -> Nat]]
  /\ \A r \in 1..MaxPolls : Count(SampleOf[r], Validators) = K

VARIABLES
  polls,    \* the linked hash map: [id, polled, votes, finished], oldest first
  requests, \* the polls made so far, their number is the next request ID
  known,    \* the blocks of ts.blocks
  results   \* the requests whose votes were handed to RecordPoll

pollVars == <<polls, requests, known, results>>

Remaining(p) == Count(p.polled, Validators)

(* buildVoteGraph: the voted blocks and what they extend, as far as        *)
(* GetParent knows.                                                        *)
GraphAncestry(x) == IF x \in known THEN Ancestry[x] ELSE {x}
VoteGraph(p) == UNION {GraphAncestry(x) : x \in {y \in IDs : p.votes[y] > 0}}

(* computeTransitiveVoteCountGraph: the votes for blocks or what extends   *)
(* them.                                                                   *)
TransitiveVotes(p, ids) == Count(p.votes, {y \in IDs : GraphAncestry(y) \cap ids # {}})

(* longestSharedPrefixes: the blocks that share a prefix of at least one   *)
(* bit; several different IDs that do differ in a later bit.               *)
PrefixGroups == {{y \in IDs : Prefix(y, i) = Prefix(x, i)} : x \in IDs, i \in 1..(NumBits - 1)}
Bifurcations(ids) == {g \in {ids \cap h : h \in PrefixGroups} : Cardinality(g) > 1}

(* Every block and every shared prefix of siblings that has votes:         *)
(* computeTransitiveVotesForPrefixes, aggregateVotesFromPrefixesAndIDs.    *)
VoteCounts_BlocksOnly(p) == {TransitiveVotes(p, {x}) : x \in VoteGraph(p)}

VoteCounts(p) ==
  LET graph == VoteGraph(p)
      siblings(x) == {y \in graph \cap known : ParentOf[y] = x}
  IN  {TransitiveVotes(p, g) :
         g \in {{x} : x \in graph} \cup UNION {Bifurcations(siblings(x)) : x \in graph}}

ShouldTerminate(freq, remaining) ==
  \/ freq + remaining < AlphaPreference
  \/ freq >= AlphaPreference /\ freq + remaining < AlphaConfidence
  \/ freq >= AlphaConfidence

Finished(p) ==
  LET remaining == Remaining(p)
      counts == VoteCounts(p)
  IN  \/ p.finished
      \/ remaining = 0
      \/ Count(p.votes, IDs) + remaining < AlphaPreference
      \/ counts # {} /\ \A n \in counts : ShouldTerminate(n, remaining)

-----------------------------------------------------------------------------
PollsInit ==
  /\ polls = <<>> /\ requests = 0 /\ results = <<>>
  /\ known \in {k \in SUBSET IDs : \A x \in k : ParentOf[x] \in k \cup {Genesis}}

PollsAdd ==
  /\ requests < MaxPolls
  /\ requests' = requests + 1
  /\ polls' = Append(polls, [id |-> requests', polled |-> SampleOf[requests'], votes |-> NoVotes,
                             finished |-> FALSE])
  /\ UNCHANGED <<known, results>>

(* How many of the oldest polls processFinishedPolls takes away.           *)
Finishing_Oldest(ps) == IF Finished(ps[1]) THEN 1 ELSE 0

Finishing(ps) ==
  CHOOSE n \in 0..Len(ps) : /\ \A i \in 1..n : Finished(ps[i])
                            /\ n = Len(ps) \/ ~Finished(ps[n + 1])

(* The poll at index i has become p.                                       *)
Answer(i, p) ==
  LET finished == Finished(p)
      ps == [polls EXCEPT ![i] = [p EXCEPT !.finished = finished]]
      n == IF finished THEN Finishing(ps) ELSE 0
  IN  /\ polls' = SubSeq(ps, n + 1, Len(ps))
      /\ results' = results \o [j \in 1..n |-> ps[j].id]
      /\ UNCHANGED <<requests, known>>

(* Vote and Drop; a second answer of a validator, or one of a validator    *)
(* that was not polled, counts for nothing.                                *)
PollsVote(i, v, x) ==
  /\ polls[i].polled[v] > 0
  /\ Answer(i, [polls[i] EXCEPT !.polled[v] = 0, !.votes[x] = @ + polls[i].polled[v]])

PollsDrop(i, v) ==
  /\ polls[i].polled[v] > 0
  /\ Answer(i, [polls[i] EXCEPT !.polled[v] = 0])

PollsNext ==
  \/ PollsAdd
  \/ \E i \in DOMAIN polls, v \in Validators : PollsDrop(i, v)
  \/ \E i \in DOMAIN polls, v \in Validators, x \in IDs : PollsVote(i, v, x)

PollsSpec == PollsInit /\ [][PollsNext]_pollVars

-----------------------------------------------------------------------------
(* For the children of a known block that share a prefix, the votes that   *)
(* are still out change neither whether AlphaPreference nor whether        *)
(* AlphaConfidence is reached.                                             *)
Settled(p) ==
  \A x \in known, n \in 1..NumBits :
    LET siblings == {y \in known : ParentOf[y] = ParentOf[x] /\ Prefix(y, n) = Prefix(x, n)}
        freq == TransitiveVotes(p, siblings)
    IN  \A alpha \in {AlphaPreference, AlphaConfidence} :
          freq >= alpha <=> freq + Remaining(p) >= alpha

(* A poll that finished early has the effect on every snowflake instance   *)
(* that it would have with all answers in, whatever these will be.         *)
EarlyIsFinal == \A i \in DOMAIN polls : polls[i].finished => Settled(polls[i])

(* Polls are handed to RecordPoll in the order they were made, and a       *)
(* finished one waits only for an older one: when all answers are in, none *)
(* is left behind.                                                         *)
OldestFirst ==
  /\ results = [i \in 1..(requests - Len(polls)) |-> i]
  /\ polls # <<>> => ~Finished(polls[1])
=============================================================================
