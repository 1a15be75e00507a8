-------------------------------- MODULE Snow --------------------------------
(***************************************************************************)
(* Snowflake, as package snowball makes it for the snowman chains          *)
(* (SnowflakeFactory with one termination condition).  An instance counts  *)
(* the consecutive polls that reached AlphaConfidence and is finalized by  *)
(* Beta of them.                                                           *)
(*                                                                         *)
(* A trie is what tree.go promises: one binary instance for every bit of   *)
(* the choices added so far, each of which records every poll at once.     *)
(* SnowTree models the code, which shares instances between bits and puts  *)
(* resets off, and compares the two.                                       *)
(***************************************************************************)
EXTENDS Integers, FiniteSets, FiniteSetsExt

CONSTANTS
  K, AlphaPreference, AlphaConfidence, Beta,
  IDs,
  NumBits,   \* 256 in the code
  IDBits     \* the bits of an ID

Bits == 0..(NumBits - 1)

(* Parameters.Verify; the IDs are different hashes. *)
ASSUME ParametersVerify ==
  /\ K \in Nat /\ AlphaPreference \in Nat /\ AlphaConfidence \in Nat /\ Beta \in Nat
  /\ K \div 2 < AlphaPreference
  /\ AlphaPreference <= AlphaConfidence
  /\ AlphaConfidence <= K
  /\ 1 <= Beta
  /\ NumBits \in Nat \ {0}
  /\ IDBits \in [IDs -> [Bits -> {0, 1}]]
  /\ \A x, y \in IDs : IDBits[x] = IDBits[y] => x = y

EqualSubset(start, stop, x, y) == \A i \in start..(stop - 1) : IDBits[x][i] = IDBits[y][i]

(* The votes of a bag for the IDs of a set. *)
Count(votes, ids) == MapThenSumSet(LAMBDA x : votes[x], ids)

-----------------------------------------------------------------------------
(* One instance.  A unary one has no use for pref.  Above Beta, the exact   *)
(* confidence is never read: it is kept at Beta.                            *)

Snowflakes == [pref : {0, 1}, confidence : 0..Beta, finalized : BOOLEAN]

NewInstance(bit) == [pref |-> bit, confidence |-> 0, finalized |-> FALSE]

Unsuccessful(s) == [s EXCEPT !.confidence = 0]

(* The loop over the termination conditions. *)
Terminate(s, count) ==
  IF count < AlphaConfidence
  THEN Unsuccessful(s)
  ELSE [s EXCEPT !.confidence = IF @ < Beta THEN @ + 1 ELSE Beta,
                 !.finalized  = @ \/ s.confidence + 1 >= Beta]

UnaryPoll(s, count) == Terminate(s, count)

BinaryPoll_KeepsConfidence(s, count, choice) ==
  IF s.finalized THEN s
  ELSE IF count < AlphaPreference THEN Unsuccessful(s)
  ELSE Terminate([s EXCEPT !.pref = choice], count)

BinaryPoll(s, count, choice) ==
  IF s.finalized THEN s
  ELSE IF count < AlphaPreference THEN Unsuccessful(s)
  ELSE Terminate([s EXCEPT !.pref = choice,
                           !.confidence = IF choice = s.pref THEN @ ELSE 0], count)

-----------------------------------------------------------------------------
(* The trie: instances indexed by the bits that come before theirs.        *)

Prefix(x, i) == [j \in 0..(i - 1) |-> IDBits[x][j]]

BitPrefixes == {Prefix(x, i) : x \in IDs, i \in Bits}

NewTrie(x) == [choices |-> {x},
               inst |-> [p \in {Prefix(x, i) : i \in Bits} |->
                           NewInstance(IDBits[x][Cardinality(DOMAIN p)])]]

TriePreference(t) ==
  CHOOSE x \in t.choices : \A i \in Bits : t.inst[Prefix(x, i)].pref = IDBits[x][i]

TrieFinalized(t) == \A i \in Bits : t.inst[Prefix(TriePreference(t), i)].finalized

(* No finalized instance has decided against x. *)
Undecided(t, x) ==
  LET pref == TriePreference(t)
  IN  \A i \in Bits : (\A j \in 0..i : t.inst[Prefix(pref, j)].finalized)
                        => IDBits[x][i] = IDBits[pref][i]

TrieAdd(t, x) ==
  IF ~Undecided(t, x) THEN t
  ELSE [choices |-> t.choices \cup {x},
        inst |-> [p \in DOMAIN t.inst \cup {Prefix(x, i) : i \in Bits} |->
                    IF p \in DOMAIN t.inst THEN t.inst[p]
                    ELSE NewInstance(IDBits[x][Cardinality(DOMAIN p)])]]

TriePoll(t, votes) ==
  LET valid == {x \in DOMAIN votes : Undecided(t, x)}
      For(p, bit) == {x \in valid : /\ Prefix(x, Cardinality(DOMAIN p)) = p
                                    /\ IDBits[x][Cardinality(DOMAIN p)] = bit}
      Record(p) ==
        LET bit == IF Count(votes, For(p, 1)) >= AlphaPreference THEN 1 ELSE 0
        IN  BinaryPoll(t.inst[p], Count(votes, For(p, bit)), bit)
  IN  [t EXCEPT !.inst = [p \in DOMAIN t.inst |-> Record(p)]]

TrieUnsuccessful(t) ==
  [t EXCEPT !.inst = [p \in DOMAIN t.inst |-> Unsuccessful(t.inst[p])]]
=============================================================================
