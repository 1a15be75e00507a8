----------------------------- MODULE Throttling -----------------------------
(***************************************************************************)
(* The inbound message throttler of a node (network/throttling).  A message *)
(* may be read once its sender has a place on the buffer of messages being *)
(* processed and has acquired its size in bytes, from the allocation that  *)
(* all peers share and then from the sender's own, by stake.  Both are     *)
(* given back when the message has been handled.                           *)
(*                                                                         *)
(* Bandwidth, CPU and disk usage only delay a reader, and are left out.    *)
(***************************************************************************)
EXTENDS Integers, Sequences, FiniteSetsExt

CONSTANTS
  Peers,
  StakeOf,  \* peer -> its weight in the primary network
  VdrAllocSize, AtLargeAllocSize, NodeMaxAtLargeBytes,
  MaxProcessingMsgsPerNode,
  Sizes   \* of messages

(* A message has at least a byte, and NodeMaxAtLargeBytes "must be at      *)
(* least the max message size" (config/flags.go:207).                      *)
ASSUME SizesFit ==
  /\ Sizes \subseteq 1..NodeMaxAtLargeBytes
  /\ NodeMaxAtLargeBytes <= AtLargeAllocSize

VARIABLE throttler

ThrottlerInit ==
  throttler = [remainingAtLargeBytes |-> AtLargeAllocSize,
               remainingVdrBytes |-> VdrAllocSize,
               atLargeBytesUsed |-> [p \in Peers |-> 0],
               vdrBytesUsed |-> [p \in Peers |-> 0],
               waitingToAcquire |-> <<>>,             \* peers, oldest first
               bytesNeeded |-> [p \in Peers |-> 0],   \* by the message p acquires for
               numProcessingMsgs |-> [p \in Peers |-> 0],
               awaitingAcquire |-> {}]

Waiting(t, p) == p \in Range(t.waitingToAcquire)

TotalWeight == MapThenSumSet(LAMBDA p : StakeOf[p], Peers)

vdrAllocationSize(p) == IF StakeOf[p] = 0 THEN 0 ELSE (VdrAllocSize * StakeOf[p]) \div TotalWeight

(* Acquire of the byte throttler, up to where it waits.                    *)
AcquireBytes(t, p, msgSize) ==
  LET atLarge == Min({msgSize, NodeMaxAtLargeBytes - t.atLargeBytesUsed[p],
                      t.remainingAtLargeBytes})
      allowed == Max({0, vdrAllocationSize(p) - t.vdrBytesUsed[p]})
      vdr == Min({t.remainingVdrBytes, msgSize - atLarge, allowed})
      needed == msgSize - atLarge - vdr
  IN [t EXCEPT !.remainingAtLargeBytes = @ - atLarge,
               !.atLargeBytesUsed[p] = @ + atLarge,
               !.remainingVdrBytes = @ - vdr,
               !.vdrBytesUsed[p] = @ + vdr,
               !.bytesNeeded[p] = needed,
               !.waitingToAcquire = IF needed = 0 THEN @ ELSE Append(@, p)]

StopWaiting(t, p) == [t EXCEPT !.waitingToAcquire = SelectSeq(@, LAMBDA q : q # p)]

(* p's waiting message is given n bytes and, if these were the last, its   *)
(* channel is closed.                                                      *)
Give(t, p, n) ==
  LET given == [t EXCEPT !.bytesNeeded[p] = @ - n]
  IN IF given.bytesNeeded[p] = 0 THEN StopWaiting(given, p) ELSE given

GiveAtLarge(t, p) ==
  LET n == Min({t.bytesNeeded[p], NodeMaxAtLargeBytes - t.atLargeBytesUsed[p],
                t.remainingAtLargeBytes})
  IN Give([t EXCEPT !.atLargeBytesUsed[p] = @ + n, !.remainingAtLargeBytes = @ - n], p, n)

ReturnAtLarge_OwnerOnly(t, p, n) ==
  LET u == [t EXCEPT !.remainingAtLargeBytes = @ + n, !.atLargeBytesUsed[p] = @ - n]
  IN IF Waiting(u, p) THEN GiveAtLarge(u, p) ELSE u

(* t after op for every member of s, the first one first.                  *)
InTurn(op(_, _), t, s) ==
  MapThenFoldSet(LAMBDA m, u : op(u, m), t, LAMBDA i : s[i], Max, DOMAIN s)

(* Bytes of the shared allocation go to the waiting messages of all peers, *)
(* the oldest first.                                                       *)
ReturnAtLarge(t, p, n) ==
  IF n = 0 THEN t
  ELSE InTurn(GiveAtLarge,
              [t EXCEPT !.remainingAtLargeBytes = @ + n, !.atLargeBytesUsed[p] = @ - n],
              t.waitingToAcquire)

(* Those of p's own allocation go to a waiting message of p, which then    *)
(* keeps them in use.                                                      *)
ReturnVdr(t, p, n) ==
  LET given == IF Waiting(t, p) THEN Min({t.bytesNeeded[p], n}) ELSE 0
      u == IF given > 0 THEN Give(t, p, given) ELSE t
  IN [u EXCEPT !.vdrBytesUsed[p] = @ - (n - given), !.remainingVdrBytes = @ + (n - given)]

(* release of the byte throttler.                                          *)
ReleaseBytes(t, p, releasedBytes) ==
  LET vdr == Min({releasedBytes, t.vdrBytesUsed[p]})
  IN ReturnVdr(ReturnAtLarge(t, p, releasedBytes - vdr), p, vdr)

(* Acquire of the buffer throttler, up to where it waits, and release.     *)
HasPlace(t, p) == t.numProcessingMsgs[p] < MaxProcessingMsgsPerNode

AcquirePlace(t, p) == [t EXCEPT !.numProcessingMsgs[p] = @ + 1]

AwaitPlace(t, p) == [t EXCEPT !.awaitingAcquire = @ \cup {p}]

CancelPlace(t, p) == [t EXCEPT !.awaitingAcquire = @ \ {p}]

ReleasePlace(t, p) ==
  [t EXCEPT !.numProcessingMsgs[p] = @ - 1, !.awaitingAcquire = @ \ {p}]

(* A message that holds both has been handled.  The two locks are taken    *)
(* one after the other; here it is one step.                               *)
Release(t, p, msgSize) == ReleaseBytes(ReleasePlace(t, p), p, msgSize)
=============================================================================
