------------------------------ MODULE Peering ------------------------------
(***************************************************************************)
(* The peers of a node (network/peer/peer.go): each has a goroutine that   *)
(* reads its messages, once the throttler lets it, and hands them on to    *)
(* the router and a chain's handler; and two others that write.  The last  *)
(* of the three to exit tells the network that the peer is disconnected;   *)
(* only then may the same node connect again.                              *)
(***************************************************************************)
EXTENDS ChainHandler

CONSTANTS
  MaxReads,     \* bound: how many messages are read
  MaxConnects   \* bound: how many connections are made

VARIABLES
  executing,       \* peer -> its goroutines
  onClosing,       \* the peers that are closing
  connectedPeers,  \* those that finished their handshake
  reader,          \* peer -> how far its reader is, and with what
  reads, connects

readVars == <<executing, onClosing, connectedPeers, reader, reads, connects>>
inVars == <<throttler, handlerVars, readVars>>

Goroutines == {"read", "write", "send"}
Idle == [pc |-> "idle", size |-> 0, place |-> FALSE]

PeeringInit ==
  /\ ThrottlerInit
  /\ connectedPeers \in SUBSET Peers
  /\ \E peers \in Bijection(1..Cardinality(connectedPeers), connectedPeers) : HandlerInit(peers)
  /\ executing = [p \in Peers |-> IF p \in connectedPeers THEN Goroutines ELSE {}]
  /\ onClosing = {}
  /\ reader = [p \in Peers |-> Idle]
  /\ reads = 0 /\ connects = 0

StartPeer(p) ==
  /\ executing[p] = {} /\ connects < MaxConnects
  /\ executing' = [executing EXCEPT ![p] = Goroutines]
  /\ onClosing' = onClosing \ {p}
  /\ connects' = connects + 1
  /\ UNCHANGED <<throttler, handlerVars, connectedPeers, reader, reads>>

StartClose(p) ==
  /\ executing[p] # {} /\ p \notin onClosing
  /\ Fault
  /\ onClosing' = onClosing \cup {p}
  /\ UNCHANGED <<throttler, registered, gear, queue, closedQueues, dispatcher, current, pool, stop,
                 closed, engineConnected, executing, connectedPeers, reader, reads, connects>>

(* The router tells the chain, unless the peer is benched, which Router    *)
(* models.                                                                 *)
TellHandler(m) ==
  queue' = IF registered /\ "sync" \notin closedQueues
           THEN [queue EXCEPT !["sync"] = Append(@, m)] ELSE queue

(* A goroutine of p exits, which closes p.  The last one tells the network, *)
(* and the network the router.                                             *)
Exit(p, g) ==
  /\ executing' = [executing EXCEPT ![p] = @ \ {g}]
  /\ onClosing' = onClosing \cup {p}
  /\ IF executing[p] = {g} /\ p \in connectedPeers
     THEN connectedPeers' = connectedPeers \ {p} /\ TellHandler(Connection(p, "disconnected"))
     ELSE UNCHANGED <<connectedPeers, queue>>

ExitWriter(p, g) ==
  /\ g \in executing[p] \ {"read"} /\ p \in onClosing
  /\ Exit(p, g)
  /\ UNCHANGED <<throttler, registered, gear, closedQueues, dispatcher, current, pool, stop,
                 closed, engineConnected, faults, reader, reads, connects>>

(* The reader could not read a length.                                     *)
ExitReader(p) ==
  /\ "read" \in executing[p] /\ reader[p].pc = "idle"
  /\ (p \in onClosing /\ UNCHANGED faults) \/ Fault
  /\ Exit(p, "read")
  /\ UNCHANGED <<throttler, registered, gear, closedQueues, dispatcher, current, pool, stop,
                 closed, engineConnected, reader, reads, connects>>

(* It has read the length of a message, and asks for a place.              *)
ReadLength(p) ==
  /\ "read" \in executing[p] /\ reader[p].pc = "idle" /\ reads < MaxReads
  /\ reads' = reads + 1
  /\ \E size \in Sizes :
       IF HasPlace(throttler, p)
       THEN /\ reader' = [reader EXCEPT ![p] = [pc |-> "bytes", size |-> size, place |-> TRUE]]
            /\ throttler' = AcquirePlace(throttler, p)
       ELSE /\ reader' = [reader EXCEPT ![p] = [pc |-> "place", size |-> size, place |-> FALSE]]
            /\ throttler' = AwaitPlace(throttler, p)
  /\ UNCHANGED <<handlerVars, executing, onClosing, connectedPeers, connects>>

(* It waited for a place, until one was released or p is closing.          *)
AwaitedPlace(p) ==
  /\ reader[p].pc = "place"
  /\ \/ /\ p \notin throttler.awaitingAcquire
        /\ throttler' = AcquirePlace(throttler, p)
        /\ reader' = [reader EXCEPT ![p].pc = "bytes", ![p].place = TRUE]
     \/ /\ p \in onClosing
        /\ throttler' = CancelPlace(throttler, p)
        /\ reader' = [reader EXCEPT ![p].pc = "bytes"]
  /\ UNCHANGED <<handlerVars, executing, onClosing, connectedPeers, reads, connects>>

(* Acquire has returned, and a reader whose peer is closing gives up.      *)
Acquired(p) == IF p \in onClosing THEN "abandon" ELSE "read"

AskBytes(p) ==
  /\ reader[p].pc = "bytes"
  /\ throttler' = AcquireBytes(throttler, p, reader[p].size)
  /\ reader' = [reader EXCEPT ![p].pc = IF Waiting(throttler', p) THEN "waiting" ELSE Acquired(p)]
  /\ UNCHANGED <<handlerVars, executing, onClosing, connectedPeers, reads, connects>>

(* It waited for bytes, until it had them all or p is closing.             *)
AwaitedBytes(p) ==
  /\ reader[p].pc = "waiting"
  /\ \/ ~Waiting(throttler, p) /\ UNCHANGED throttler
     \/ p \in onClosing /\ throttler' = StopWaiting(throttler, p)
  /\ reader' = [reader EXCEPT ![p].pc = Acquired(p)]
  /\ UNCHANGED <<handlerVars, executing, onClosing, connectedPeers, reads, connects>>

AbandonRelease_All(p) == Release(throttler, p, reader[p].size)

(* onFinishedHandling of what the reader has acquired so far.              *)
AbandonRelease(p) ==
  ReleaseBytes(IF reader[p].place THEN ReleasePlace(throttler, p) ELSE throttler,
               p, reader[p].size - throttler.bytesNeeded[p])

(* p is closing, or the message could not be read.                         *)
Abandon(p) ==
  /\ reader[p].pc \in {"abandon", "read"}
  /\ (p \in onClosing /\ UNCHANGED faults) \/ Fault
  /\ throttler' = AbandonRelease(p)
  /\ reader' = [reader EXCEPT ![p] = Idle]
  /\ Exit(p, "read")
  /\ UNCHANGED <<registered, gear, closedQueues, dispatcher, current, pool, stop, closed,
                 engineConnected, reads, connects>>

(* The message is read and parsed.  It may be handled here, or dropped,    *)
(* and it may be the one that finishes the handshake, also when p has      *)
(* begun to close meanwhile.                                               *)
HandleHere(p) ==
  /\ reader[p].pc = "read"
  /\ throttler' = Release(throttler, p, reader[p].size)
  /\ reader' = [reader EXCEPT ![p] = Idle]
  /\ \/ UNCHANGED <<connectedPeers, queue>>
     \/ /\ p \notin connectedPeers
        /\ connectedPeers' = connectedPeers \cup {p}
        /\ TellHandler(Connection(p, "connected"))
  /\ UNCHANGED <<registered, gear, closedQueues, dispatcher, current, pool, stop, closed,
                 engineConnected, faults, executing, onClosing, reads, connects>>

(* It is for the chain.                                                    *)
HandOn(p) ==
  /\ reader[p].pc = "read" /\ p \in connectedPeers
  /\ \E op \in {"sync", "app"} : Push([op |-> op, node |-> p, size |-> reader[p].size])
  /\ reader' = [reader EXCEPT ![p] = Idle]
  /\ UNCHANGED <<registered, gear, closedQueues, dispatcher, current, pool, stop, closed,
                 engineConnected, faults, executing, onClosing, connectedPeers, reads, connects>>

PeerNext(p) ==
  \/ StartPeer(p) \/ StartClose(p) \/ ExitReader(p)
  \/ ReadLength(p) \/ AwaitedPlace(p) \/ AskBytes(p) \/ AwaitedBytes(p)
  \/ Abandon(p) \/ HandleHere(p) \/ HandOn(p)
  \/ \E g \in Goroutines : ExitWriter(p, g)

InNext ==
  \/ HandlerNext /\ UNCHANGED readVars
  \/ \E p \in Peers : PeerNext(p)

(* Readers go on; a connection need not bring anything.                    *)
InFairness ==
  /\ HandlerFairness
  /\ \A p \in Peers :
       WF_inVars(AwaitedPlace(p) \/ AskBytes(p) \/ AwaitedBytes(p)
                 \/ Abandon(p) \/ HandleHere(p) \/ HandOn(p))

InSpec == PeeringInit /\ [][InNext]_inVars /\ InFairness

-----------------------------------------------------------------------------
(* The messages of p that the handler has.                                 *)
HeldFor(p) ==
  LET threads == CHOOSE f \in Bijection(1..Cardinality(Threads), Threads) : TRUE
      held == queue["sync"] \o queue["async"] \o <<current["sync"], current["async"]>>
              \o [i \in DOMAIN threads |-> pool[threads[i]]]
  IN SelectSeq(held, LAMBDA m : m \notin {NoMsg, Stopping} /\ ~IsConnection(m) /\ m.node = p)

(* OnFinishedHandling is called exactly once for every message             *)
(* (peer.go:417): the places and bytes that the throttler counts as used   *)
(* are those of the messages that a reader, a queue, a dispatcher or a     *)
(* thread has, the rest are free, and a peer waits for one message.        *)
Accounted ==
  LET t == throttler
      acquired(p) == IF reader[p].pc \in {"waiting", "abandon", "read"}
                     THEN reader[p].size - t.bytesNeeded[p] ELSE 0
  IN
  /\ \A p \in Peers :
       /\ t.atLargeBytesUsed[p] + t.vdrBytesUsed[p] =
            acquired(p) + InTurn(LAMBDA n, m : n + m.size, 0, HeldFor(p))
       /\ t.numProcessingMsgs[p] = Len(HeldFor(p)) + (IF reader[p].place THEN 1 ELSE 0)
       /\ t.numProcessingMsgs[p] <= MaxProcessingMsgsPerNode
       /\ t.atLargeBytesUsed[p] \in 0..NodeMaxAtLargeBytes /\ t.vdrBytesUsed[p] >= 0
       /\ Waiting(t, p) => reader[p].pc = "waiting"
  /\ t.remainingAtLargeBytes + MapThenSumSet(LAMBDA p : t.atLargeBytesUsed[p], Peers) = AtLargeAllocSize
  /\ t.remainingVdrBytes + MapThenSumSet(LAMBDA p : t.vdrBytesUsed[p], Peers) = VdrAllocSize

(* The engine hears of a peer's connections and disconnections in turn,    *)
(* although the queue moves messages of busy peers to its end              *)
(* (message_queue.go:170) and a node may connect again.                    *)
ConnectionsAlternate ==
  LET m == current["sync"] IN
  m # NoMsg =>
    /\ m.op = "connected" => m.node \notin engineConnected
    /\ m.op = "disconnected" => m.node \in engineConnected

(* A reader that waits for a place or for bytes gets them in the end, or   *)
(* its peer is closed, whatever the other peers hold                       *)
(* (inbound_msg_byte_throttler.go:60).                                     *)
ReadersProgress ==
  \A p \in Peers : reader[p].pc \in {"place", "waiting"} ~> reader[p].pc \in {"abandon", "read", "idle"}

=============================================================================
