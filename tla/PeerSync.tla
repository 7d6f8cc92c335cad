------------------------------ MODULE PeerSync ------------------------------
(***************************************************************************)
(* Inventory gossip between the state trackers of a cluster: the peer      *)
(* discovery half of synchronise() (src/pkg/state/workers.go) over the     *)
(* peer-index resolve and the key-exchange side channel of P2PRouter       *)
(* (src/pkg/routing/p2p.go).                                               *)
(*                                                                         *)
(* A round of node n: ServeKeys installs n's inventory as the blob its     *)
(* key-exchange handler returns, Advertise publishes n's peer-index        *)
(* record, and Resolve(PeerIndexKey, 0) starts a goroutine that walks the  *)
(* providers the DHT finds, records address -> peer id in peerIDByAddr     *)
(* and offers each address to a buffered channel without blocking (an     *)
(* address offered to a full channel is dropped).  synchronise reads the   *)
(* channel one address at a time and calls FetchPeerKeys, which dials the  *)
(* peer id the map holds for that address.                                 *)
(*                                                                         *)
(* A process start generates a fresh private key (loadOrCreatePrivateKey   *)
(* reads an in-memory file system), so a restarted node comes back at the  *)
(* same address under a new peer id, while the DHT keeps the old id's      *)
(* record until MaxRecordAge (KeyTTL) passes.  Identities are numbered.    *)
(***************************************************************************)
EXTENDS Naturals, Sequences, FiniteSets

CONSTANTS
  Nodes,           \* cluster nodes; a node's address stands for its IP
  ZeroCountBuffer, \* peerBufferSize when Resolve is called with count 0
  MaxRestarts,     \* process restarts in a run
  MaxFaults,       \* failed key-exchange dials in a run
  MaxWalkFailures  \* images that come to fail their walk in a run

ASSUME ZeroCountBuffer \in Nat /\ MaxRestarts \in Nat /\ MaxFaults \in Nat
ASSUME MaxWalkFailures \in Nat

VARIABLES
  serving,   \* serving[n]: localKeysProvider of n is set
  id,        \* id[n]: n's current peer id (its incarnation)
  records,   \* <<n, i>>: live peer-index provider records in the DHT
  peerIDs,   \* peerIDs[n][m]: peerIDByAddr of n for m's address (0 = none)
  pc,        \* pc[n]: "idle", or "loop" while synchronise reads peerCh
  found,     \* found[n]: providers the DHT query has yet to return
  ch,        \* ch[n]: addresses buffered in peerCh
  closed,    \* closed[n]: the resolve goroutine has closed peerCh
  heard,     \* heard[n][m]: what n read from m this round
  walkFails, \* walkFails[n]: n's store holds an image whose walk fails
  restarts, faults, walkFailures

vars == <<serving, id, records, peerIDs, pc, found, ch, closed, heard,
          walkFails, restarts, faults, walkFailures>>

Ids == 1..(MaxRestarts + 1)

(* What a key request brings back: nothing (the dial failed), "[]" (no   *)
(* provider installed yet), or the peer's inventory.  Inventory contents  *)
(* are left out: a peer's inventory may always be stale (spec 3).          *)
Answers == {"none", "empty", "inventory"}

PeerBufferSize(count) == IF count = 0 THEN ZeroCountBuffer ELSE count

(* handleKeyRequest: "[]" while no provider is installed, else the blob.   *)
KeyResponse(m) == IF serving[m] THEN "inventory" ELSE "empty"

Init ==
  /\ serving = [n \in Nodes |-> FALSE]
  /\ id = [n \in Nodes |-> 1]
  /\ records = {}
  /\ peerIDs = [n \in Nodes |-> [m \in Nodes |-> 0]]
  /\ pc = [n \in Nodes |-> "idle"]
  /\ found = [n \in Nodes |-> {}]
  /\ ch = [n \in Nodes |-> <<>>]
  /\ closed = [n \in Nodes |-> TRUE]
  /\ heard = [n \in Nodes |-> [m \in Nodes |-> "none"]]
  /\ walkFails = [n \in Nodes |-> FALSE]
  /\ restarts = 0 /\ faults = 0 /\ walkFailures = 0

-----------------------------------------------------------------------------
(* ServeKeys: n's handler answers with the new inventory from now on.     *)
ServeKeys(n) == serving' = [serving EXCEPT ![n] = TRUE]

(* Advertise([PeerIndexKey]) under n's current peer id.                    *)
Advertise(n) == records' = records \cup {<<n, id[n]>>}

(* A tick of Track: all() must succeed, or the tick `continue`s before    *)
(* synchronise (state.go:43).  Then synchronise up to the peer loop:       *)
(* getLocalBlobs, ServeKeys (an                                            *)
(* unsynchronised replace of localKeysProvider), Advertise(PeerIndexKey)  *)
(* and Resolve(PeerIndexKey, 0), whose DHT query will return the records  *)
(* live now, n's own included.  missingKeyInfo starts empty.               *)
StartRound(n) ==
  /\ pc[n] = "idle" /\ ~walkFails[n]
  /\ ServeKeys(n)
  /\ Advertise(n)
  /\ found' = [found EXCEPT ![n] = records']
  /\ ch' = [ch EXCEPT ![n] = <<>>]
  /\ closed' = [closed EXCEPT ![n] = FALSE]
  /\ heard' = [heard EXCEPT ![n] = [m \in Nodes |-> "none"]]
  /\ pc' = [pc EXCEPT ![n] = "loop"]
  /\ UNCHANGED <<id, peerIDs, walkFails, restarts, faults, walkFailures>>

(* Mutant: the channel is made one slot larger than peerBufferSize.      *)
EmitPeerOffByOne(n) ==
  /\ ~closed[n]
  /\ \E r \in found[n] :
       LET room == \/ Len(ch[n]) <= PeerBufferSize(0)
                   \/ ch[n] = <<>> /\ pc[n] = "loop"
       IN
       /\ found' = [found EXCEPT ![n] = @ \ {r}]
       /\ peerIDs' = [peerIDs EXCEPT ![n][r[1]] = r[2]]
       /\ ch' = [ch EXCEPT ![n] = IF room THEN Append(@, r[1]) ELSE @]
  /\ UNCHANGED <<serving, id, records, pc, closed, heard, walkFails, restarts,
                 faults, walkFailures>>

(* The peer-index goroutine takes the next provider from                  *)
(* FindProvidersAsync, records its id for its address under mxPeerIDs,    *)
(* and offers the address: a send succeeds when the buffer has room or    *)
(* the reader is blocked on an empty channel, otherwise it is dropped.    *)
EmitPeer(n) ==
  /\ ~closed[n]
  /\ \E r \in found[n] :
       LET room == \/ Len(ch[n]) < PeerBufferSize(0)
                   \/ ch[n] = <<>> /\ pc[n] = "loop"
       IN
       /\ found' = [found EXCEPT ![n] = @ \ {r}]
       /\ peerIDs' = [peerIDs EXCEPT ![n][r[1]] = r[2]]
       /\ ch' = [ch EXCEPT ![n] = IF room THEN Append(@, r[1]) ELSE @]
  /\ UNCHANGED <<serving, id, records, pc, closed, heard, walkFails, restarts,
                 faults, walkFailures>>

(* The query is done: the goroutine closes peerCh.                         *)
CloseResolve(n) ==
  /\ ~closed[n] /\ found[n] = {}
  /\ closed' = [closed EXCEPT ![n] = TRUE]
  /\ UNCHANGED <<serving, id, records, peerIDs, pc, found, ch, heard,
                 walkFails, restarts, faults, walkFailures>>

(* synchronise receives an address and calls FetchPeerKeys: the id the   *)
(* map holds for it is dialled.  Connect fails for an address never      *)
(* mapped, for the node itself, for an id the peer no longer has (the    *)
(* handshake sees another key), and when the network fails; otherwise    *)
(* the peer's handler answers with what it holds at that moment.          *)
FetchPeerKeys(n) ==
  /\ pc[n] = "loop" /\ ch[n] /= <<>>
  /\ LET m == Head(ch[n])
         dialable == peerIDs[n][m] = id[m] /\ m /= n
     IN
     \/ /\ dialable
        /\ heard' = [heard EXCEPT ![n][m] = KeyResponse(m)]
        /\ UNCHANGED faults
     \/ /\ ~dialable \/ faults < MaxFaults
        /\ faults' = IF dialable THEN faults + 1 ELSE faults
        /\ UNCHANGED heard
  /\ ch' = [ch EXCEPT ![n] = Tail(@)]
  /\ UNCHANGED <<serving, id, records, peerIDs, pc, found, closed, walkFails,
                 restarts, walkFailures>>

(* The range over peerCh ends when it is closed and drained; the missing *)
(* keys go to the workers (modelled in StateTracker) and the round ends.  *)
EndRound(n) ==
  /\ pc[n] = "loop" /\ closed[n] /\ ch[n] = <<>>
  /\ pc' = [pc EXCEPT ![n] = "idle"]
  /\ UNCHANGED <<serving, id, records, peerIDs, found, ch, closed, heard,
                 walkFails, restarts, faults, walkFailures>>

(* The process restarts with a new private key, hence a new peer id; the *)
(* new router has no key provider and an empty peerIDByAddr, and the     *)
(* goroutines of the old process are gone.                               *)
Restart(n) ==
  /\ restarts < MaxRestarts
  /\ restarts' = restarts + 1
  /\ id' = [id EXCEPT ![n] = restarts + 2]
  /\ serving' = [serving EXCEPT ![n] = FALSE]
  /\ peerIDs' = [peerIDs EXCEPT ![n] = [m \in Nodes |-> 0]]
  /\ pc' = [pc EXCEPT ![n] = "idle"]
  /\ found' = [found EXCEPT ![n] = {}]
  /\ ch' = [ch EXCEPT ![n] = <<>>]
  /\ closed' = [closed EXCEPT ![n] = TRUE]
  /\ heard' = [heard EXCEPT ![n] = [m \in Nodes |-> "none"]]
  /\ UNCHANGED <<records, walkFails, faults, walkFailures>>

(* dht.MaxRecordAge(KeyTTL): a record nobody republishes expires.  A     *)
(* running node republishes its peer-index record on every tick that       *)
(* reaches synchronise (1 min, within KeyTTL), so only the records of     *)
(* dead ids and of nodes whose ticks skip synchronise expire.             *)
Expire(r) ==
  /\ r \in records /\ (r[2] /= id[r[1]] \/ walkFails[r[1]])
  /\ records' = records \ {r}
  /\ UNCHANGED <<serving, id, peerIDs, pc, found, ch, closed, heard,
                 walkFails, restarts, faults, walkFailures>>

(* containerd's store of n comes to hold an image whose walk fails (its   *)
(* content is incomplete), or that image is removed or completed.         *)
WalkFailure(n) ==
  /\ \/ ~walkFails[n] /\ walkFailures < MaxWalkFailures
        /\ walkFailures' = walkFailures + 1
     \/ walkFails[n] /\ UNCHANGED walkFailures
  /\ walkFails' = [walkFails EXCEPT ![n] = ~@]
  /\ UNCHANGED <<serving, id, records, peerIDs, pc, found, ch, closed, heard,
                 restarts, faults>>

Round(n) ==
  StartRound(n) \/ EmitPeer(n) \/ CloseResolve(n) \/ FetchPeerKeys(n)
    \/ EndRound(n)

Next ==
  \/ \E n \in Nodes : Round(n) \/ Restart(n) \/ WalkFailure(n)
  \/ \E r \in records : Expire(r)

(* Every node's tracker ticks and its goroutines run; a dead id's record *)
(* does expire.  Restarts, faults and images that fail to walk need not   *)
(* happen, nor go away.                                                   *)
Fairness ==
  /\ \A n \in Nodes : WF_vars(Round(n))
  /\ WF_vars(\E r \in records : Expire(r))

Spec == Init /\ [][Next]_vars /\ Fairness

-----------------------------------------------------------------------------
TypeOK ==
  /\ serving \in [Nodes -> BOOLEAN]
  /\ id \in [Nodes -> Ids] /\ records \subseteq Nodes \X Ids
  /\ peerIDs \in [Nodes -> [Nodes -> {0} \cup Ids]]
  /\ pc \in [Nodes -> {"idle", "loop"}]
  /\ found \in [Nodes -> SUBSET (Nodes \X Ids)]
  /\ \A n \in Nodes : ch[n] \in Seq(Nodes) /\ Len(ch[n]) <= ZeroCountBuffer
  /\ closed \in [Nodes -> BOOLEAN]
  /\ heard \in [Nodes -> [Nodes -> Answers]]
  /\ walkFails \in [Nodes -> BOOLEAN] /\ walkFailures \in 0..MaxWalkFailures

=============================================================================
