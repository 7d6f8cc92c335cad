---------------------------- MODULE StateTracker ----------------------------
(***************************************************************************)
(* The state tracker of one node (src/pkg/state): the Track goroutine that *)
(* keeps the node's DHT provider records alive and prefetches layers that  *)
(* peers list in their inventories.                                        *)
(*                                                                         *)
(* Track is one goroutine selecting over the ticker and the containerd     *)
(* event channel, so a tick and an event are never handled at once.  A     *)
(* tick runs all() (advertise every image), synchronise() (publish the     *)
(* inventory, read the peers' inventories, fetch missing layers one worker *)
(* at a time), syncPip() and syncHF(), in that order; time may pass        *)
(* between any two of these steps.                                         *)
(*                                                                         *)
(* Time is counted in ticker periods (KeyTTL - 1 minute = 1 minute); a     *)
(* provider record lives KeyTTL = 2 periods unless it is published again.  *)
(* An image is abstracted to its tag (the image itself) and its manifest   *)
(* digest, which stands for all the digests WalkImage returns.             *)
(***************************************************************************)
EXTENDS Naturals, Sequences, FiniteSets

CONSTANTS
  Images,           \* image references (tags) the store may hold
  Digests,          \* manifest digests
  Digest,           \* Digest[img]: the digest image img points to
  Broken,           \* digests whose content is incomplete: WalkImage fails
  LatestImages,     \* images tagged "latest"
  ResolveLatestTag, \* --resolve-latest-tag
  Included,         \* images matching the --include-images list
  PeerInventory,    \* digests the peers' served inventories list
  PeerStatus,       \* statuses a peer's registry may answer fetchBlob with
  PipKeys,          \* keys of pip packages the pip cache may hold
  HfKeys,           \* keys of Hugging Face files the HF cache may hold
  KeyTTL,           \* routing.KeyTTL in ticker periods
  MaxChurn,         \* image pulls/deletes and cache downloads in a run
  MaxEvents,        \* containerd events that may be pending at once
  GroupFails        \* a goroutine of the process's errgroup may fail

ASSUME Digest \in [Images -> Digests]
ASSUME Broken \subseteq Digests /\ PeerInventory \subseteq Digests
ASSUME LatestImages \subseteq Images /\ Included \subseteq Images
ASSUME ResolveLatestTag \in BOOLEAN /\ PeerStatus \subseteq {200, 401, 404}
ASSUME KeyTTL \in Nat \ {0} /\ MaxChurn \in Nat /\ MaxEvents \in Nat \ {0}
ASSUME GroupFails \in BOOLEAN

PeerIndexKey == "__peer_index__"
Keys == Images \cup Digests \cup PipKeys \cup HfKeys \cup {PeerIndexKey}

VARIABLES
  store,    \* images in the containerd store
  blobs,    \* digests written to the content directory by the prefetch
  pipCache, \* keys of files in the pip cache
  hfCache,  \* keys of files in the HF cache
  ttl,      \* ttl[k]: periods left on this node's provider record for k
  tick,     \* a tick is waiting in the ticker channel (capacity 1)
  events,   \* containerd image events not yet received
  pc,       \* where the Track goroutine is
  busy,     \* the busy flag of mutex.go
  fetchQ,   \* digests synchronise still has to hand to a worker
  alive,    \* the process is running
  churn     \* environment changes so far

vars == <<store, blobs, pipCache, hfCache, ttl, tick, events, pc, busy,
          fetchQ, alive, churn>>

(* Content the node can serve, by digest.                                  *)
HeldDigests == {Digest[i] : i \in store}
ContentDigests == HeldDigests \cup blobs

(* oci.WalkImage succeeds when the manifest content of img is present and  *)
(* complete.                                                               *)
Walkable(img) == Digest[img] \in HeldDigests \ Broken

(* update(): the tag key, unless it is a latest tag that is not resolved. *)
TagKeys(img) ==
  IF ~ResolveLatestTag /\ img \in LatestImages THEN {} ELSE {img}

(* router.Advertise: (re)publish a provider record for every key in ks.   *)
Publish(ks) == [k \in Keys |-> IF k \in ks THEN KeyTTL ELSE ttl[k]]

Init ==
  /\ store \in SUBSET Images
  /\ blobs = {}
  /\ pipCache \in SUBSET PipKeys
  /\ hfCache \in SUBSET HfKeys
  /\ ttl = [k \in Keys |-> 0]
  /\ tick = TRUE          \* immediateCh: the first tick is immediate
  /\ events = <<>>
  /\ pc = "idle"
  /\ busy = FALSE
  /\ fetchQ = {}
  /\ alive = TRUE
  /\ churn = 0

-----------------------------------------------------------------------------
(* The Track goroutine.                                                    *)

(* A tick while not busy runs all(): update() for every listed image, with *)
(* skipDigests for images whose digest an earlier image already covered.   *)
(* An image whose walk fails adds an error and is not marked, so the next  *)
(* image of that digest walks again.  If any image failed, Track does      *)
(* `continue`: synchronise, syncPip and syncHF are skipped for this tick.  *)
TickAll ==
  /\ alive /\ pc = "idle" /\ tick
  /\ tick' = FALSE
  /\ IF busy
       THEN UNCHANGED <<ttl>> /\ pc' = "pip"
       ELSE LET ok == {i \in store : Walkable(i)} IN
            /\ ttl' = Publish(UNION {TagKeys(i) \cup {Digest[i]} : i \in ok})
            /\ pc' = IF ok = store THEN "sync" ELSE "idle"
  /\ UNCHANGED <<store, blobs, pipCache, hfCache, events, busy, fetchQ,
                 alive, churn>>

(* An image event runs update() with skipDigests = FALSE.  A delete event *)
(* returns before advertising; other events walk the image as the store   *)
(* holds it now and advertise its tag and digests.                          *)
HandleEvent ==
  /\ alive /\ pc = "idle" /\ events /= <<>>
  /\ LET e == Head(events) IN
       ttl' = IF e.type /= "delete" /\ Walkable(e.img)
                THEN Publish(TagKeys(e.img) \cup {Digest[e.img]})
                ELSE ttl
  /\ events' = Tail(events)
  /\ UNCHANGED <<store, blobs, pipCache, hfCache, tick, pc, busy, fetchQ,
                 alive, churn>>

(* isIncludedImage: the image matches an entry of --include-images.       *)
IsIncludedImage(img) == img \in Included

(* getLocalBlobs: the layer keys of the included images the store lists;  *)
(* an image whose walk fails is skipped.                                    *)
LocalKeySet == {Digest[i] : i \in {j \in store : IsIncludedImage(j) /\ Walkable(j)}}

(* synchronise(): set busy, serve the inventory of included images, publish *)
(* the peer index record, resolve the peers and read their inventories (a   *)
(* peer that cannot be reached is skipped), and collect the listed digests   *)
(* missing from the local key set, which holds included images only.        *)
Synchronise ==
  /\ alive /\ pc = "sync"
  /\ \E reached \in SUBSET PeerInventory :
       fetchQ' = reached \ LocalKeySet
  /\ busy' = TRUE
  /\ ttl' = Publish({PeerIndexKey})
  /\ pc' = "fetch"
  /\ UNCHANGED <<store, blobs, pipCache, hfCache, tick, events, alive, churn>>

(* One worker, waited for before the next (wg.Wait inside the loop), then *)
(* setBusy(false).  The worker skips a digest whose blob file exists.      *)
(* Otherwise fetchBlob asks a peer: a transport error is dropped; a        *)
(* non-200 answer returns a nil body with a nil error, and                 *)
(* writeBlobToLocalPath's io.Copy from the nil reader panics the process;  *)
(* a 200 answer returns resp.Body after the deferred Close has run, so the *)
(* copy fails, the temporary file is removed and nothing is stored.        *)
FetchOne ==
  /\ alive /\ pc = "fetch"
  /\ \E d \in fetchQ :
       /\ fetchQ' = fetchQ \ {d}
       /\ busy' = FALSE
       /\ \/ d \in ContentDigests /\ UNCHANGED alive
          \* client.Do fails, or 200 and the copy from the closed body fails
          \/ d \notin ContentDigests /\ UNCHANGED alive
          \/ d \notin ContentDigests /\ PeerStatus \ {200} /= {} /\ alive' = FALSE
  /\ UNCHANGED <<store, blobs, pipCache, hfCache, ttl, tick, events, pc, churn>>

(* The worker loop ends; busy is cleared again.                            *)
SyncDone ==
  /\ alive /\ pc = "fetch" /\ fetchQ = {}
  /\ busy' = FALSE
  /\ pc' = "pip"
  /\ UNCHANGED <<store, blobs, pipCache, hfCache, ttl, tick, events, fetchQ,
                 alive, churn>>

(* syncPip: walk the pip cache and advertise its keys, if there are any.  *)
SyncPip ==
  /\ alive /\ pc = "pip"
  /\ ttl' = Publish(pipCache)
  /\ pc' = "hf"
  /\ UNCHANGED <<store, blobs, pipCache, hfCache, tick, events, busy, fetchQ,
                 alive, churn>>

(* Mutant: syncHF advertises the pip keys (a copy of syncPip left as is). *)
SyncHFPublishesPip ==
  /\ alive /\ pc = "hf"
  /\ ttl' = Publish(pipCache)
  /\ pc' = "idle"
  /\ UNCHANGED <<store, blobs, pipCache, hfCache, tick, events, busy, fetchQ,
                 alive, churn>>

(* syncHF: the same for the Hugging Face cache; the tick is done.         *)
SyncHF ==
  /\ alive /\ pc = "hf"
  /\ ttl' = Publish(hfCache)
  /\ pc' = "idle"
  /\ UNCHANGED <<store, blobs, pipCache, hfCache, tick, events, busy, fetchQ,
                 alive, churn>>

(* The process panicked; the DaemonSet restarts it.  In-memory state      *)
(* starts afresh: busy is false, a new subscription sees only new events,  *)
(* and the first tick is immediate.                                        *)
Restart ==
  /\ ~alive
  /\ alive' = TRUE
  /\ pc' = "idle" /\ tick' = TRUE /\ busy' = FALSE
  /\ events' = <<>> /\ fetchQ' = {}
  /\ UNCHANGED <<store, blobs, pipCache, hfCache, ttl, churn>>

(* registryCommand runs the router, Track and the two servers in one      *)
(* errgroup.  When one returns an error (Track when containerd closes the *)
(* event channel, router.Run, a ListenAndServe) the group's context is    *)
(* cancelled, Track returns at its select (ctx.Done), g.Wait returns the  *)
(* error and the process exits.  Events already delivered are received    *)
(* first.                                                                  *)
ProcessExits ==
  /\ GroupFails /\ alive /\ pc = "idle" /\ events = <<>>
  /\ alive' = FALSE
  /\ UNCHANGED <<store, blobs, pipCache, hfCache, ttl, tick, events, pc, busy,
                 fetchQ, churn>>

-----------------------------------------------------------------------------
(* Time and the rest of the node.                                          *)

(* One ticker period passes: the ticker offers a tick (dropped if one is  *)
(* waiting), and every provider record ages in the DHT, a record at zero   *)
(* having expired.  The ageing is the DHT's (MaxRecordAge), not this       *)
(* repository's code.                                                      *)
Minute ==
  /\ ttl' = [k \in Keys |-> IF ttl[k] > 0 THEN ttl[k] - 1 ELSE 0]
  /\ tick' = TRUE
  /\ UNCHANGED <<store, blobs, pipCache, hfCache, events, pc, busy, fetchQ,
                 alive, churn>>

(* containerd stores or removes an image and emits an event, which a      *)
(* running process receives.                                               *)
Notify(img, type) ==
  IF alive THEN Append(events, [img |-> img, type |-> type]) ELSE events

PullImage(img) ==
  /\ churn < MaxChurn /\ Len(events) < MaxEvents /\ img \notin store
  /\ store' = store \cup {img}
  /\ events' = Notify(img, "create")
  /\ churn' = churn + 1
  /\ UNCHANGED <<blobs, pipCache, hfCache, ttl, tick, pc, busy, fetchQ, alive>>

DeleteImage(img) ==
  /\ churn < MaxChurn /\ Len(events) < MaxEvents /\ img \in store
  /\ store' = store \ {img}
  /\ events' = Notify(img, "delete")
  /\ churn' = churn + 1
  /\ UNCHANGED <<blobs, pipCache, hfCache, ttl, tick, pc, busy, fetchQ, alive>>

(* The pip handler stores a package from the fallback index and advertises *)
(* its key.                                                                 *)
PipDownload(k) ==
  /\ churn < MaxChurn /\ alive /\ k \notin pipCache
  /\ pipCache' = pipCache \cup {k}
  /\ ttl' = Publish({k})
  /\ churn' = churn + 1
  /\ UNCHANGED <<store, blobs, hfCache, tick, events, pc, busy, fetchQ, alive>>

(* The Hugging Face library writes a file into the shared HF cache.        *)
HfDownload(k) ==
  /\ churn < MaxChurn /\ k \notin hfCache
  /\ hfCache' = hfCache \cup {k}
  /\ churn' = churn + 1
  /\ UNCHANGED <<store, blobs, pipCache, ttl, tick, events, pc, busy, fetchQ,
                 alive>>

Tracker ==
  TickAll \/ HandleEvent \/ Synchronise \/ FetchOne \/ SyncDone
    \/ SyncPip \/ SyncHF \/ Restart

Environment ==
  \/ \E img \in Images : PullImage(img) \/ DeleteImage(img)
  \/ \E k \in PipKeys : PipDownload(k)
  \/ \E k \in HfKeys : HfDownload(k)

Next == Tracker \/ ProcessExits \/ Minute \/ Environment

(* The Track goroutine runs whenever it has work; time keeps passing; the  *)
(* DaemonSet restarts a crashed process.  Pulls, downloads and failures of *)
(* the errgroup need not happen.                                           *)
Fairness ==
  /\ WF_vars(TickAll) /\ WF_vars(HandleEvent) /\ WF_vars(Synchronise)
  /\ WF_vars(FetchOne) /\ WF_vars(SyncDone) /\ WF_vars(SyncPip)
  /\ WF_vars(SyncHF) /\ WF_vars(Restart) /\ WF_vars(Minute)

Spec == Init /\ [][Next]_vars /\ Fairness

-----------------------------------------------------------------------------
(* The shape of the state.  No run checks it: its one numeric field, ttl,  *)
(* is aged by the DHT clock above, which is not the tracker's code.        *)
TypeOK ==
  /\ store \subseteq Images /\ blobs \subseteq Digests
  /\ pipCache \subseteq PipKeys /\ hfCache \subseteq HfKeys
  /\ ttl \in [Keys -> 0..KeyTTL]
  /\ tick \in BOOLEAN /\ busy \in BOOLEAN /\ alive \in BOOLEAN
  /\ events \in Seq([img : Images, type : {"create", "delete"}])
  /\ Len(events) <= MaxEvents
  /\ pc \in {"idle", "sync", "fetch", "pip", "hf"}
  /\ fetchQ \subseteq PeerInventory /\ churn \in 0..MaxChurn

(* Content the node holds and can serve, by key.                           *)
Held(k) ==
  \/ k \in Images /\ k \in store /\ Walkable(k)
     /\ (ResolveLatestTag \/ k \notin LatestImages)
  \/ k \in Digests /\ k \in HeldDigests \ Broken
  \/ k \in pipCache \/ k \in hfCache

(* Provider records of held content are republished before they expire    *)
(* (spec 4.6: the ticker re-advertises all content every KeyTTL - 1 min): *)
(* once the process stays up, a key that stays held has its record         *)
(* published afresh again and again.  (A prefetch panic on every tick is   *)
(* the NoCrash finding; it is left out by the first conjunct.)             *)
HeldKeysRepublished ==
  <>[]alive =>
    \A k \in Keys \ {PeerIndexKey} : []<>(Held(k) => ttl[k] = KeyTTL)

(* The tracker process keeps running: no prefetch answer brings it down.   *)
NoCrash == alive

(* A layer a peer lists and the node lacks is, once synchronise has picked *)
(* it, eventually in the node's content store (spec 4.6: prefetch).        *)
PrefetchStoresMissing ==
  \A d \in PeerInventory : (d \in fetchQ /\ d \notin ContentDigests)
                              ~> d \in ContentDigests

=============================================================================
