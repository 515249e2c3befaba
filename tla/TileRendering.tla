--------------------------- MODULE TileRendering ---------------------------
(***************************************************************************)
(* The tile path of a DocumentBroker (wsd/DocumentBroker.cpp, lines       *)
(* 1189-1384): client tile and tilecombine requests answered from the     *)
(* tile cache or forwarded to the kit with the requester subscribed,      *)
(* cancellation, the kit's tile responses stored and sent to the          *)
(* subscribers, and invalidation.                                          *)
(*                                                                         *)
(* The TileCache (not in this file) is modelled from its contract: a      *)
(* cached version per tile and a subscriber set per tile.  The kit reads  *)
(* its socket into a queue: a canceltiles drops the renders of its tiles  *)
(* still queued before it.  A render starts at the document's version of  *)
(* the moment and its answer is sent later: spec section 5, tile          *)
(* responses are not ordered with respect to other messages, so an edit's *)
(* invalidatetiles can reach the broker before the answer to a render     *)
(* that began before the edit.  Tile contents are abstracted to the       *)
(* document version they were rendered at.                                *)
(***************************************************************************)
EXTENDS Naturals, FiniteSets, Sequences, SequencesExt

CONSTANTS
    Sessions,         \* the sessions attached to the broker
    Tiles,            \* tile descriptors, up to the equivalence the cache uses
    MaxRequests,      \* bound on client tile / tilecombine requests
    MaxEdits,         \* bound on document edits in the kit
    KitCanSendEmpty   \* the kit may answer a render with an empty payload

ASSUME /\ Sessions # {} /\ Tiles # {}
       /\ MaxRequests \in Nat /\ MaxEdits \in Nat /\ KitCanSendEmpty \in BOOLEAN

NoTile == -1              \* lookupTile finds nothing

VARIABLES
    cache,        \* TileCache: the document version each cached tile shows, or NoTile
    subs,         \* TileCache: the sessions subscribed to each tile's rendering
    tileVersion,  \* _tileVersion
    toKit,        \* broker -> kit socket and the kit's queue of commands
    fromKit,      \* kit -> broker socket
    docVer,       \* the kit's document version
    rendering,    \* the kit's renders begun and not yet answered, in order
    waiting,      \* history: the tiles each session asked for and has not received
    requests,     \* history: the requests clients have sent
    stranded      \* history: <<session, tile>> whose last render came back empty

vars == <<cache, subs, tileVersion, toKit, fromKit, docVer, rendering, waiting,
          requests, stranded>>
kitVars == <<toKit, docVer, rendering>>

Render(type, ts, v) == [type |-> type, tiles |-> ts, ver |-> v]
Answer(type, ts, v, empty) == [type |-> type, tiles |-> ts, doc |-> v, empty |-> empty]
IsRender(m) == m.type \in {"tile", "tilecombine"}

-----------------------------------------------------------------------------
(* TileCache, from its contract.                                           *)

\* subscribeToTileRendering for every session in ss.
Subscribe(t, ss) == [subs EXCEPT ![t] = @ \cup ss]

\* cancelTiles(session): unsubscribe s everywhere; the tiles left without
\* any subscriber are the ones to cancel in the kit.
Unsubscribed(s) == [t \in Tiles |-> subs[t] \ {s}]
CancelledTiles(s) == {t \in Tiles : s \in subs[t] /\ subs[t] = {s}}

\* saveTileAndNotify for each tile of ts rendered at document version v:
\* store it and send it to every subscriber, then forget them.
SaveTilesAndNotify(ts, v) ==
    /\ cache' = [t \in Tiles |-> IF t \in ts THEN v ELSE cache[t]]
    /\ subs' = [t \in Tiles |-> IF t \in ts THEN {} ELSE subs[t]]
    /\ waiting' = [s \in Sessions |-> waiting[s] \ {t \in ts : s \in subs[t]}]

\* A render of ts is forwarded: whoever an empty answer left waiting for
\* one of these tiles is waiting on a render again.
Reissued(ts) == {p \in stranded : p[2] \notin ts}

-----------------------------------------------------------------------------
(* Client requests, run on the broker thread under _mutex.                 *)

\* handleTileRequest.  broadcast: the tile is for every session.
HandleTileRequest(s, t, broadcast) ==
    /\ requests < MaxRequests
    /\ requests' = requests + 1
    /\ tileVersion' = tileVersion + 1
    /\ IF cache[t] # NoTile
       THEN UNCHANGED <<subs, toKit, waiting, stranded>>   \* sent from the cache
       ELSE /\ subs' = Subscribe(t, IF broadcast THEN Sessions ELSE {s})
            /\ waiting' = [waiting EXCEPT ![s] = @ \cup {t}]
            /\ toKit' = Append(toKit, Render("tile", {t}, tileVersion'))
            /\ stranded' = Reissued({t})
    /\ UNCHANGED <<cache, fromKit, docVer, rendering>>

\* Mutant: handleTileCombinedRequest without "if (!tiles.empty())".
HandleTileCombinedRequestAlwaysForwarding(s, ts) ==
    LET missing == {t \in ts : cache[t] = NoTile} IN
    /\ requests < MaxRequests
    /\ requests' = requests + 1
    /\ tileVersion' = tileVersion + Cardinality(missing)
    /\ subs' = [t \in Tiles |-> IF t \in missing THEN subs[t] \cup {s} ELSE subs[t]]
    /\ waiting' = [waiting EXCEPT ![s] = @ \cup missing]
    /\ toKit' = Append(toKit, Render("tilecombine", missing, tileVersion'))
    /\ stranded' = Reissued(missing)
    /\ UNCHANGED <<cache, fromKit, docVer, rendering>>

\* handleTileCombinedRequest: the cached tiles are sent, the others each
\* get a version and a subscription and go to the kit in one tilecombine.
HandleTileCombinedRequest(s, ts) ==
    LET missing == {t \in ts : cache[t] = NoTile} IN
    /\ requests < MaxRequests
    /\ requests' = requests + 1
    /\ tileVersion' = tileVersion + Cardinality(missing)
    /\ subs' = [t \in Tiles |-> IF t \in missing THEN subs[t] \cup {s} ELSE subs[t]]
    /\ waiting' = [waiting EXCEPT ![s] = @ \cup missing]
    /\ toKit' = IF missing = {} THEN toKit
                ELSE Append(toKit, Render("tilecombine", missing, tileVersion'))
    /\ stranded' = Reissued(missing)
    /\ UNCHANGED <<cache, fromKit, docVer, rendering>>

\* Mutant: canceltiles forwarded for every tile the session subscribed to.
CancelTileRequestsAll(s) ==
    /\ subs' = Unsubscribed(s)
    /\ toKit' = IF {t \in Tiles : s \in subs[t]} = {} THEN toKit
                ELSE Append(toKit, Render("canceltiles", {t \in Tiles : s \in subs[t]}, 0))
    /\ waiting' = [waiting EXCEPT ![s] = {}]
    /\ stranded' = {p \in stranded : p[1] # s}
    /\ UNCHANGED <<cache, tileVersion, fromKit, docVer, rendering, requests>>

\* cancelTileRequests: forward canceltiles for the tiles nobody waits for.
CancelTileRequests(s) ==
    /\ subs' = Unsubscribed(s)
    /\ toKit' = IF CancelledTiles(s) = {} THEN toKit
                ELSE Append(toKit, Render("canceltiles", CancelledTiles(s), 0))
    /\ waiting' = [waiting EXCEPT ![s] = {}]
    /\ stranded' = {p \in stranded : p[1] # s}
    /\ UNCHANGED <<cache, tileVersion, fromKit, docVer, rendering, requests>>

-----------------------------------------------------------------------------
(* The kit's answers, handled by handleInput on the broker thread.         *)

\* History: the waiting clients an empty answer for ts leaves waiting, and
\* what is left of stranded once the tiles of ts are sent.
Stranded(ts) == {p \in Sessions \X ts : p[2] \in waiting[p[1]]}
Served(ts) == {p \in stranded : p[2] \notin ts}

\* Mutant: an empty payload also forgets the tiles' subscribers.
HandleTileResponseForgetting ==
    /\ fromKit # <<>>
    /\ IsRender(Head(fromKit))
    /\ fromKit' = Tail(fromKit)
    /\ LET m == Head(fromKit) IN
       IF m.empty
         THEN /\ subs' = [t \in Tiles |-> IF t \in m.tiles THEN {} ELSE subs[t]]
              /\ stranded' = stranded \cup Stranded(m.tiles)
              /\ UNCHANGED <<cache, waiting>>
       ELSE /\ SaveTilesAndNotify(m.tiles, m.doc)
            /\ stranded' = Served(m.tiles)
    /\ UNCHANGED <<tileVersion, kitVars, requests>>

\* handleTileResponse / handleTileCombinedResponse: a payload with no bytes
\* after the first line is dropped; else every tile is saved and sent.
HandleTileResponse ==
    /\ fromKit # <<>>
    /\ IsRender(Head(fromKit))
    /\ fromKit' = Tail(fromKit)
    /\ LET m == Head(fromKit) IN
       IF m.empty
         THEN /\ stranded' = stranded \cup Stranded(m.tiles)
              /\ UNCHANGED <<cache, subs, waiting>>
       ELSE /\ SaveTilesAndNotify(m.tiles, m.doc)
            /\ stranded' = Served(m.tiles)
    /\ UNCHANGED <<tileVersion, kitVars, requests>>

\* Mutant: the notification is consumed without invalidating the cache.
InvalidateTilesDropped ==
    /\ fromKit # <<>>
    /\ Head(fromKit).type = "invalidatetiles"
    /\ fromKit' = Tail(fromKit)
    /\ UNCHANGED <<cache, subs, tileVersion, kitVars, waiting, requests, stranded>>

\* invalidateTiles, on the kit's invalidatetiles notification.
InvalidateTiles ==
    /\ fromKit # <<>>
    /\ Head(fromKit).type = "invalidatetiles"
    /\ fromKit' = Tail(fromKit)
    /\ cache' = [t \in Tiles |-> IF t \in Head(fromKit).tiles THEN NoTile ELSE cache[t]]
    /\ UNCHANGED <<subs, tileVersion, kitVars, waiting, requests, stranded>>

-----------------------------------------------------------------------------
(* The kit.                                                                *)

\* Begins the first queued render, at the current document version.
KitRender(empty) ==
    /\ toKit # <<>>
    /\ IsRender(Head(toKit))
    /\ toKit' = Tail(toKit)
    /\ rendering' = Append(rendering, Answer(Head(toKit).type, Head(toKit).tiles, docVer, empty))
    /\ UNCHANGED <<cache, subs, tileVersion, fromKit, docVer, waiting, requests, stranded>>

\* Sends the answer to the oldest render begun.
KitAnswer ==
    /\ rendering # <<>>
    /\ rendering' = Tail(rendering)
    /\ fromKit' = Append(fromKit, Head(rendering))
    /\ UNCHANGED <<cache, subs, tileVersion, toKit, docVer, waiting, requests, stranded>>

\* Reads a canceltiles: the queued renders before it lose those tiles.
KitCancel ==
    LET i == SelectInSeq(toKit, LAMBDA m : m.type = "canceltiles")
        drop == toKit[i].tiles
        keep(m) == [m EXCEPT !.tiles = @ \ drop]
        before == SelectSeq([j \in 1..(i - 1) |-> keep(toKit[j])],
                            LAMBDA m : m.tiles # {})
    IN /\ i > 0
       /\ toKit' = before \o SubSeq(toKit, i + 1, Len(toKit))
       /\ UNCHANGED <<cache, subs, tileVersion, fromKit, docVer, rendering, waiting,
                      requests, stranded>>

\* An edit changes the document and invalidates every tile.
KitEdit ==
    /\ docVer < MaxEdits
    /\ docVer' = docVer + 1
    /\ fromKit' = Append(fromKit, Answer("invalidatetiles", Tiles, docVer', FALSE))
    /\ UNCHANGED <<cache, subs, tileVersion, toKit, rendering, waiting, requests, stranded>>

-----------------------------------------------------------------------------

Init ==
    /\ cache = [t \in Tiles |-> NoTile]
    /\ subs = [t \in Tiles |-> {}]
    /\ tileVersion = 0
    /\ toKit = <<>> /\ fromKit = <<>>
    /\ docVer = 0
    /\ rendering = <<>>
    /\ waiting = [s \in Sessions |-> {}]
    /\ requests = 0
    /\ stranded = {}

\* Nothing is in flight and the clients have made their requests: the
\* broker waits in poll().
Idle == toKit = <<>> /\ rendering = <<>> /\ fromKit = <<>> /\ UNCHANGED vars

Next ==
    \/ \E s \in Sessions, t \in Tiles, b \in BOOLEAN : HandleTileRequest(s, t, b)
    \/ \E s \in Sessions, ts \in SUBSET Tiles \ {{}} : HandleTileCombinedRequest(s, ts)
    \/ \E s \in Sessions : CancelTileRequests(s)
    \/ HandleTileResponse \/ InvalidateTiles
    \/ KitRender(FALSE) \/ KitAnswer \/ KitCancel \/ KitEdit
    \/ KitCanSendEmpty /\ KitRender(TRUE)
    \/ Idle

\* The broker thread handles what the kit sends; the kit works through its
\* queue.  Clients and edits are not fair.
Spec == Init /\ [][Next]_vars
        /\ WF_vars(HandleTileResponse) /\ WF_vars(InvalidateTiles)
        /\ WF_vars(KitRender(FALSE)) /\ WF_vars(KitAnswer) /\ WF_vars(KitCancel)

-----------------------------------------------------------------------------
(* Properties.                                                             *)

\* Every variable keeps its type, and no tile or tilecombine request the
\* broker sends to the kit names an empty set of tiles (a tilecombine
\* whose tiles were all served from the cache is not forwarded).
TypeOK ==
    /\ cache \in [Tiles -> {NoTile} \cup 0..MaxEdits]
    /\ subs \in [Tiles -> SUBSET Sessions]
    /\ waiting \in [Sessions -> SUBSET Tiles]
    /\ tileVersion \in Nat /\ requests \in 0..MaxRequests
    /\ docVer \in 0..MaxEdits
    /\ stranded \subseteq Sessions \X Tiles
    /\ \A i \in DOMAIN toKit : toKit[i].tiles # {}

\* Once the invalidations the kit has sent are handled, the cache holds no
\* tile older than the document: handleTileResponse stores what the kit
\* rendered and invalidateTiles removes what an edit made stale, so a
\* client served from the cache by handleTileRequest sees the document.
CachedTileIsCurrent ==
    (\A i \in DOMAIN fromKit : fromKit[i].type # "invalidatetiles")
        => \A t \in Tiles : cache[t] \in {NoTile, docVer}

\* A client waiting for a tile, unless the kit's last answer for it was
\* empty, has a render of that tile on its way: queued in the kit, being
\* rendered or answered.  cancelTileRequests cancels in the kit only the
\* tiles no other session is subscribed to, and the kit drops only the
\* renders queued before the canceltiles, so a render forwarded for a
\* later subscriber survives the cancel.
InFlight(t) ==
    \E m \in Range(toKit) \cup Range(rendering) \cup Range(fromKit) :
        IsRender(m) /\ t \in m.tiles
WaiterHasRenderInFlight ==
    \A s \in Sessions, t \in Tiles :
        t \in waiting[s] /\ <<s, t>> \notin stranded => InFlight(t)

\* A client that asked for a tile, by tile or tilecombine, and did not
\* cancel eventually receives it, or the kit's answer to the render came
\* back empty: handleTileResponse keeps the subscribers of an empty
\* answer, and saveTileAndNotify answers every subscriber of the next
\* render of the tile; nothing in the broker re-issues the render itself.
SubscriberEventuallyServed ==
    \A s \in Sessions, t \in Tiles :
        (t \in waiting[s]) ~> (t \notin waiting[s] \/ <<s, t>> \in stranded)
=============================================================================
