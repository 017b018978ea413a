------------------------- MODULE ReferencePricesProofs -------------------------
(***************************************************************************)
(* Proofs about reference prices: for any number of calls, of databases    *)
(* that replace each other, and of prices.                                 *)
(***************************************************************************)
EXTENDS ReferencePrices, TLAPS

-----------------------------------------------------------------------------
(* The inductive invariant *)

Places == {"idle", "lookup", "miss", "reading", "looked", "refresh", "wait", "recheck", "done"}
              \union Refreshing

LookingUp == {"lookup", "miss", "reading"}

Call == [kind : {"admission", "usage", "ensure", "manual"}, manager : Managers \union {Nobody},
         observed : Nat, found : Catalogs, meta : Metadata, next : Metadata, error : Errors,
         again : BOOLEAN, answer : Catalogs \union Errors \union {"error", "switched", "custom"}]

Typed ==
    /\ clock \in Nat
    /\ current \in Managers /\ retired \subseteq Managers
    /\ closed \subseteq retired /\ current \notin retired
    /\ db \in [Managers -> Metadata] /\ meta \in [Managers -> Metadata]
    /\ cache \in [Managers -> Catalogs \union {Empty}]
    /\ flight \in [Managers -> Callers \union {Nobody}]
    /\ sequence \in [Managers -> Nat]
    /\ pc \in [Callers -> Places]
    /\ call \in [Callers -> Call]
    /\ offered \in [Callers -> SUBSET Catalogs]
    /\ downloads \in [Managers -> Nat]

(* Nothing but a manual refresh is due at this instant any more. *)
Settled(d) == (Usable(d) /\ d.fetchedAt = clock) \/ clock < d.retryAfter

(* Caller c, at place p with locals l, is the one that refreshes m; if a call *)
(* already asked for a download at this instant, then this one is of it. *)
Refreshes(m, p, l) ==
    /\ p \in Refreshing /\ l.manager = m
    /\ downloads[m] # 0 =>
          /\ p = "commit" => l.next.fetchedAt = clock
          /\ p = "publish" => Settled(l.next)

ManagerSound(m) ==
    /\ cache[m] \in {Empty, db[m].content}
    /\ meta[m].content = db[m].content
    /\ downloads[m] \in {0, 1}
    /\ flight[m] = Nobody => downloads[m] = 0 \/ Settled(meta[m])
    /\ flight[m] # Nobody => Refreshes(m, pc[flight[m]], call[flight[m]])

(* What a call knows is true of the manager it works with. *)
Sound(c, p, l) ==
    /\ p \notin {"idle", "done"} => l.manager \in retired \union {current}
    /\ p \in LookingUp \union {"looked", "recheck"} => l.kind \in {"admission", "usage"}
    /\ p \in LookingUp => l.found = Absent
    /\ p \in LookingUp \union {"refresh", "wait"} \union Refreshing => l.error = "none"
    /\ p = "reading" => Usable(db[l.manager])
    /\ p \in Refreshing => flight[l.manager] = c
    /\ p \in {"download", "load", "commit", "fail"} => l.meta.content = db[l.manager].content
    /\ p \in {"load", "commit"} => l.next.content \in Catalogs
    /\ p = "publish" => l.next.content = db[l.manager].content

(* What the database in use offers during a call is on record, and what the *)
(* call holds of it is among that. *)
Offering(c, p, l) ==
    /\ p = "done" /\ l.answer \in Catalogs => l.answer \in offered[c]
    /\ l.kind \in {"admission", "usage"} /\ p \notin {"idle", "done"} =>
          /\ OfferOf(db[current]) \in offered[c]
          /\ p \notin LookingUp /\ l.error = "none" /\ l.manager = current => l.found \in offered[c]

Inv ==
    /\ Typed
    /\ \A m \in Managers : ManagerSound(m)
    /\ \A c \in Callers : Sound(c, pc[c], call[c])
    /\ \A c \in Callers : Offering(c, pc[c], call[c])

LEMMA CatalogFacts ==
    /\ Absent \in Catalogs /\ NoCatalog \notin Catalogs /\ Empty \notin Catalogs
    /\ Nobody \notin Callers /\ Nobody \notin Managers
    /\ {"none", "error", "switched", "custom"} \intersect Catalogs = {}
    /\ NoMetadata \in Metadata
    /\ \A d \in Metadata : Usable(d) => d.content \in Catalogs /\ OfferOf(d) = d.content
    /\ \A d \in Metadata : ~Usable(d) => OfferOf(d) = Absent
  BY ReferenceAssumption DEF Catalogs, NoMetadata, Metadata, Usable, OfferOf

LEMMA NoCallIsCall ==
    /\ NoCall \in Call
    /\ NoCall.kind = "usage" /\ NoCall.found = Absent /\ NoCall.error = "none"
    /\ NoCall.answer = "none"
  BY CatalogFacts DEF NoCall, Call, Errors

LEMMA InvInit == Init => Inv
  <1> SUFFICES ASSUME Init PROVE Inv
    OBVIOUS
  <1>1. \A p \in Catalogs \union {NoCatalog} : [NoMetadata EXCEPT !.content = p] \in Metadata
    BY DEF NoMetadata, Metadata
  <1>2. db \in [Managers -> Metadata] /\ meta = db
    BY <1>1 DEF Init
  <1>3. Typed
    BY <1>2, NoCallIsCall DEF Init, Typed, Places
  <1>4. \A m \in Managers : ManagerSound(m)
    BY <1>2 DEF Init, ManagerSound
  <1>5. \A c \in Callers : pc[c] = "idle" /\ call[c] = NoCall
    BY DEF Init
  <1>6. \A c \in Callers : Sound(c, pc[c], call[c]) /\ Offering(c, pc[c], call[c])
    BY <1>5 DEF Sound, Offering, LookingUp, Refreshing
  <1> QED
    BY <1>3, <1>4, <1>6 DEF Inv

-----------------------------------------------------------------------------
(* One caller moves *)

Moves(c, p, l) ==
    /\ pc' = [pc EXCEPT ![c] = p]
    /\ call' = [call EXCEPT ![c] = l]

LEMMA MoveEffect ==
    ASSUME Inv, NEW c \in Callers, NEW p \in Places, NEW l \in Call, Moves(c, p, l)
    PROVE  /\ pc' \in [Callers -> Places] /\ call' \in [Callers -> Call]
           /\ pc'[c] = p /\ call'[c] = l
           /\ \A d \in Callers \ {c} : pc'[d] = pc[d] /\ call'[d] = call[d]
  BY DEF Moves, Inv, Typed

(* Nobody is at two places of a refresh, and who refreshes is on record. *)
LEMMA FlightIsOfRefresher ==
    ASSUME Inv, NEW c \in Callers, NEW m \in Managers, flight[m] = c
    PROVE  pc[c] \in Refreshing /\ call[c].manager = m
  BY CatalogFacts DEF Inv, ManagerSound, Refreshes

(* A move that is sound by itself and touches no manager. *)
LocalMove(c) ==
    \E p \in Places, l \in Call :
        /\ Moves(c, p, l)
        /\ Sound(c, p, l)
        /\ Offering(c, p, l)
        /\ \A m \in Managers : flight[m] = c => Refreshes(m, p, l)

Untouched == UNCHANGED <<clock, managers, offered, downloads>>

LEMMA LocalStep ==
    ASSUME Inv, NEW c \in Callers, LocalMove(c), Untouched
    PROVE  Inv'
  <1>1. PICK p \in Places, l \in Call :
            /\ Moves(c, p, l) /\ Sound(c, p, l) /\ Offering(c, p, l)
            /\ \A m \in Managers : flight[m] = c => Refreshes(m, p, l)
    BY DEF LocalMove
  <1>2. /\ pc' \in [Callers -> Places] /\ call' \in [Callers -> Call]
        /\ pc'[c] = p /\ call'[c] = l
        /\ \A d \in Callers \ {c} : pc'[d] = pc[d] /\ call'[d] = call[d]
    BY <1>1, MoveEffect
  <1>3. UNCHANGED <<clock, current, retired, closed, db, meta, cache, flight, sequence, failed,
                    offered, downloads>>
    BY DEF Untouched, managers
  <1>4. Typed'
    BY <1>2, <1>3 DEF Inv, Typed
  <1>5. ASSUME NEW m \in Managers PROVE ManagerSound(m)'
    <2>1. ManagerSound(m) /\ flight[m] \in Callers \union {Nobody}
      BY DEF Inv, Typed
    <2>2. flight[m] # Nobody => Refreshes(m, pc'[flight[m]], call'[flight[m]])
      BY <1>1, <1>2, <2>1 DEF ManagerSound
    <2> QED
      BY <1>3, <2>1, <2>2 DEF ManagerSound, Refreshes, Settled
  <1>6. ASSUME NEW d \in Callers PROVE Sound(d, pc[d], call[d])' /\ Offering(d, pc[d], call[d])'
    <2>1. Sound(d, pc'[d], call'[d]) /\ Offering(d, pc'[d], call'[d])
      BY <1>1, <1>2 DEF Inv
    <2> QED
      BY <1>3, <2>1 DEF Sound, Offering
  <1> QED
    BY <1>4, <1>5, <1>6 DEF Inv

(* The state of a caller. *)
LEMMA CallerState ==
    ASSUME Inv, NEW c \in Callers
    PROVE  /\ pc[c] \in Places /\ call[c] \in Call
           /\ Sound(c, pc[c], call[c]) /\ Offering(c, pc[c], call[c])
           /\ pc[c] \notin {"idle", "done"} => call[c].manager \in Managers
  BY DEF Inv, Typed, Sound

LEMMA ManagerState ==
    ASSUME Inv, NEW m \in Managers
    PROVE  /\ db[m] \in Metadata /\ meta[m] \in Metadata /\ meta[m].content = db[m].content
           /\ cache[m] \in {Empty, db[m].content}
           /\ cache[m] # Empty => Usable(db[m]) /\ cache[m] \in Catalogs
           /\ sequence[m] \in Nat
  BY CatalogFacts DEF Inv, Typed, ManagerSound, Usable

LEMMA NotFlying ==
    ASSUME Inv, NEW c \in Callers, pc[c] \notin Refreshing
    PROVE  \A m \in Managers : flight[m] # c
  BY FlightIsOfRefresher

(* A call that leaves or avoids a refresh: it looks up again, gives up or ends. *)
LEMMA ReturnsSoundly ==
    ASSUME Inv, NEW c \in Callers, pc[c] \in {"refresh", "wait", "publish"}, NEW error,
           Returns(c, call[c], error)
    PROVE  \E p \in Places \ Refreshing, l \in Call :
              Moves(c, p, l) /\ Sound(c, p, l) /\ Offering(c, p, l)
  <1> DEFINE l0 == call[c]
  <1>0. /\ l0 \in Call /\ Sound(c, pc[c], l0) /\ Offering(c, pc[c], l0)
        /\ l0.manager \in Managers /\ l0.found \in Catalogs /\ l0.error = "none"
    BY CallerState DEF Sound, Call, Refreshing
  <1>p. {"done", "lookup", "recheck"} \subseteq Places \ Refreshing
    BY DEF Places, Refreshing
  <1>1. CASE l0.kind \in {"ensure", "manual"}
    <2>1. Moves(c, "done", NoCall)
      BY <1>1 DEF Returns, Goes, Sets, Moves
    <2>2. Sound(c, "done", NoCall) /\ Offering(c, "done", NoCall)
      BY NoCallIsCall, CatalogFacts DEF Sound, Offering, LookingUp, Refreshing
    <2> QED
      BY <1>p, <2>1, <2>2, NoCallIsCall
  <1>2. CASE l0.kind \notin {"ensure", "manual"} /\ error = "none"
    <2> DEFINE l == ToLookup(l0)
    <2>1. Moves(c, "lookup", l)
      BY <1>2 DEF Returns, Goes, Sets, Moves
    <2>2. l \in Call /\ l.kind = l0.kind /\ l.manager = l0.manager /\ l.found = Absent /\ l.error = "none"
      BY <1>0, NoCallIsCall DEF ToLookup, Call, NoCall
    <2>3. Sound(c, "lookup", l) /\ Offering(c, "lookup", l)
      BY <1>0, <1>2, <2>2 DEF Sound, Offering, LookingUp, Refreshing, Call
    <2> QED
      BY <1>p, <2>1, <2>2, <2>3
  <1>3. CASE l0.kind \notin {"ensure", "manual"} /\ error # "none"
    <2> DEFINE e == IF l0.found = Absent /\ error = "storage" THEN "storage" ELSE "none"
               l == ToRecheck(l0, e)
    <2>1. Moves(c, "recheck", l)
      BY <1>3 DEF Returns, Goes, Sets, Moves
    <2>2. l \in Call /\ l.kind = "usage" /\ l.manager = l0.manager /\ l.found = l0.found
      BY <1>0, NoCallIsCall DEF ToRecheck, Call, NoCall, Errors
    <2>3. Sound(c, "recheck", l) /\ Offering(c, "recheck", l)
      BY <1>0, <1>3, <2>2 DEF Sound, Offering, LookingUp, Refreshing, Call
    <2> QED
      BY <1>p, <2>1, <2>2, <2>3
  <1> QED
    BY <1>1, <1>2, <1>3

LEMMA RequestIsLocal ==
    ASSUME Inv, NEW c \in Callers, NEW kind, Request(c, kind) PROVE LocalMove(c) /\ Untouched
  <1> DEFINE l == [NoCall EXCEPT !.kind = kind, !.manager = current, !.observed = sequence[current],
                                 !.found = CHOOSE p \in Prices : TRUE]
  <1>1. Moves(c, "refresh", l) /\ Untouched /\ kind \in {"ensure", "manual"} /\ pc[c] = "idle"
    BY DEF Request, Goes, Sets, Moves, Untouched
  <1>2. (CHOOSE p \in Prices : TRUE) \in Catalogs
    BY ReferenceAssumption DEF Catalogs
  <1>3. current \in Managers /\ sequence[current] \in Nat
    BY DEF Inv, Typed
  <1>4. l \in Call /\ l.kind = kind /\ l.manager = current /\ l.error = "none"
    BY <1>1, <1>2, <1>3, NoCallIsCall DEF Call, NoCall
  <1>5. Sound(c, "refresh", l) /\ Offering(c, "refresh", l)
    BY <1>1, <1>4 DEF Sound, Offering, LookingUp, Refreshing
  <1>6. "refresh" \in Places /\ pc[c] \notin Refreshing
    BY <1>1 DEF Places, Refreshing
  <1> HIDE DEF l
  <1> QED
    BY <1>1, <1>4, <1>5, <1>6, NotFlying DEF LocalMove

LEMMA LookupIsLocal ==
    ASSUME Inv, NEW c \in Callers, Lookup(c) PROVE LocalMove(c) /\ Untouched
  <1> DEFINE l0 == call[c]
             m == l0.manager
             l == [l0 EXCEPT !.found = cache[m], !.meta = meta[m], !.observed = sequence[m]]
  <1>1. pc[c] = "lookup" /\ Untouched
    BY DEF Lookup, Untouched
  <1>2. /\ l0 \in Call /\ m \in Managers /\ Sound(c, "lookup", l0) /\ Offering(c, "lookup", l0)
    BY <1>1, CallerState
  <1>3. /\ meta[m] \in Metadata /\ sequence[m] \in Nat
        /\ cache[m] # Empty => /\ cache[m] \in Catalogs /\ cache[m] = OfferOf(db[m])
    BY <1>2, ManagerState, CatalogFacts
  <1>4. {"looked", "miss"} \subseteq Places /\ pc[c] \notin Refreshing
    BY <1>1 DEF Places, Refreshing
  <1>5. CASE cache[m] # Empty /\ Moves(c, "looked", l)
    <2>1. l \in Call /\ l.kind = l0.kind /\ l.manager = m /\ l.found = OfferOf(db[m]) /\ l.error = l0.error
      BY <1>2, <1>3, <1>5 DEF Call
    <2>2. Sound(c, "looked", l) /\ Offering(c, "looked", l)
      BY <1>2, <2>1 DEF Sound, Offering, LookingUp, Refreshing
    <2> HIDE DEF l
    <2> QED
      BY <1>1, <1>4, <1>5, <2>1, <2>2, NotFlying DEF LocalMove
  <1>6. CASE cache[m] = Empty /\ Goes(c, "miss") /\ UNCHANGED call
    <2>1. Moves(c, "miss", l0)
      BY <1>6 DEF Moves, Goes, Inv, Typed
    <2>2. Sound(c, "miss", l0) /\ Offering(c, "miss", l0)
      BY <1>2 DEF Sound, Offering, LookingUp, Refreshing
    <2> QED
      BY <1>1, <1>2, <1>4, <2>1, <2>2, NotFlying DEF LocalMove
  <1> QED
    BY <1>1, <1>5, <1>6 DEF Lookup, Moves, Goes, Sets, Manager

LEMMA MissIsLocal ==
    ASSUME Inv, NEW c \in Callers, Miss(c) PROVE LocalMove(c) /\ Untouched
  <1> DEFINE l0 == call[c]
             m == l0.manager
             failing == [l0 EXCEPT !.error = "other"]
             l == [l0 EXCEPT !.meta = meta[m], !.observed = sequence[m]]
  <1>1. pc[c] = "miss" /\ Untouched
    BY DEF Miss, Untouched
  <1>2. l0 \in Call /\ m \in Managers /\ Sound(c, "miss", l0) /\ Offering(c, "miss", l0)
    BY <1>1, CallerState
  <1>3. meta[m] \in Metadata /\ sequence[m] \in Nat /\ (Usable(meta[m]) <=> Usable(db[m]))
    BY <1>2, ManagerState DEF Usable
  <1>4. {"looked", "reading"} \subseteq Places /\ pc[c] \notin Refreshing
    BY <1>1 DEF Places, Refreshing
  <1>5. CASE Moves(c, "looked", failing)
    <2>1. /\ failing \in Call /\ failing.kind = l0.kind /\ failing.manager = m
          /\ failing.error = "other"
      BY <1>2 DEF Call, Errors
    <2>2. Sound(c, "looked", failing) /\ Offering(c, "looked", failing)
      BY <1>2, <2>1 DEF Sound, Offering, LookingUp, Refreshing
    <2> HIDE DEF failing
    <2> QED
      BY <1>1, <1>4, <1>5, <2>1, <2>2, NotFlying DEF LocalMove
  <1>6. CASE ~Usable(meta[m]) /\ Moves(c, "looked", l)
    <2>1. l \in Call /\ l.kind = l0.kind /\ l.manager = m /\ l.found = Absent /\ l.error = l0.error
      BY <1>2, <1>3 DEF Call, Sound, LookingUp
    <2>2. OfferOf(db[m]) = Absent
      BY <1>2, <1>3, <1>6, ManagerState, CatalogFacts
    <2>3. Sound(c, "looked", l) /\ Offering(c, "looked", l)
      BY <1>2, <2>1, <2>2 DEF Sound, Offering, LookingUp, Refreshing
    <2> HIDE DEF l
    <2> QED
      BY <1>1, <1>4, <1>6, <2>1, <2>3, NotFlying DEF LocalMove
  <1>7. CASE Usable(meta[m]) /\ Goes(c, "reading") /\ UNCHANGED call
    <2>1. Moves(c, "reading", l0)
      BY <1>7 DEF Moves, Goes, Inv, Typed
    <2>2. Sound(c, "reading", l0) /\ Offering(c, "reading", l0)
      BY <1>2, <1>3, <1>7 DEF Sound, Offering, LookingUp, Refreshing
    <2> QED
      BY <1>1, <1>2, <1>4, <2>1, <2>2, NotFlying DEF LocalMove
  <1> QED
    BY <1>1, <1>5, <1>6, <1>7 DEF Miss, Moves, Goes, Sets, Manager

LEMMA LookedIsLocal ==
    ASSUME Inv, NEW c \in Callers, Looked(c) PROVE LocalMove(c) /\ Untouched
  <1> DEFINE l0 == call[c]
             refreshing == [l0 EXCEPT !.meta = NoMetadata]
             l == ToRecheck(l0, l0.error)
  <1>1. pc[c] = "looked" /\ Untouched
    BY DEF Looked, Untouched
  <1>2. l0 \in Call /\ l0.manager \in Managers /\ Sound(c, "looked", l0) /\ Offering(c, "looked", l0)
    BY <1>1, CallerState
  <1>3. {"refresh", "recheck"} \subseteq Places /\ pc[c] \notin Refreshing
    BY <1>1 DEF Places, Refreshing
  <1>4. CASE l0.error = "none" /\ Moves(c, "refresh", refreshing)
    <2>1. /\ refreshing \in Call /\ refreshing.kind = l0.kind /\ refreshing.manager = l0.manager
          /\ refreshing.error = "none" /\ refreshing.found = l0.found
      BY <1>2, <1>4, CatalogFacts DEF Call
    <2>2. Sound(c, "refresh", refreshing) /\ Offering(c, "refresh", refreshing)
      BY <1>2, <1>4, <2>1 DEF Sound, Offering, LookingUp, Refreshing
    <2> HIDE DEF refreshing
    <2> QED
      BY <1>1, <1>3, <1>4, <2>1, <2>2, NotFlying DEF LocalMove
  <1>5. CASE Moves(c, "recheck", l)
    <2>1. /\ l \in Call /\ l.kind = "usage" /\ l.manager = l0.manager
          /\ l.error = l0.error /\ l.found = l0.found
      BY <1>2, NoCallIsCall DEF Call, ToRecheck, NoCall
    <2>2. Sound(c, "recheck", l) /\ Offering(c, "recheck", l)
      BY <1>2, <2>1 DEF Sound, Offering, LookingUp, Refreshing
    <2> HIDE DEF l
    <2> QED
      BY <1>1, <1>3, <1>5, <2>1, <2>2, NotFlying DEF LocalMove
  <1> QED
    BY <1>1, <1>4, <1>5 DEF Looked, Moves, Goes, Sets

LEMMA JoinIsLocal ==
    ASSUME Inv, NEW c \in Callers, Join(c) PROVE LocalMove(c) /\ Untouched
  <1> DEFINE l0 == call[c]
             l == [l0 EXCEPT !.observed = sequence[l0.manager]]
  <1>1. pc[c] = "refresh" /\ Untouched /\ Moves(c, "wait", l)
    BY DEF Join, Untouched, Moves, Goes, Sets, Manager
  <1>2. l0 \in Call /\ l0.manager \in Managers /\ Sound(c, "refresh", l0) /\ Offering(c, "refresh", l0)
    BY <1>1, CallerState
  <1>3. "wait" \in Places /\ pc[c] \notin Refreshing
    BY <1>1 DEF Places, Refreshing
  <1>4. /\ l \in Call /\ l.kind = l0.kind /\ l.manager = l0.manager
        /\ l.error = l0.error /\ l.found = l0.found
    BY <1>2, ManagerState DEF Call
  <1>5. Sound(c, "wait", l) /\ Offering(c, "wait", l)
    BY <1>2, <1>4 DEF Sound, Offering, LookingUp, Refreshing
  <1> HIDE DEF l
  <1> QED
    BY <1>1, <1>3, <1>4, <1>5, NotFlying DEF LocalMove

LEMMA ReturnIsLocal ==
    ASSUME Inv, NEW c \in Callers, SkipRefresh(c) \/ WaitTimesOut(c) \/ Waited(c)
    PROVE  LocalMove(c) /\ Untouched
  <1>1. pc[c] \in {"refresh", "wait"} /\ Untouched
    BY DEF SkipRefresh, WaitTimesOut, Waited, Untouched
  <1>2. PICK error : Returns(c, call[c], error)
    BY DEF SkipRefresh, WaitTimesOut, Waited
  <1>3. PICK p \in Places \ Refreshing, l \in Call :
           Moves(c, p, l) /\ Sound(c, p, l) /\ Offering(c, p, l)
    BY <1>1, <1>2, ReturnsSoundly
  <1>4. pc[c] \notin Refreshing
    BY <1>1 DEF Refreshing
  <1> QED
    BY <1>1, <1>3, <1>4, NotFlying DEF LocalMove

LEMMA DownloadIsLocal ==
    ASSUME Inv, NEW c \in Callers, Download(c) \/ LoadMetadata(c)
    PROVE  LocalMove(c) /\ Untouched
  <1> DEFINE l0 == call[c]
  <1>1. pc[c] \in {"download", "load"} /\ Untouched
    BY DEF Download, LoadMetadata, Untouched
  <1>2. l0 \in Call /\ l0.manager \in Managers /\ Sound(c, pc[c], l0) /\ Offering(c, pc[c], l0)
    BY <1>1, CallerState
  <1>3. {"load", "commit", "fail"} \subseteq Places \intersect Refreshing /\ pc[c] \in Refreshing
    BY <1>1 DEF Places, Refreshing
  <1>4. \A m \in Managers : flight[m] = c => l0.manager = m
    BY FlightIsOfRefresher
  (* What the rest of a refresh relies on is kept by a move that changes only  *)
  (* what was downloaded.  *)
  <1>5. ASSUME NEW p \in {"load", "commit", "fail"}, NEW l \in Call, Moves(c, p, l),
               l.kind = l0.kind, l.manager = l0.manager, l.error = l0.error, l.found = l0.found,
               l.meta = l0.meta,
               p \in {"load", "commit"} => l.next.content \in Catalogs,
               p = "commit" => l.next.fetchedAt = clock
        PROVE  LocalMove(c)
    <2>1. Sound(c, p, l) /\ Offering(c, p, l)
      BY <1>1, <1>2, <1>5 DEF Sound, Offering, LookingUp, Refreshing
    <2>2. \A m \in Managers : flight[m] = c => Refreshes(m, p, l)
      BY <1>3, <1>4, <1>5 DEF Refreshes
    <2> QED
      BY <1>3, <1>5, <2>1, <2>2 DEF LocalMove
  <1>6. ASSUME NEW error \in {"other", "storage"}, Fails(c, error) PROVE LocalMove(c)
    <2> DEFINE l == [l0 EXCEPT !.next = NoMetadata, !.answer = error]
    <2>1. Moves(c, "fail", l)
      BY <1>6 DEF Fails, Moves, Goes, Sets
    <2>2. /\ l \in Call /\ l.kind = l0.kind /\ l.manager = l0.manager /\ l.error = l0.error
          /\ l.found = l0.found /\ l.meta = l0.meta
      BY <1>2, CatalogFacts DEF Call, Errors
    <2> HIDE DEF l
    <2> QED
      BY <1>5, <2>1, <2>2
  <1>7. ASSUME NEW content \in Catalogs, Moves(c, "load", [l0 EXCEPT !.next.content = content])
        PROVE  LocalMove(c)
    <2> DEFINE next == [l0.next EXCEPT !.content = content]
               l == [l0 EXCEPT !.next = next]
    <2>1. l0.next \in Metadata
      BY <1>2 DEF Call
    <2>2. next \in Metadata /\ next.content = content
      BY <2>1 DEF Metadata
    <2>3. /\ l \in Call /\ l.kind = l0.kind /\ l.manager = l0.manager /\ l.error = l0.error
          /\ l.found = l0.found /\ l.meta = l0.meta /\ l.next = next
      BY <1>2, <2>2 DEF Call
    <2>4. Moves(c, "load", l)
      BY <1>7, <1>2 DEF Call
    <2> HIDE DEF l, next
    <2> QED
      BY <1>5, <2>2, <2>3, <2>4
  <1>8. ASSUME pc[c] = "load", Moves(c, "commit", [l0 EXCEPT !.next.fetchedAt = clock])
        PROVE  LocalMove(c)
    <2> DEFINE next == [l0.next EXCEPT !.fetchedAt = clock]
               l == [l0 EXCEPT !.next = next]
    <2>1. l0.next \in Metadata /\ l0.next.content \in Catalogs /\ clock \in Nat
      BY <1>2, <1>8 DEF Call, Sound, Inv, Typed
    <2>2. next \in Metadata /\ next.content \in Catalogs /\ next.fetchedAt = clock
      BY <2>1 DEF Metadata
    <2>3. /\ l \in Call /\ l.kind = l0.kind /\ l.manager = l0.manager /\ l.error = l0.error
          /\ l.found = l0.found /\ l.meta = l0.meta /\ l.next = next
      BY <1>2, <2>2 DEF Call
    <2>4. Moves(c, "commit", l)
      BY <1>8, <1>2 DEF Call
    <2> HIDE DEF l, next
    <2> QED
      BY <1>5, <2>2, <2>3, <2>4
  <1>9. CASE Download(c)
    BY <1>1, <1>6, <1>7, <1>9 DEF Download, Moves, Goes, Sets
  <1>10. CASE LoadMetadata(c)
    BY <1>1, <1>6, <1>8, <1>10 DEF LoadMetadata, Moves, Goes, Sets
  <1> QED
    BY <1>1, <1>9, <1>10

LEMMA RecheckIsLocal ==
    ASSUME Inv, NEW c \in Callers, Recheck(c) PROVE LocalMove(c) /\ Untouched
  <1> DEFINE l0 == call[c]
  <1>1. pc[c] = "recheck" /\ Untouched /\ Goes(c, "done")
    BY DEF Recheck, Untouched
  <1>2. PICK answer \in {Answer(c), "custom"} : Sets(c, [NoCall EXCEPT !.answer = answer])
    BY DEF Recheck
  <1> DEFINE l == [NoCall EXCEPT !.answer = answer]
  <1>3. l0 \in Call /\ Sound(c, "recheck", l0) /\ Offering(c, "recheck", l0)
    BY <1>1, CallerState
  <1>4. answer \in Catalogs => answer \in offered[c]
    BY <1>2, <1>3, CatalogFacts DEF Answer, Manager, Offering, Sound, LookingUp
  <1>5. answer \in Catalogs \union {"error", "switched", "custom"}
    BY <1>2, <1>3 DEF Answer, Call
  <1>6. Moves(c, "done", l)
    BY <1>1, <1>2 DEF Moves, Goes, Sets
  <1>7. l \in Call /\ l.answer = answer
    BY <1>5, NoCallIsCall DEF Call
  <1> HIDE DEF l
  <1>8. Sound(c, "done", l) /\ Offering(c, "done", l)
    BY <1>4, <1>7 DEF Sound, Offering, LookingUp, Refreshing
  <1>9. "done" \in Places /\ pc[c] \notin Refreshing
    BY <1>1 DEF Places, Refreshing
  <1> QED
    BY <1>1, <1>6, <1>7, <1>8, <1>9, NotFlying DEF LocalMove

-----------------------------------------------------------------------------
(* Steps that change a manager or what is on offer *)

(* A call begins, or is over. *)
LEMMA OfferStep ==
    ASSUME Inv, NEW c \in Callers, pc[c] \notin Refreshing,
           NEW p \in {"idle", "lookup"}, NEW l \in Call, NEW o \in SUBSET Catalogs,
           Moves(c, p, l), offered' = [offered EXCEPT ![c] = o],
           UNCHANGED <<clock, managers, downloads>>,
           Sound(c, p, l), p = "lookup" => OfferOf(db[current]) \in o
    PROVE  Inv'
  <1>1. UNCHANGED <<clock, current, retired, closed, db, meta, cache, flight, sequence, failed, downloads>>
    BY DEF managers
  <1>2. p \in Places
    BY DEF Places
  <1>3. /\ pc' \in [Callers -> Places] /\ call' \in [Callers -> Call]
        /\ pc'[c] = p /\ call'[c] = l
        /\ \A d \in Callers \ {c} : pc'[d] = pc[d] /\ call'[d] = call[d]
    BY <1>2, MoveEffect
  <1>4. /\ offered' \in [Callers -> SUBSET Catalogs] /\ offered'[c] = o
        /\ \A d \in Callers \ {c} : offered'[d] = offered[d]
    BY DEF Inv, Typed
  <1>5. Typed'
    BY <1>1, <1>3, <1>4 DEF Inv, Typed
  <1>6. ASSUME NEW m \in Managers PROVE ManagerSound(m)'
    <2>1. ManagerSound(m) /\ flight[m] \in Callers \union {Nobody} /\ flight[m] # c
      BY NotFlying DEF Inv, Typed
    <2>2. flight[m] # Nobody => Refreshes(m, pc'[flight[m]], call'[flight[m]])
      BY <1>3, <2>1 DEF ManagerSound
    <2> QED
      BY <1>1, <2>1, <2>2 DEF ManagerSound, Refreshes, Settled
  <1>7. ASSUME NEW d \in Callers PROVE Sound(d, pc[d], call[d])'
    <2>1. Sound(d, pc'[d], call'[d])
      BY <1>3 DEF Inv
    <2> QED
      BY <1>1, <2>1 DEF Sound
  <1>8. ASSUME NEW d \in Callers PROVE Offering(d, pc[d], call[d])'
    <2>1. CASE d = c
      BY <1>1, <1>3, <1>4, <2>1 DEF Offering, LookingUp
    <2>2. CASE d # c
      <3>1. Offering(d, pc[d], call[d])
        BY DEF Inv
      <3> QED
        BY <1>1, <1>3, <1>4, <2>2, <3>1 DEF Offering
    <2> QED
      BY <2>1, <2>2
  <1> QED
    BY <1>5, <1>6, <1>7, <1>8 DEF Inv

LEMMA ResolveKeepsInv ==
    ASSUME Inv, NEW c \in Callers, NEW kind, Resolve(c, kind) PROVE Inv'
  <1> DEFINE l == [NoCall EXCEPT !.kind = kind, !.manager = current]
             o == {OfferOf(db[current])}
  <1>1. /\ Moves(c, "lookup", l) /\ offered' = [offered EXCEPT ![c] = o]
        /\ UNCHANGED <<clock, managers, downloads>> /\ kind \in {"admission", "usage"} /\ pc[c] = "idle"
    BY DEF Resolve, Goes, Sets, Moves
  <1>2. current \in Managers /\ db[current] \in Metadata
    BY ManagerState DEF Inv, Typed
  <1>3. OfferOf(db[current]) \in Catalogs
    BY <1>2, CatalogFacts
  <1>4. l \in Call /\ l.kind = kind /\ l.manager = current /\ l.found = Absent /\ l.error = "none"
    BY <1>1, <1>2, NoCallIsCall DEF Call, NoCall
  <1>5. Sound(c, "lookup", l)
    BY <1>1, <1>4 DEF Sound, LookingUp, Refreshing
  <1>6. pc[c] \notin Refreshing
    BY <1>1 DEF Refreshing
  <1> HIDE DEF l
  <1> QED
    BY <1>1, <1>3, <1>4, <1>5, <1>6, OfferStep

LEMMA ReturnKeepsInv ==
    ASSUME Inv, NEW c \in Callers, Return(c) PROVE Inv'
  <1>1. /\ Moves(c, "idle", NoCall) /\ offered' = [offered EXCEPT ![c] = {}]
        /\ UNCHANGED <<clock, managers, downloads>> /\ pc[c] = "done"
    BY DEF Return, Goes, Sets, Moves
  <1>2. Sound(c, "idle", NoCall)
    BY DEF Sound, LookingUp, Refreshing
  <1>3. pc[c] \notin Refreshing
    BY <1>1 DEF Refreshing
  <1>4. {} \in SUBSET Catalogs /\ "idle" \in {"idle", "lookup"} /\ "idle" # "lookup" /\ NoCall \in Call
    BY NoCallIsCall
  <1> QED
    BY <1>1, <1>2, <1>3, <1>4, OfferStep

(* A step that changes caches only, and only to what the database says. *)
LEMMA CacheKeepsInv ==
    ASSUME Inv, UNCHANGED <<clock, current, retired, closed, db, meta, flight, sequence,
                            failed, pc, call, offered, downloads>>,
           cache' \in [Managers -> Catalogs \union {Empty}],
           \A m \in Managers : cache'[m] \in {cache[m], Empty, db[m].content}
    PROVE  Inv'
  <1>1. Typed'
    BY DEF Inv, Typed
  <1>2. ASSUME NEW m \in Managers PROVE ManagerSound(m)'
    <2>1. ManagerSound(m)
      BY DEF Inv
    <2> QED
      BY <2>1 DEF ManagerSound, Refreshes, Settled
  <1>3. ASSUME NEW c \in Callers PROVE Sound(c, pc[c], call[c])' /\ Offering(c, pc[c], call[c])'
    <2>1. Sound(c, pc[c], call[c]) /\ Offering(c, pc[c], call[c])
      BY DEF Inv
    <2> QED
      BY <2>1 DEF Sound, Offering
  <1> QED
    BY <1>1, <1>2, <1>3 DEF Inv

LEMMA EvictKeepsInv ==
    ASSUME Inv, NEW m \in Managers, Evict(m) PROVE Inv'
  <1>1. cache \in [Managers -> Catalogs \union {Empty}]
    BY DEF Inv, Typed
  <1>2. /\ cache' \in [Managers -> Catalogs \union {Empty}]
        /\ \A k \in Managers : cache'[k] \in {cache[k], Empty}
    BY <1>1 DEF Evict
  <1> QED
    BY <1>2, CacheKeepsInv DEF Evict

LEMMA ReadKeepsInv ==
    ASSUME Inv, NEW c \in Callers, Read(c) PROVE Inv'
  <1> DEFINE l0 == call[c]
             m == l0.manager
             failing == [l0 EXCEPT !.error = "other"]
             l == [l0 EXCEPT !.found = db[m].content, !.meta = meta[m], !.observed = sequence[m]]
  <1>1. /\ pc[c] = "reading" /\ Goes(c, "looked")
        /\ UNCHANGED <<clock, current, retired, closed, db, meta, flight, sequence,
                       failed, offered, downloads>>
    BY DEF Read
  <1>2. l0 \in Call /\ m \in Managers /\ Sound(c, "reading", l0) /\ Offering(c, "reading", l0)
    BY <1>1, CallerState
  <1>3. /\ db[m] \in Metadata /\ meta[m] \in Metadata /\ sequence[m] \in Nat
        /\ db[m].content \in Catalogs /\ OfferOf(db[m]) = db[m].content
    BY <1>2, ManagerState, CatalogFacts DEF Sound
  <1>4. "looked" \in Places /\ pc[c] \notin Refreshing
    BY <1>1 DEF Places, Refreshing
  <1>5. CASE Sets(c, failing) /\ UNCHANGED cache
    <2>1. failing \in Call /\ failing.kind = l0.kind /\ failing.manager = m /\ failing.error = "other"
      BY <1>2 DEF Call, Errors
    <2>2. Sound(c, "looked", failing) /\ Offering(c, "looked", failing)
      BY <1>2, <2>1 DEF Sound, Offering, LookingUp, Refreshing
    <2>3. Moves(c, "looked", failing) /\ Untouched
      BY <1>1, <1>5 DEF Moves, Goes, Sets, Untouched, managers
    <2> HIDE DEF failing
    <2> QED
      BY <1>4, <2>1, <2>2, <2>3, NotFlying, LocalStep DEF LocalMove
  <1>6. CASE cache' = [cache EXCEPT ![m] = db[m].content] /\ Sets(c, l)
    <2>1. l \in Call /\ l.kind = l0.kind /\ l.manager = m /\ l.found = OfferOf(db[m]) /\ l.error = l0.error
      BY <1>2, <1>3 DEF Call
    <2>2. Sound(c, "looked", l) /\ Offering(c, "looked", l)
      BY <1>2, <2>1 DEF Sound, Offering, LookingUp, Refreshing
    <2>3. Moves(c, "looked", l)
      BY <1>1, <1>6 DEF Moves, Goes, Sets
    <2> HIDE DEF l
    <2>4. /\ pc' \in [Callers -> Places] /\ call' \in [Callers -> Call]
          /\ pc'[c] = "looked" /\ call'[c] = l
          /\ \A d \in Callers \ {c} : pc'[d] = pc[d] /\ call'[d] = call[d]
      BY <1>4, <2>1, <2>3, MoveEffect
    <2>5. /\ cache' \in [Managers -> Catalogs \union {Empty}]
          /\ \A k \in Managers : cache'[k] \in {cache[k], db[k].content}
      BY <1>2, <1>3, <1>6 DEF Inv, Typed
    <2>6. Typed'
      BY <1>1, <2>4, <2>5 DEF Inv, Typed
    <2>7. ASSUME NEW k \in Managers PROVE ManagerSound(k)'
      <3>1. ManagerSound(k) /\ flight[k] \in Callers \union {Nobody} /\ flight[k] # c
        BY <1>4, NotFlying DEF Inv, Typed
      <3>2. flight[k] # Nobody => Refreshes(k, pc'[flight[k]], call'[flight[k]])
        BY <2>4, <3>1 DEF ManagerSound
      <3> QED
        BY <1>1, <2>5, <3>1, <3>2 DEF ManagerSound, Refreshes, Settled
    <2>8. ASSUME NEW d \in Callers PROVE Sound(d, pc[d], call[d])' /\ Offering(d, pc[d], call[d])'
      <3>1. Sound(d, pc'[d], call'[d]) /\ Offering(d, pc'[d], call'[d])
        BY <2>2, <2>4 DEF Inv
      <3> QED
        BY <1>1, <3>1 DEF Sound, Offering
    <2> QED
      BY <2>6, <2>7, <2>8 DEF Inv
  <1> QED
    BY <1>5, <1>6 DEF Read, Manager

(* Only one call at an instant finds that a download is due and begins it. *)
LEMMA StartKeepsInv ==
    ASSUME Inv, NEW c \in Callers, StartRefresh(c) PROVE Inv'
  <1> DEFINE l0 == call[c]
             m == l0.manager
             l == [l0 EXCEPT !.meta = meta[m]]
  <1>1. /\ pc[c] = "refresh" /\ flight[m] = Nobody /\ Due(c)
        /\ flight' = [flight EXCEPT ![m] = c]
        /\ downloads' = IF l0.kind = "manual" THEN downloads ELSE [downloads EXCEPT ![m] = @ + 1]
        /\ Moves(c, "download", l)
        /\ UNCHANGED <<clock, current, retired, closed, db, meta, cache, sequence, failed, offered>>
    BY DEF StartRefresh, Manager, Moves, Goes, Sets
  <1>2. l0 \in Call /\ m \in Managers /\ Sound(c, "refresh", l0) /\ Offering(c, "refresh", l0)
    BY <1>1, CallerState
  <1>3. "download" \in Places \intersect Refreshing /\ pc[c] \notin Refreshing
    BY <1>1 DEF Places, Refreshing
  <1>4. meta[m] \in Metadata /\ db[m] \in Metadata /\ meta[m].content = db[m].content
    BY <1>2, ManagerState
  <1>5. /\ l \in Call /\ l.kind = l0.kind /\ l.manager = m /\ l.found = l0.found
        /\ l.error = l0.error /\ l.meta = meta[m]
    BY <1>2, <1>4 DEF Call
  <1>6. l0.kind # "manual" => ~Settled(meta[m])
    <2>1. clock \in Nat /\ meta[m].retryAfter \in Nat /\ FreshFor \in Nat /\ MissFor \in Nat
      BY <1>4, ReferenceAssumption DEF Inv, Typed, Metadata
    <2> QED
      BY <1>1, <2>1 DEF Due, NeedsRefresh, Settled, Manager
  <1> HIDE DEF l
  <1>7. /\ pc' \in [Callers -> Places] /\ call' \in [Callers -> Call]
        /\ pc'[c] = "download" /\ call'[c] = l
        /\ \A d \in Callers \ {c} : pc'[d] = pc[d] /\ call'[d] = call[d]
    BY <1>1, <1>3, <1>5, MoveEffect
  <1>8. /\ flight' \in [Managers -> Callers \union {Nobody}] /\ flight'[m] = c
        /\ \A k \in Managers \ {m} : flight'[k] = flight[k]
        /\ downloads' \in [Managers -> Nat]
        /\ downloads'[m] = IF l0.kind = "manual" THEN downloads[m] ELSE downloads[m] + 1
        /\ \A k \in Managers \ {m} : downloads'[k] = downloads[k]
    BY <1>1, <1>2 DEF Inv, Typed
  <1>9. Typed'
    BY <1>1, <1>7, <1>8 DEF Inv, Typed
  <1>10. ASSUME NEW k \in Managers PROVE ManagerSound(k)'
    <2>1. ManagerSound(k) /\ flight[k] \in Callers \union {Nobody} /\ flight[k] # c /\ c # Nobody
      BY <1>3, NotFlying, CatalogFacts DEF Inv, Typed
    <2>2. CASE k = m
      <3>1. downloads'[m] \in {0, 1}
        BY <1>1, <1>6, <1>8, <2>1, <2>2 DEF ManagerSound
      <3> QED
        BY <1>1, <1>3, <1>5, <1>7, <1>8, <2>1, <2>2, <3>1 DEF ManagerSound, Refreshes
    <2>3. CASE k # m
      <3>1. flight[k] # Nobody => Refreshes(k, pc'[flight[k]], call'[flight[k]])
        BY <1>7, <2>1 DEF ManagerSound
      <3> QED
        BY <1>1, <1>8, <2>1, <2>3, <3>1 DEF ManagerSound, Refreshes, Settled
    <2> QED
      BY <2>2, <2>3
  <1>11. ASSUME NEW d \in Callers PROVE Sound(d, pc[d], call[d])' /\ Offering(d, pc[d], call[d])'
    <2>1. CASE d = c
      BY <1>1, <1>2, <1>4, <1>5, <1>7, <1>8, <2>1 DEF Sound, Offering, LookingUp, Refreshing
    <2>2. CASE d # c
      <3>1. Sound(d, pc[d], call[d]) /\ Offering(d, pc[d], call[d])
        BY DEF Inv
      <3>2. pc[d] \in Refreshing => call[d].manager # m /\ call[d].manager \in Managers
        <4>1. pc[d] \in Refreshing => call[d].manager \in Managers
          BY CallerState DEF Refreshing
        <4>2. pc[d] \in Refreshing => flight[call[d].manager] = d
          BY <3>1 DEF Sound
        <4> QED
          BY <1>1, <4>1, <4>2, CatalogFacts
      <3> QED
        BY <1>1, <1>7, <1>8, <2>2, <3>1, <3>2 DEF Sound, Offering
    <2> QED
      BY <2>1, <2>2
  <1> QED
    BY <1>9, <1>10, <1>11 DEF Inv

(* The caller that refreshes m changes it, but not what its catalogue says. *)
LEMMA RefresherStep ==
    ASSUME Inv, NEW c \in Callers, NEW m \in Managers, NEW p \in Places, NEW l \in Call,
           flight[m] = c, Moves(c, p, l),
           UNCHANGED <<clock, current, retired, closed, cache, offered, downloads>>,
           db' \in [Managers -> Metadata], meta' \in [Managers -> Metadata],
           sequence' \in [Managers -> Nat], flight' \in [Managers -> Callers \union {Nobody}],
           \A k \in Managers : db'[k].content = db[k].content /\ meta'[k].content = meta[k].content,
           \A k \in Managers \ {m} : meta'[k] = meta[k] /\ flight'[k] = flight[k],
           flight'[m] = Nobody => downloads[m] = 0 \/ Settled(meta'[m]),
           flight'[m] # Nobody => flight'[m] = c /\ Refreshes(m, p, l),
           Sound(c, p, l)', Offering(c, p, l)
    PROVE  Inv'
  <1>1. /\ pc' \in [Callers -> Places] /\ call' \in [Callers -> Call]
        /\ pc'[c] = p /\ call'[c] = l
        /\ \A d \in Callers \ {c} : pc'[d] = pc[d] /\ call'[d] = call[d]
    BY MoveEffect
  <1>2. Typed'
    BY <1>1 DEF Inv, Typed
  <1>3. ASSUME NEW k \in Managers PROVE ManagerSound(k)'
    <2>1. ManagerSound(k) /\ flight[k] \in Callers \union {Nobody} /\ c # Nobody
      BY CatalogFacts DEF Inv, Typed
    <2>2. CASE k = m
      BY <1>1, <2>1, <2>2 DEF ManagerSound, Refreshes, Settled
    <2>3. CASE k # m
      <3>1. flight[k] # c
        BY <2>3, FlightIsOfRefresher
      <3>2. flight[k] # Nobody => Refreshes(k, pc'[flight[k]], call'[flight[k]])
        BY <1>1, <2>1, <3>1 DEF ManagerSound
      <3> QED
        BY <2>1, <2>3, <3>2 DEF ManagerSound, Refreshes, Settled
    <2> QED
      BY <2>2, <2>3
  <1>4. current \in Managers /\ OfferOf(db'[current]) = OfferOf(db[current])
    BY DEF Inv, Typed, OfferOf, Usable
  <1>5. ASSUME NEW d \in Callers PROVE Sound(d, pc[d], call[d])' /\ Offering(d, pc[d], call[d])'
    <2>1. CASE d = c
      BY <1>1, <1>4, <2>1 DEF Offering
    <2>2. CASE d # c
      <3>1. Sound(d, pc[d], call[d]) /\ Offering(d, pc[d], call[d])
        BY DEF Inv
      <3>2. pc[d] \notin {"idle", "done"} => call[d].manager \in Managers
        BY CallerState
      <3>3. pc[d] \in Refreshing => call[d].manager # m /\ pc[d] \notin {"idle", "done"}
        BY <2>2, <3>1 DEF Sound, Refreshing
      <3>4. pc'[d] = pc[d] /\ call'[d] = call[d]
        BY <1>1, <2>2
      <3>5. Sound(d, pc[d], call[d])'
        BY <3>1, <3>2, <3>3, <3>4 DEF Sound, Usable, Refreshing
      <3>6. Offering(d, pc[d], call[d])'
        BY <1>4, <3>1, <3>4 DEF Offering
      <3> QED
        BY <3>5, <3>6
    <2> QED
      BY <2>1, <2>2
  <1> QED
    BY <1>2, <1>3, <1>5 DEF Inv

LEMMA CommitKeepsInv ==
    ASSUME Inv, NEW c \in Callers, Commit(c) PROVE Inv'
  <1> DEFINE l0 == call[c]
             m == l0.manager
             next == l0.next
             l == [l0 EXCEPT !.answer = "none"]
  <1>1. /\ pc[c] = "commit"
        /\ UNCHANGED <<clock, current, retired, closed, flight, sequence, failed, downloads>>
    BY DEF Commit
  <1>2. /\ l0 \in Call /\ m \in Managers /\ Sound(c, "commit", l0) /\ Offering(c, "commit", l0)
    BY <1>1, CallerState
  <1>3. {"fail", "publish"} \subseteq Places \intersect Refreshing /\ "commit" \in Refreshing
    BY DEF Places, Refreshing
  <1>4. flight[m] = c /\ \A k \in Managers \ {m} : flight[k] # c
    BY <1>2, <1>3, FlightIsOfRefresher DEF Sound
  <1>5. ASSUME NEW error \in {"other", "storage"}, Fails(c, error),
               UNCHANGED <<db, meta, cache, offered>>
        PROVE  Inv'
    <2> DEFINE f == [l0 EXCEPT !.next = NoMetadata, !.answer = error]
    <2>1. Moves(c, "fail", f)
      BY <1>5 DEF Fails, Moves, Goes, Sets
    <2>2. /\ f \in Call /\ f.kind = l0.kind /\ f.manager = l0.manager /\ f.error = l0.error
          /\ f.found = l0.found /\ f.meta = l0.meta
      BY <1>2, CatalogFacts DEF Call, Errors
    <2> HIDE DEF f
    <2>3. Sound(c, "fail", f) /\ Offering(c, "fail", f)
      BY <1>2, <2>2 DEF Sound, Offering, LookingUp, Refreshing
    <2>4. \A k \in Managers : flight[k] = c => Refreshes(k, "fail", f)
      BY <1>3, <1>4, <2>2 DEF Refreshes
    <2>5. Untouched
      BY <1>1, <1>5 DEF Untouched, managers
    <2> QED
      BY <1>3, <2>1, <2>2, <2>3, <2>4, <2>5, LocalStep DEF LocalMove
  <1>6. ASSUME db' = [db EXCEPT ![m] = next], meta' = [meta EXCEPT ![m] = next],
               Forgets(m, next.content), Moves(c, "publish", l), Offers(m, next)
        PROVE  Inv'
    <2>1. /\ l \in Call /\ l.kind = l0.kind /\ l.manager = m /\ l.error = l0.error
          /\ l.found = l0.found /\ l.next = next
      BY <1>2 DEF Call, Errors
    <2>2. next \in Metadata /\ next.content \in Catalogs /\ Usable(next) /\ OfferOf(next) \in Catalogs
      BY <1>2, CatalogFacts DEF Call, Sound, Usable, OfferOf
    <2> HIDE DEF l
    <2>3. /\ pc' \in [Callers -> Places] /\ call' \in [Callers -> Call]
          /\ pc'[c] = "publish" /\ call'[c] = l
          /\ \A d \in Callers \ {c} : pc'[d] = pc[d] /\ call'[d] = call[d]
      BY <1>3, <1>6, <2>1, MoveEffect
    <2>4. /\ db' \in [Managers -> Metadata] /\ meta' \in [Managers -> Metadata]
          /\ db'[m] = next /\ meta'[m] = next
          /\ \A k \in Managers \ {m} : db'[k] = db[k] /\ meta'[k] = meta[k]
      BY <1>2, <1>6, <2>2 DEF Inv, Typed
    <2>5. /\ cache' \in [Managers -> Catalogs \union {Empty}]
          /\ cache'[m] \in {Empty, next.content}
          /\ \A k \in Managers \ {m} : cache'[k] = cache[k]
      <3>1. cache \in [Managers -> Catalogs \union {Empty}] /\ cache[m] \in {Empty, db[m].content}
        BY <1>2, ManagerState DEF Inv, Typed
      <3> QED
        BY <1>2, <1>6, <3>1 DEF Forgets
    <2>6. /\ offered' \in [Callers -> SUBSET Catalogs]
          /\ \A d \in Callers : offered[d] \subseteq offered'[d]
          /\ m = current => \A d \in Callers : Asking(d) => OfferOf(next) \in offered'[d]
      <3>1. offered \in [Callers -> SUBSET Catalogs]
        BY DEF Inv, Typed
      <3> QED
        BY <1>6, <2>2, <3>1 DEF Offers
    <2>7. Typed'
      BY <1>1, <2>3, <2>4, <2>5, <2>6 DEF Inv, Typed
    <2>8. ASSUME NEW k \in Managers PROVE ManagerSound(k)'
      <3>1. ManagerSound(k) /\ flight[k] \in Callers \union {Nobody} /\ c # Nobody
        BY CatalogFacts DEF Inv, Typed
      <3>2. CASE k = m
        <4>1. downloads[m] # 0 => next.fetchedAt = clock
          BY <1>1, <1>4, <3>1, <3>2 DEF ManagerSound, Refreshes
        <4>2. /\ flight'[k] = c /\ pc'[c] = "publish" /\ pc'[c] \in Refreshing
              /\ call'[c].manager = k /\ call'[c].next.content = next.content
              /\ call'[c].next.fetchedAt = next.fetchedAt
          BY <1>1, <1>3, <1>4, <2>1, <2>3, <3>2
        <4>3. (flight[k] # Nobody => Refreshes(k, pc[flight[k]], call[flight[k]]))'
          BY <1>1, <2>2, <3>2, <4>1, <4>2 DEF Refreshes, Settled, Usable
        <4>4. cache'[k] \in {Empty, db'[k].content} /\ meta'[k].content = db'[k].content
          BY <2>4, <2>5, <3>2
        <4>5. downloads'[k] \in {0, 1} /\ flight'[k] # Nobody
          BY <1>1, <3>1, <4>2 DEF ManagerSound
        <4> QED
          BY <4>3, <4>4, <4>5 DEF ManagerSound
      <3>3. CASE k # m
        <4>1. flight[k] # Nobody => Refreshes(k, pc'[flight[k]], call'[flight[k]])
          BY <1>4, <2>3, <3>1, <3>3 DEF ManagerSound
        <4> QED
          BY <1>1, <2>4, <2>5, <3>1, <3>3, <4>1 DEF ManagerSound, Refreshes, Settled
      <3> QED
        BY <3>2, <3>3
    <2>9. ASSUME NEW d \in Callers PROVE Sound(d, pc[d], call[d])'
      <3>1. CASE d = c
        BY <1>1, <1>2, <1>4, <2>1, <2>3, <2>4, <3>1 DEF Sound, LookingUp, Refreshing
      <3>2. CASE d # c
        <4>1. Sound(d, pc[d], call[d])
          BY DEF Inv
        <4>2. pc[d] \notin {"idle", "done"} => call[d].manager \in Managers
          BY CallerState
        <4>3. pc[d] \in Refreshing => call[d].manager # m /\ pc[d] \notin {"idle", "done"}
          BY <1>4, <3>2, <4>1 DEF Sound, Refreshing
        <4>4. pc'[d] = pc[d] /\ call'[d] = call[d]
          BY <2>3, <3>2
        <4>5. pc[d] = "reading" => Usable(db'[call[d].manager])
          BY <2>2, <2>4, <4>1, <4>2 DEF Sound
        <4>6. pc[d] \in Refreshing => db'[call[d].manager] = db[call[d].manager]
          BY <2>4, <4>2, <4>3
        <4> QED
          BY <1>1, <4>1, <4>4, <4>5, <4>6 DEF Sound, Refreshing
      <3> QED
        BY <3>1, <3>2
    <2>10. ASSUME NEW d \in Callers PROVE Offering(d, pc[d], call[d])'
      <3>1. Offering(d, pc[d], call[d]) /\ offered[d] \subseteq offered'[d]
        BY <2>6 DEF Inv
      <3>2. /\ call'[d].kind = call[d].kind /\ call'[d].manager = call[d].manager
            /\ call'[d].error = call[d].error /\ call'[d].found = call[d].found
            /\ d # c => pc'[d] = pc[d] /\ call'[d] = call[d]
            /\ d = c => pc'[d] = "publish" /\ pc[d] = "commit"
        BY <1>1, <2>1, <2>3
      <3>3. call[d].kind \in {"admission", "usage"} /\ pc[d] \notin {"idle", "done"}
               => OfferOf(db'[current]) \in offered'[d]
        <4>1. CASE m = current
          BY <2>4, <2>6, <4>1 DEF Asking
        <4>2. CASE m # current
          <5>1. db'[current] = db[current]
            BY <2>4, <4>2 DEF Inv, Typed
          <5> QED
            BY <3>1, <5>1 DEF Offering
        <4> QED
          BY <4>1, <4>2
      <3> QED
        BY <1>1, <3>1, <3>2, <3>3 DEF Offering, LookingUp
    <2> QED
      BY <2>7, <2>8, <2>9, <2>10 DEF Inv
  <1> QED
    BY <1>5, <1>6 DEF Commit, Manager, Moves, Goes, Sets

LEMMA RecordFailureKeepsInv ==
    ASSUME Inv, NEW c \in Callers, RecordFailure(c) PROVE Inv'
  <1> DEFINE l0 == call[c]
             m == l0.manager
  <1>1. /\ pc[c] = "fail" /\ Goes(c, "publish")
        /\ UNCHANGED <<clock, current, retired, closed, meta, cache, flight, sequence,
                       failed, offered, downloads>>
    BY DEF RecordFailure
  <1>2. /\ l0 \in Call /\ m \in Managers /\ Sound(c, "fail", l0) /\ Offering(c, "fail", l0)
    BY <1>1, CallerState
  <1>3. "publish" \in Places \intersect Refreshing /\ "fail" \in Refreshing
    BY DEF Places, Refreshing
  <1>4. flight[m] = c /\ flight \in [Managers -> Callers \union {Nobody}] /\ c # Nobody
        /\ sequence \in [Managers -> Nat] /\ db \in [Managers -> Metadata]
        /\ meta \in [Managers -> Metadata] /\ clock \in Nat
    BY <1>2, <1>3, CatalogFacts DEF Sound, Inv, Typed
  <1>5. PICK backoff \in Backoffs :
           LET next == [l0.meta EXCEPT !.retryAfter = clock + backoff] IN
              /\ db' = [db EXCEPT ![m] = next] \/ UNCHANGED db
              /\ \/ Sets(c, [l0 EXCEPT !.next = next])
                 \/ Sets(c, [l0 EXCEPT !.next = next, !.answer = "storage"])
    BY DEF RecordFailure, Manager
  <1> DEFINE next == [l0.meta EXCEPT !.retryAfter = clock + backoff]
  <1>6. /\ next \in Metadata /\ next.content = db[m].content /\ Settled(next)
    <2>1. backoff \in Nat \ {0} /\ l0.meta \in Metadata /\ l0.meta.content = db[m].content
      BY <1>2, ReferenceAssumption DEF Call, Sound
    <2>2. next \in Metadata /\ next.content = l0.meta.content /\ next.retryAfter = clock + backoff
      BY <1>4, <2>1 DEF Metadata
    <2> HIDE DEF next
    <2> QED
      BY <1>4, <2>1, <2>2 DEF Settled
  <1>7. PICK l \in Call : /\ Moves(c, "publish", l)
                          /\ l.kind = l0.kind /\ l.manager = m /\ l.error = l0.error
                          /\ l.found = l0.found /\ l.next = next
    <2>1. CASE Sets(c, [l0 EXCEPT !.next = next])
      <3> DEFINE l1 == [l0 EXCEPT !.next = next]
      <3>1. /\ l1 \in Call /\ l1.kind = l0.kind /\ l1.manager = m /\ l1.error = l0.error
            /\ l1.found = l0.found /\ l1.next = next
        BY <1>2, <1>6 DEF Call
      <3>2. Moves(c, "publish", l1)
        BY <1>1, <2>1 DEF Moves, Goes, Sets
      <3> HIDE DEF l1
      <3> QED
        BY <3>1, <3>2
    <2>2. CASE Sets(c, [l0 EXCEPT !.next = next, !.answer = "storage"])
      <3> DEFINE l1 == [l0 EXCEPT !.next = next, !.answer = "storage"]
      <3>1. /\ l1 \in Call /\ l1.kind = l0.kind /\ l1.manager = m /\ l1.error = l0.error
            /\ l1.found = l0.found /\ l1.next = next
        BY <1>2, <1>6 DEF Call, Errors
      <3>2. Moves(c, "publish", l1)
        BY <1>1, <2>2 DEF Moves, Goes, Sets
      <3> HIDE DEF l1
      <3> QED
        BY <3>1, <3>2
    <2> QED
      BY <1>5, <2>1, <2>2
  <1>8. /\ db' \in [Managers -> Metadata]
        /\ \A k \in Managers : db'[k].content = db[k].content
    BY <1>2, <1>4, <1>5, <1>6
  <1> HIDE DEF next
  <1>9. Sound(c, "publish", l)'
    BY <1>1, <1>2, <1>4, <1>6, <1>7, <1>8 DEF Sound, LookingUp, Refreshing
  <1>10. Offering(c, "publish", l)
    BY <1>2, <1>7 DEF Offering, LookingUp
  <1>11. Refreshes(m, "publish", l)
    BY <1>3, <1>6, <1>7 DEF Refreshes
  <1>12. "publish" \in Places /\ flight' = flight /\ meta' = meta /\ sequence' = sequence
    BY <1>1, <1>3
  <1> QED
    BY <1>1, <1>2, <1>4, <1>7, <1>8, <1>9, <1>10, <1>11, <1>12, RefresherStep

LEMMA PublishKeepsInv ==
    ASSUME Inv, NEW c \in Callers, Publish(c) PROVE Inv'
  <1> DEFINE l0 == call[c]
             m == l0.manager
  <1>1. /\ pc[c] = "publish" /\ Returns(c, l0, l0.answer)
        /\ meta' = [meta EXCEPT ![m] = l0.next]
        /\ sequence' = [sequence EXCEPT ![m] = @ + 1]
        /\ flight' = [flight EXCEPT ![m] = Nobody]
        /\ UNCHANGED <<clock, current, retired, closed, db, cache, offered, downloads>>
    BY DEF Publish, Manager
  <1>2. /\ l0 \in Call /\ m \in Managers /\ Sound(c, "publish", l0)
    BY <1>1, CallerState
  <1>3. flight[m] = c /\ l0.next \in Metadata /\ l0.next.content = db[m].content /\ c # Nobody
    BY <1>2, CatalogFacts DEF Sound, Refreshing, Call
  <1>4. PICK p \in Places \ Refreshing, l \in Call :
            Moves(c, p, l) /\ Sound(c, p, l) /\ Offering(c, p, l)
    BY <1>1, ReturnsSoundly
  <1>5. /\ meta' \in [Managers -> Metadata] /\ meta'[m] = l0.next
        /\ \A k \in Managers \ {m} : meta'[k] = meta[k]
    BY <1>1, <1>2, <1>3 DEF Inv, Typed
  <1>6. /\ flight' \in [Managers -> Callers \union {Nobody}] /\ flight'[m] = Nobody
        /\ \A k \in Managers \ {m} : flight'[k] = flight[k]
        /\ sequence' \in [Managers -> Nat]
    BY <1>1, <1>2 DEF Inv, Typed
  <1>7. meta[m].content = db[m].content
    BY <1>2, ManagerState
  <1>8. downloads[m] = 0 \/ Settled(l0.next)
    <2>1. Refreshes(m, "publish", l0) /\ downloads[m] \in Nat
      BY <1>1, <1>2, <1>3 DEF Inv, Typed, ManagerSound
    <2> QED
      BY <2>1 DEF Refreshes
  <1>9. Sound(c, p, l)'
    BY <1>1, <1>4 DEF Sound, Refreshing
  <1>10. /\ db' \in [Managers -> Metadata]
         /\ \A k \in Managers : db'[k].content = db[k].content /\ meta'[k].content = meta[k].content
    BY <1>1, <1>3, <1>5, <1>7 DEF Inv, Typed
  <1> HIDE DEF l0
  <1> QED
    BY <1>1, <1>2, <1>3, <1>4, <1>5, <1>6, <1>8, <1>9, <1>10, RefresherStep

LEMMA TickKeepsInv == ASSUME Inv, Tick PROVE Inv'
  <1>1. /\ clock' = clock + 1 /\ downloads' = [m \in Managers |-> 0]
        /\ UNCHANGED <<current, retired, closed, db, meta, cache, flight, sequence, failed,
                       pc, call, offered>>
    BY DEF Tick, managers
  <1>2. Typed'
    BY <1>1 DEF Inv, Typed
  <1>3. ASSUME NEW m \in Managers PROVE ManagerSound(m)'
    <2>1. ManagerSound(m)
      BY DEF Inv
    <2> QED
      BY <1>1, <2>1 DEF ManagerSound, Refreshes
  <1>4. ASSUME NEW c \in Callers PROVE Sound(c, pc[c], call[c])' /\ Offering(c, pc[c], call[c])'
    <2>1. Sound(c, pc[c], call[c]) /\ Offering(c, pc[c], call[c])
      BY DEF Inv
    <2> QED
      BY <1>1, <2>1 DEF Sound, Offering
  <1> QED
    BY <1>2, <1>3, <1>4 DEF Inv

(* No manager comes back, so what calls hold of earlier ones is void. *)
LEMMA SwitchKeepsInv == ASSUME Inv, NEW m \in Managers, Switch(m) PROVE Inv'
  <1>1. /\ m \notin retired \union {current} /\ current' = m
        /\ retired' = retired \union {current}
        /\ offered' = [c \in Callers |-> IF Asking(c) THEN {OfferOf(db[m])} ELSE offered[c]]
        /\ UNCHANGED <<clock, closed, db, meta, cache, flight, sequence, failed,
                       pc, call, downloads>>
    BY DEF Switch
  <1>2. OfferOf(db[m]) \in Catalogs
    BY ManagerState, CatalogFacts
  <1>3. Typed'
    BY <1>1, <1>2 DEF Inv, Typed
  <1>4. ASSUME NEW k \in Managers PROVE ManagerSound(k)'
    <2>1. ManagerSound(k)
      BY DEF Inv
    <2> QED
      BY <1>1, <2>1 DEF ManagerSound, Refreshes, Settled
  <1>5. ASSUME NEW c \in Callers PROVE Sound(c, pc[c], call[c])'
    <2>1. Sound(c, pc[c], call[c])
      BY DEF Inv
    <2> QED
      BY <1>1, <2>1 DEF Sound
  <1>6. ASSUME NEW c \in Callers PROVE Offering(c, pc[c], call[c])'
    <2>1. Sound(c, pc[c], call[c]) /\ Offering(c, pc[c], call[c])
      BY DEF Inv
    <2>2. offered'[c] = IF Asking(c) THEN {OfferOf(db[m])} ELSE offered[c]
      BY <1>1
    <2>3. pc[c] \notin {"idle", "done"} => call[c].manager # m
      BY <1>1, <2>1 DEF Sound
    <2> QED
      BY <1>1, <2>1, <2>2, <2>3 DEF Offering, Asking
  <1> QED
    BY <1>3, <1>4, <1>5, <1>6 DEF Inv

LEMMA CloseKeepsInv == ASSUME Inv, NEW m \in Managers, CloseRetired(m) PROVE Inv'
  <1>1. /\ m \in retired /\ closed' = closed \union {m}
        /\ UNCHANGED <<clock, current, retired, db, meta, cache, flight, sequence, failed,
                       pc, call, offered, downloads>>
    BY DEF CloseRetired
  <1>2. Typed'
    BY <1>1 DEF Inv, Typed
  <1>3. ASSUME NEW k \in Managers PROVE ManagerSound(k)'
    <2>1. ManagerSound(k)
      BY DEF Inv
    <2> QED
      BY <1>1, <2>1 DEF ManagerSound, Refreshes, Settled
  <1>4. ASSUME NEW c \in Callers PROVE Sound(c, pc[c], call[c])' /\ Offering(c, pc[c], call[c])'
    <2>1. Sound(c, pc[c], call[c]) /\ Offering(c, pc[c], call[c])
      BY DEF Inv
    <2> QED
      BY <1>1, <2>1 DEF Sound, Offering
  <1> QED
    BY <1>2, <1>3, <1>4 DEF Inv

-----------------------------------------------------------------------------
(* Every step, and what follows *)

LEMMA StutterKeepsInv == ASSUME Inv, UNCHANGED vars PROVE Inv'
  <1>1. UNCHANGED <<clock, current, retired, closed, db, meta, cache, flight, sequence, failed,
                    pc, call, offered, downloads>>
    BY DEF vars, managers
  <1>2. Typed'
    BY <1>1 DEF Inv, Typed
  <1>3. ASSUME NEW m \in Managers PROVE ManagerSound(m)'
    <2>1. ManagerSound(m)
      BY DEF Inv
    <2> QED
      BY <1>1, <2>1 DEF ManagerSound, Refreshes, Settled
  <1>4. ASSUME NEW c \in Callers PROVE Sound(c, pc[c], call[c])' /\ Offering(c, pc[c], call[c])'
    <2>1. Sound(c, pc[c], call[c]) /\ Offering(c, pc[c], call[c])
      BY DEF Inv
    <2> QED
      BY <1>1, <2>1 DEF Sound, Offering
  <1> QED
    BY <1>2, <1>3, <1>4 DEF Inv

LEMMA InvNext == Inv /\ [Next]_vars => Inv'
  <1> SUFFICES ASSUME Inv, [Next]_vars PROVE Inv'
    OBVIOUS
  <1>1. ASSUME NEW c \in Callers, Enter(c) PROVE Inv'
    BY <1>1, ResolveKeepsInv, RequestIsLocal, LocalStep DEF Enter
  <1>2. ASSUME NEW c \in Callers, Step(c) PROVE Inv'
    <2>1. CASE Lookup(c) \/ Miss(c) \/ Looked(c)
      <3>1. LocalMove(c) /\ Untouched
        BY <2>1, LookupIsLocal, MissIsLocal, LookedIsLocal
      <3> QED
        BY <3>1, LocalStep
    <2>2. CASE Join(c) \/ SkipRefresh(c) \/ WaitTimesOut(c) \/ Waited(c)
      <3>1. LocalMove(c) /\ Untouched
        BY <2>2, JoinIsLocal, ReturnIsLocal
      <3> QED
        BY <3>1, LocalStep
    <2>3. CASE Download(c) \/ LoadMetadata(c)
      <3>1. LocalMove(c) /\ Untouched
        BY <2>3, DownloadIsLocal
      <3> QED
        BY <3>1, LocalStep
    <2>4. CASE Recheck(c)
      <3>1. LocalMove(c) /\ Untouched
        BY <2>4, RecheckIsLocal
      <3> QED
        BY <3>1, LocalStep
    <2>5. CASE Read(c)
      BY <2>5, ReadKeepsInv
    <2>6. CASE StartRefresh(c)
      BY <2>6, StartKeepsInv
    <2>7. CASE Commit(c)
      BY <2>7, CommitKeepsInv
    <2>8. CASE RecordFailure(c)
      BY <2>8, RecordFailureKeepsInv
    <2>9. CASE Publish(c)
      BY <2>9, PublishKeepsInv
    <2>10. CASE Return(c)
      BY <2>10, ReturnKeepsInv
    <2> QED
      BY <1>2, <2>1, <2>2, <2>3, <2>4, <2>5, <2>6, <2>7, <2>8, <2>9, <2>10 DEF Step
  <1>3. CASE Environment
    BY <1>3, TickKeepsInv, SwitchKeepsInv, CloseKeepsInv, EvictKeepsInv DEF Environment
  <1>4. CASE UNCHANGED vars
    BY <1>4, StutterKeepsInv
  <1> QED
    BY <1>1, <1>2, <1>3, <1>4 DEF Next

LEMMA InvAlways == Spec => []Inv
  BY InvInit, InvNext, PTL DEF Spec

(* One call at most refreshes a manager, and the flight names it, for any  *)
(* number of calls and of databases.                                       *)
THEOREM RefreshesAreSingle == Spec => []OneRefresh
  <1>1. Inv => OneRefresh
    BY DEF Inv, Sound, OneRefresh, Manager
  <1> QED
    BY <1>1, InvAlways, PTL

(* The cache and the metadata in memory never say anything of a model that *)
(* the database does not: no interleaving of reads, commits, failures and  *)
(* evictions leaves an old price behind.                                   *)
THEOREM CacheAgrees == Spec => []CacheIsPublished
  <1>1. Inv => CacheIsPublished
    BY DEF Inv, ManagerSound, CacheIsPublished
  <1> QED
    BY <1>1, InvAlways, PTL

(* A catalogue price that ResolveModelPrice returns was, at some moment of *)
(* the call, what the database then in use said.                           *)
THEOREM AnswersWereOffered == Spec => []AnswerWasOffered
  <1>1. Inv => AnswerWasOffered
    BY DEF Inv, Offering, AnswerWasOffered
  <1> QED
    BY <1>1, InvAlways, PTL

(* However many calls find the catalogue due, one download at most begins  *)
(* of itself on a manager at an instant: refreshDone, the metadata and the *)
(* cooldown leave no gap between them.                                     *)
THEOREM OneDownloadPerInstant == Spec => []OneDownload
  <1>1. Inv => OneDownload
    BY DEF Inv, ManagerSound, OneDownload
  <1> QED
    BY <1>1, InvAlways, PTL

(* A database that Configure has closed is never written again, whatever   *)
(* refresh is still on its way to it.                                      *)
THEOREM ClosedStaysUntouched == Spec => NothingAfterClose
  <1>1. Inv /\ [Next]_vars => [\A m \in closed : db'[m] = db[m]]_vars
    <2> SUFFICES ASSUME Inv, [Next]_vars, NEW m \in closed PROVE db'[m] = db[m]
      OBVIOUS
    <2>1. ASSUME NEW c \in Callers, Commit(c) \/ RecordFailure(c) PROVE db'[m] = db[m]
      <3>1. \/ UNCHANGED db
            \/ Manager(c) \notin closed /\ \E d : db' = [db EXCEPT ![Manager(c)] = d]
        BY <2>1 DEF Commit, RecordFailure
      <3> QED
        BY <3>1 DEF Inv, Typed
    <2>2. ASSUME NEW c \in Callers, Enter(c) \/ Step(c), ~Commit(c), ~RecordFailure(c)
          PROVE  db'[m] = db[m]
      <3>1. UNCHANGED db
        BY <2>2 DEF Enter, Step, Resolve, Request, Lookup, Miss, Read, Looked, Join, SkipRefresh,
                    StartRefresh, WaitTimesOut, Waited, Download, LoadMetadata, Publish, Recheck,
                    Return, managers
      <3> QED
        BY <3>1
    <2>3. ASSUME Environment \/ UNCHANGED vars PROVE db'[m] = db[m]
      BY <2>3 DEF Environment, Tick, Switch, CloseRetired, Evict, vars, managers
    <2> QED
      BY <2>1, <2>2, <2>3 DEF Next
  <1> QED
    BY <1>1, InvAlways, PTL DEF Spec, NothingAfterClose

=============================================================================
