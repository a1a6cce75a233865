----------------------------- MODULE MarketData -----------------------------
(***************************************************************************)
(* One market of the candle store, the two kinds of process that fill it,  *)
(* and the provider they share.                                            *)
(*                                                                         *)
(*   - gateway request threads call DataOrchestrator.load_bars or run a    *)
(*     data backfill.  They share one orchestrator, which lets a single    *)
(*     provider request (a "flight") per series be under way;              *)
(*   - the background worker's PeriodicBarFetcher, with an orchestrator of *)
(*     its own, appends the newest source bars and derives target bars.    *)
(*                                                                         *)
(* Time is counted in source bars (1m): bar b is the bar that opens at b.  *)
(* Target bar k is made of the Ratio source bars from k * Ratio on.  Bars  *)
(* carry no prices: the store is the set of bars it holds.                 *)
(***************************************************************************)
EXTENDS Integers, FiniteSets, FiniteSetsExt

CONSTANTS
  Clients,       \* gateway request threads
  StartTime,     \* bound: source bars closed when the model starts
  MaxTime,       \* bound: source bars the exchange ever closes
  MaxRequests,   \* bound: requests per thread
  Ratio,         \* source bars in a target bar
  Lookback,      \* RefreshConfig.lookback_bars
  MaxSourceBars, \* _DATA_BACKFILL_SUBPROCESS_SOURCE_BARS: bars in a chunk
  LoadWindows,   \* windows <<start, end>> the loads ask for
  FillWindows,   \* windows <<start, end>> the backfills ask for
  CacheRanges,   \* <<first, last>> target bars the persistent cache lists
  ProviderGaps,  \* may the provider leave out bars it should have
  NoOne

ASSUME MarketAssumption ==
  /\ MaxTime \in Nat /\ StartTime \in 0 .. MaxTime /\ MaxRequests \in Nat /\ Lookback \in Nat
  /\ Ratio \in Nat \ {0} /\ MaxSourceBars \in Nat \ {0}
  /\ \A w \in LoadWindows \cup FillWindows : w \in Nat \X Nat /\ w[1] < w[2]
  /\ NoOne \notin Clients /\ ProviderGaps \in BOOLEAN

VARIABLES
  now,       \* closed source bars of the exchange: 0 .. now - 1
  persists,  \* provider_persists_fetches
  source,    \* source bars in the candle store
  target,    \* target bars in the candle store
  current,   \* owner of the flight in _provider_flights, or NoOne
  pc,        \* where each request thread is
  req,       \* its request
  todo,      \* windows it still has to ask the provider for
  on,        \* owner of the flight it waits for
  res,       \* result its flight was settled with
  have,      \* bars it read from the store
  got,       \* bars the provider gave it
  out,       \* outcome of its last request
  left,      \* requests it may still make
  fills,     \* backfill jobs by request: status and source bars available
  fpc,       \* where the periodic fetcher is
  frange,    \* window it refreshes
  fbars      \* bars it was given

clients == <<pc, req, todo, on, res, have, got, out, left>>
fetcher == <<fpc, frange, fbars>>
store   == <<source, target>>
vars    == <<now, persists, store, current, clients, fills, fetcher>>

Bars       == 0 .. MaxTime - 1
Slots(w)   == w[1] .. w[2] - 1
Window(k)  == (k * Ratio) .. (k * Ratio + Ratio - 1)
Targets    == {k \in 0 .. MaxTime : Window(k) \subseteq Bars}
Failed     == [ok |-> FALSE, bars |-> {}]
Fetched(B) == [ok |-> TRUE, bars |-> B]

Loads     == {[op |-> "load", src |-> s, win |-> w, fail |-> f] :
                s \in {"storage", "provider", "auto"}, w \in LoadWindows, f \in BOOLEAN}
Backfills == {[op |-> "backfill", src |-> tf, win |-> w, fail |-> FALSE] :
                tf \in {"source", "target"}, w \in FillWindows}
NoRequest == [op |-> "none", src |-> "none", win |-> <<0, 0>>, fail |-> FALSE]

Init ==
  /\ now = StartTime /\ persists \in BOOLEAN
  /\ source = {} /\ target = {}
  /\ current = NoOne
  /\ pc   = [t \in Clients |-> "idle"]
  /\ req  = [t \in Clients |-> NoRequest]
  /\ todo = [t \in Clients |-> {}]
  /\ on   = [t \in Clients |-> NoOne]
  /\ res  = [t \in Clients |-> Failed]
  /\ have = [t \in Clients |-> {}]
  /\ got  = [t \in Clients |-> {}]
  /\ out  = [t \in Clients |-> "none"]
  /\ left = [t \in Clients |-> MaxRequests]
  /\ fills = [r \in Backfills |-> [st |-> "none", avail |-> {}]]
  /\ fpc = "sleep" /\ frange = <<0, 0>> /\ fbars = {}

-----------------------------------------------------------------------------
(* Windows.                                                                *)

\* _missing_intervals followed by _coalesce_intervals: the maximal runs of
\* missing slots.
MissingIntervals(S) ==
  {w \in (0 .. MaxTime) \X (1 .. MaxTime) :
     /\ w[1] < w[2] /\ Slots(w) \subseteq S
     /\ w[1] - 1 \notin S /\ w[2] \notin S}

\* The interval asked for next: the code walks them in order of time.
EarliestWindow(W) == CHOOSE w \in W : \A v \in W : w[1] <= v[1]

AlignedUp(b) == ((b + Ratio - 1) \div Ratio) * Ratio

\* Where the chunk that starts at b ends, for a request for target bars.
\* A chunk never cuts a target bar in two: it ends on a multiple of Ratio.
TargetChunkEnd(b, hi) ==
  LET whole == IF b % Ratio = 0
               THEN b + Max({1, MaxSourceBars \div Ratio}) * Ratio
               ELSE AlignedUp(b)
                      + (Max({0, MaxSourceBars - (AlignedUp(b) - b)}) \div Ratio) * Ratio
  IN  Min({hi, whole})

\* _backfill_needs_isolated_process: such a backfill is cut into chunks and runs
\* in a process, and with an orchestrator, of its own.
IsLarge(w) == w[2] - w[1] > MaxSourceBars
Isolated(r) == r.op = "backfill" /\ IsLarge(r.win)

\* Where the chunk of window w that starts at b ends.
ChunkEnd(tf, w, b) ==
  IF tf = "target" THEN TargetChunkEnd(b, w[2]) ELSE Min({w[2], b + MaxSourceBars})

\* Where the chunks start: at the start of the window, and wherever a chunk ends
\* that is not the last one.
ChunkStarts(tf, w) ==
  LET Loop(S) == /\ w[1] \in S
                 /\ \A b \in S : ChunkEnd(tf, w, b) < w[2] => ChunkEnd(tf, w, b) \in S
  IN  {b \in Slots(w) : \A S \in SUBSET Slots(w) : Loop(S) => b \in S}

\* _iter_backfill_source_chunks, as a set.
Chunks(tf, w) ==
  IF IsLarge(w) THEN {<<b, ChunkEnd(tf, w, b)>> : b \in ChunkStarts(tf, w)} ELSE {w}

\* _stored_ranges_cover_request: every instant of the window lies in a listed
\* range.  The persistent cache lists a range by its first and last bar only.
RangesCover(tf, w) ==
  IF tf = "source" THEN Slots(w) \subseteq source
  ELSE Slots(w) \subseteq
         UNION ({Window(k) : k \in target}
                  \cup {UNION {Window(k) : k \in c[1] .. c[2]} : c \in CacheRanges})

-----------------------------------------------------------------------------
(* Requests of the gateway threads.                                        *)

\* The request of thread t is answered.
Finish(t, outcome) ==
  /\ pc' = [pc EXCEPT ![t] = "idle"]
  /\ out' = [out EXCEPT ![t] = outcome]
  /\ todo' = [todo EXCEPT ![t] = {}]
  /\ have' = [have EXCEPT ![t] = {}]
  /\ got' = [got EXCEPT ![t] = {}]

\* load_bars returns bars B; the series says whether they cover the window.
Return(t, B) == Finish(t, IF B = Slots(req[t].win) THEN "complete" ELSE "partial")

\* A thread starts serving request r.  A backfill the scheduler has seen before
\* is answered with the job there is, whatever became of it.
Request(t, r) ==
  /\ pc[t] = "idle" /\ left[t] > 0
  /\ r.op = "backfill" => fills[r].st = "none"
  /\ left' = [left EXCEPT ![t] = @ - 1]
  /\ req' = [req EXCEPT ![t] = r]
  /\ \/ /\ r.op = "load"
        /\ todo' = [todo EXCEPT ![t] = IF r.src = "provider" THEN {r.win} ELSE {}]
        /\ pc' = [pc EXCEPT ![t] = IF r.src = "provider" THEN "join" ELSE "read"]
        /\ out' = [out EXCEPT ![t] = "none"]
        /\ UNCHANGED <<have, got, fills>>
     \/ /\ r.op = "backfill" /\ RangesCover(r.src, r.win)
        /\ Finish(t, "skipped")
        /\ fills' = [fills EXCEPT ![r].st = "skipped"]
     \/ /\ r.op = "backfill" /\ ~RangesCover(r.src, r.win)
        /\ todo' = [todo EXCEPT ![t] = Chunks(r.src, r.win)]
        /\ pc' = [pc EXCEPT ![t] = "join"]
        /\ out' = [out EXCEPT ![t] = "none"]
        /\ fills' = [fills EXCEPT ![r].st = "running"]
        /\ UNCHANGED <<have, got>>
  /\ UNCHANGED <<now, persists, store, current, on, res, fetcher>>

\* The request ends with an error; a backfill job is marked failed.
Raise(t) ==
  /\ Finish(t, "error")
  /\ fills' = IF req[t].op = "backfill" THEN [fills EXCEPT ![req[t]].st = "failed"]
                                        ELSE fills

\* _load_storage: what the store holds of the window now.
ReadStorage(t) ==
  /\ pc[t] = "read"
  /\ LET bars    == source \cap Slots(req[t].win)
         missing == Slots(req[t].win) \ source
     IN  \/ Raise(t)
         \/ /\ missing = {} \/ (req[t].src = "storage" /\ ~req[t].fail)
            /\ Return(t, bars)
            /\ UNCHANGED fills
         \/ /\ missing # {} /\ req[t].src = "auto"
            /\ have' = [have EXCEPT ![t] = bars]
            /\ todo' = [todo EXCEPT ![t] = MissingIntervals(missing)]
            /\ pc' = [pc EXCEPT ![t] = "join"]
            /\ UNCHANGED <<got, out, fills>>
  /\ UNCHANGED <<now, persists, store, current, req, on, res, left, fetcher>>

\* The query the thread puts to the provider.
Query(t) == [lo |-> EarliestWindow(todo[t])[1], hi |-> EarliestWindow(todo[t])[2], fail |-> req[t].fail]

\* A guard that is not held while the flight is looked up.
Join_NoGuard(t) ==
  /\ pc[t] = "join"
  /\ current' = IF Isolated(req[t]) THEN current ELSE t
  /\ pc' = [pc EXCEPT ![t] = "fetch"]
  /\ UNCHANGED <<now, persists, store, req, todo, on, res, have, got, out, left, fills, fetcher>>

\* Under _provider_flights_guard: open the flight, or wait for the one there is.
Join(t) ==
  /\ pc[t] = "join"
  /\ \/ /\ current = NoOne \/ Isolated(req[t])
        /\ current' = IF Isolated(req[t]) THEN current ELSE t
        /\ pc' = [pc EXCEPT ![t] = "fetch"]
        /\ UNCHANGED on
     \/ /\ current # NoOne /\ ~Isolated(req[t])
        /\ on' = [on EXCEPT ![t] = current]
        /\ pc' = [pc EXCEPT ![t] = "wait"]
        /\ UNCHANGED current
  /\ UNCHANGED <<now, persists, store, req, todo, res, have, got, out, left, fills, fetcher>>

\* What fetch_bars may return for a window: the closed bars of it, all of them
\* unless the provider leaves one out.
Delivered(w) ==
  LET closed == Slots(w) \cap 0 .. now - 1
  IN  {closed} \cup IF ProviderGaps THEN {closed \ {b} : b \in closed} ELSE {}

\* The owner of the flight calls the provider, validates the series, and takes
\* its flight out of the table.  A provider that persists has stored the bars.
ProviderFetch(t) ==
  /\ pc[t] = "fetch"
  /\ \/ res' = [res EXCEPT ![t] = Failed] /\ UNCHANGED source
     \/ \E B \in Delivered(EarliestWindow(todo[t])) :
          /\ source' = IF persists THEN source \cup B ELSE source
          /\ res' = [res EXCEPT ![t] =
                       IF req[t].fail /\ B # Slots(EarliestWindow(todo[t])) THEN Failed ELSE Fetched(B)]
  /\ current' = IF current = t THEN NoOne ELSE current
  /\ pc' = [pc EXCEPT ![t] = "settle"]
  /\ UNCHANGED <<now, persists, target, req, todo, on, have, got, out, left, fills, fetcher>>

Waiters(t) == {u \in Clients : pc[u] = "wait" /\ on[u] = t}

\* A flight shared by every request for the series, whatever its window.
SettleFlight_AnyQuery(t) ==
  /\ pc[t] = "settle"
  /\ res' = [u \in Clients |-> IF u \in Waiters(t) THEN res[t] ELSE res[u]]
  /\ pc'  = [u \in Clients |-> IF u \in Waiters(t) \cup {t} THEN "got" ELSE pc[u]]
  /\ on'  = [u \in Clients |-> IF u \in Waiters(t) THEN NoOne ELSE on[u]]
  /\ UNCHANGED <<now, persists, store, current, req, todo, have, got, out, left, fills, fetcher>>

\* A flight whose future is only completed when the provider answered.
SettleFlight_OnlySuccess(t) ==
  LET woken  == IF res[t].ok THEN Waiters(t) ELSE {}
      served == {u \in woken : Query(u) = Query(t)}
  IN  /\ pc[t] = "settle"
      /\ res' = [u \in Clients |-> IF u \in served THEN res[t] ELSE res[u]]
      /\ pc'  = [u \in Clients |-> IF u \in served \cup {t} THEN "got"
                                   ELSE IF u \in woken THEN "join" ELSE pc[u]]
      /\ on'  = [u \in Clients |-> IF u \in woken THEN NoOne ELSE on[u]]
      /\ UNCHANGED <<now, persists, store, current, req, todo, have, got, out, left, fills, fetcher>>

\* The future is completed, after the flight left the table.  A waiter with the
\* same query shares the result, any other one makes its own attempt.
SettleFlight(t) ==
  LET served == {u \in Waiters(t) : Query(u) = Query(t)}
  IN  /\ pc[t] = "settle"
      /\ res' = [u \in Clients |-> IF u \in served THEN res[t] ELSE res[u]]
      /\ pc'  = [u \in Clients |-> IF u \in served \cup {t} THEN "got"
                                   ELSE IF u \in Waiters(t) THEN "join" ELSE pc[u]]
      /\ on'  = [u \in Clients |-> IF u \in Waiters(t) THEN NoOne ELSE on[u]]
      /\ UNCHANGED <<now, persists, store, current, req, todo, have, got, out, left, fills, fetcher>>

\* The thread goes on with the result.  A load collects the windows it misses
\* (_load_missing_from_provider); a backfill stores each chunk as it comes.
Take(t) ==
  LET rest == todo[t] \ {EarliestWindow(todo[t])}
  IN  /\ pc[t] = "got"
      /\ res' = [res EXCEPT ![t] = Failed]
      /\ \/ ~res[t].ok /\ Raise(t)
         \/ /\ res[t].ok /\ req[t].op = "load"
            /\ got' = [got EXCEPT ![t] = @ \cup res[t].bars]
            /\ todo' = [todo EXCEPT ![t] = rest]
            /\ pc' = [pc EXCEPT ![t] = IF rest = {} THEN "merge" ELSE "join"]
            /\ UNCHANGED <<have, out, fills>>
         \/ /\ res[t].ok /\ req[t].op = "backfill"
            /\ got' = [got EXCEPT ![t] = res[t].bars]
            /\ pc' = [pc EXCEPT ![t] = "store"]
            /\ fills' = [fills EXCEPT ![req[t]].avail = @ \cup res[t].bars]
            /\ UNCHANGED <<have, todo, out>>
      /\ UNCHANGED <<now, persists, store, current, req, on, left, fetcher>>

\* The end of load_bars: write through what a fetch-only provider gave, merge,
\* and refuse an incomplete series under gap_policy "fail".
MergeSeries(t) ==
  LET write == req[t].src = "auto" /\ got[t] # {} /\ ~persists
  IN  /\ pc[t] = "merge"
      /\ \/ write /\ Raise(t) /\ UNCHANGED source
         \/ /\ source' = IF write THEN source \cup got[t] ELSE source
            /\ IF req[t].fail /\ have[t] \cup got[t] # Slots(req[t].win)
               THEN Raise(t)
               ELSE Return(t, have[t] \cup got[t]) /\ UNCHANGED fills
      /\ UNCHANGED <<now, persists, target, current, req, on, res, left, fetcher>>

-----------------------------------------------------------------------------
(* Backfill of one chunk.                                                  *)

NextChunk(t) ==
  LET rest == todo[t] \ {EarliestWindow(todo[t])}
  IN  \/ /\ rest = {}
         /\ Finish(t, "done")
         /\ fills' = [fills EXCEPT ![req[t]].st = "done"]
      \/ /\ rest # {}
         /\ todo' = [todo EXCEPT ![t] = rest]
         /\ pc' = [pc EXCEPT ![t] = "join"]
         /\ UNCHANGED <<have, got, out, fills>>

\* _store_backfill_series of the source bars.  It writes only bars that were
\* not stored when it looked; a bar stored meanwhile is written once more.
StoreSource(t) ==
  /\ pc[t] = "store"
  /\ \/ got[t] # {} /\ Raise(t) /\ UNCHANGED source
     \/ /\ source' = source \cup got[t]
        /\ IF req[t].src = "source" THEN NextChunk(t)
           ELSE pc' = [pc EXCEPT ![t] = "derive"] /\ UNCHANGED <<todo, have, got, out, fills>>
  /\ UNCHANGED <<now, persists, target, current, req, on, res, left, fetcher>>

\* _aggregate_backfill_series: the target bars inside the chunk all of whose
\* source bars the provider delivered with the chunk.
Aggregates(w, B) ==
  {k \in Targets : Window(k) \subseteq Slots(w) /\ Window(k) \subseteq B}

StoreTarget(t) ==
  LET derived == Aggregates(EarliestWindow(todo[t]), got[t])
  IN  /\ pc[t] = "derive"
      /\ \/ derived # {} /\ Raise(t) /\ UNCHANGED target
         \/ target' = target \cup derived /\ NextChunk(t)
      /\ UNCHANGED <<now, persists, source, current, req, on, res, left, fetcher>>

-----------------------------------------------------------------------------
(* PeriodicBarFetcher.                                                     *)

\* First bar to fetch: the one after the newest bar stored, or the recent past
\* if the store has none or cannot be read.
RefreshStart ==
  LET stored == source \cap 0 .. now - 1
      recent == Max({0, now - (Ratio + Lookback)})
  IN  {recent} \cup IF stored = {} THEN {} ELSE {Max(stored) + 1}

RefreshEnds == fpc' = "sleep" /\ frange' = <<0, 0>> /\ fbars' = {}

\* The top of _refresh_market_key.  With no new bar the refresh is over.
RefreshStarts ==
  /\ fpc = "sleep"
  /\ \E start \in RefreshStart :
       \/ start < now /\ fpc' = "load" /\ frange' = <<start, now>>
       \/ start >= now /\ UNCHANGED <<fpc, frange>>
  /\ UNCHANGED <<now, persists, store, current, clients, fills, fbars>>

\* _load_source_bars, gaps allowed.  An error counts as no bars.
RefreshLoad ==
  /\ fpc = "load"
  /\ \E B \in Delivered(frange) \cup {{}} :
       /\ source' = IF persists THEN source \cup B ELSE source
       /\ fbars' = B
       /\ fpc' = IF B = {} THEN "sleep" ELSE IF persists THEN "derive" ELSE "store"
       /\ frange' = IF B = {} THEN <<0, 0>> ELSE frange
  /\ UNCHANGED <<now, persists, target, current, clients, fills>>

\* store_bars of a fetch-only provider's bars: refused when the window has a
\* gap or the write fails.  A bar stored meanwhile with another content is a
\* conflict: nothing is written, and the refresh goes on.
RefreshStore ==
  /\ fpc = "store"
  /\ \/ RefreshEnds /\ UNCHANGED source
     \/ /\ fbars = Slots(frange)
        /\ fpc' = "derive"
        /\ source' = source \cup fbars
        /\ UNCHANGED <<frange, fbars>>
     \/ /\ fbars = Slots(frange) /\ fbars \cap source # {}
        /\ fpc' = "derive"
        /\ UNCHANGED <<source, frange, fbars>>
  /\ UNCHANGED <<now, persists, target, current, clients, fills>>

\* _store_target_aggregates: the target bars closed by a bar of this refresh
\* whose source bars are all at hand, from the refresh or from the store.
RefreshDerive ==
  /\ fpc = "derive"
  /\ RefreshEnds
  /\ \E context \in {source, {}} :
       LET derived == {k \in Targets : /\ k * Ratio + Ratio - 1 \in fbars
                                       /\ Window(k) \subseteq context \cup fbars}
           gapless == derived # {} /\ derived = Min(derived) .. Max(derived)
       IN  target' \in {target} \cup IF gapless THEN {target \cup derived} ELSE {}
  /\ UNCHANGED <<now, persists, source, current, clients, fills>>

\* The background worker is killed or restarted.
RefreshCrash ==
  /\ fpc # "sleep"
  /\ RefreshEnds
  /\ UNCHANGED <<now, persists, store, current, clients, fills>>

-----------------------------------------------------------------------------
BarCloses ==
  /\ now < MaxTime
  /\ now' = now + 1
  /\ UNCHANGED <<persists, store, current, clients, fills, fetcher>>

ThreadStep(t) ==
  \/ ReadStorage(t) \/ Join(t) \/ ProviderFetch(t) \/ SettleFlight(t) \/ Take(t)
  \/ MergeSeries(t) \/ StoreSource(t) \/ StoreTarget(t)

Next ==
  \/ BarCloses
  \/ \E t \in Clients : ThreadStep(t) \/ \E r \in Loads \cup Backfills : Request(t, r)
  \/ RefreshStarts \/ RefreshLoad \/ RefreshStore \/ RefreshDerive \/ RefreshCrash

\* A request thread that can go on does: provider calls return or raise.
Fairness == \A t \in Clients : WF_vars(ThreadStep(t))

Spec == Init /\ [][Next]_vars /\ Fairness

-----------------------------------------------------------------------------
(* Properties.                                                             *)

\* The variables stay within their types.
TypeOK ==
  /\ now \in 0 .. MaxTime /\ persists \in BOOLEAN
  /\ source \subseteq Bars /\ target \subseteq Targets
  /\ current \in Clients \cup {NoOne}
  /\ pc \in [Clients -> {"idle", "read", "join", "wait", "fetch", "settle", "got",
                         "merge", "store", "derive"}]
  /\ req \in [Clients -> Loads \cup Backfills \cup {NoRequest}]
  /\ todo \in [Clients -> SUBSET ((0 .. MaxTime) \X (0 .. MaxTime))]
  /\ on \in [Clients -> Clients \cup {NoOne}]
  /\ res \in [Clients -> [ok : BOOLEAN, bars : SUBSET Bars]]
  /\ have \in [Clients -> SUBSET Bars] /\ got \in [Clients -> SUBSET Bars]
  /\ out \in [Clients -> {"none", "complete", "partial", "done", "error", "skipped"}]
  /\ left \in [Clients -> 0 .. MaxRequests]
  /\ fills \in [Backfills -> [st : {"none", "running", "done", "failed", "skipped"},
                              avail : SUBSET Bars]]
  /\ fpc \in {"sleep", "load", "store", "derive"}
  /\ frange \in (0 .. MaxTime) \X (0 .. MaxTime) /\ fbars \subseteq Bars

\* load_bars under gap_policy "fail" returns the whole window or raises, also
\* when its bars come from several places: the store as it was read, flights of
\* its own, and flights another thread opened and validated.  A shared flight
\* gives a thread bars of the window that thread asked for, and all of them
\* under gap_policy "fail", whatever the policy of the thread that opened it.
FailLoadsAreComplete ==
  \A t \in Clients :
    /\ (req[t].op = "load" /\ req[t].fail) => out[t] # "partial"
    /\ (pc[t] = "got" /\ res[t].ok) =>
         /\ res[t].bars \subseteq Slots(EarliestWindow(todo[t]))
         /\ req[t].fail => res[t].bars = Slots(EarliestWindow(todo[t]))

\* _provider_flights: one provider request of the gateway for the series at a
\* time, owned by the thread in the table; and nobody waits for a flight that is
\* over.
SingleFlight ==
  /\ \A t \in Clients : (pc[t] = "fetch" /\ ~Isolated(req[t])) <=> current = t
  /\ \A t \in Clients : pc[t] = "wait" => pc[on[t]] \in {"fetch", "settle"}

\* The inductive form of SingleFlight: with the types of the flight table and of
\* what the threads wait for.
Flights ==
  /\ current \in Clients \cup {NoOne}
  /\ pc \in [Clients -> {"idle", "read", "join", "wait", "fetch", "settle", "got",
                         "merge", "store", "derive"}]
  /\ req \in [Clients -> Loads \cup Backfills \cup {NoRequest}]
  /\ on \in [Clients -> Clients \cup {NoOne}]
  /\ \A t \in Clients : pc[t] = "wait" => on[t] \in Clients
  /\ SingleFlight

\* _run_data_backfill_chunked: a backfill that ends well has stored every bar
\* that was delivered and every target bar that lies in its window with all its
\* source bars delivered, wherever the window was cut into chunks.
BackfillDerivesAll ==
  \A r \in Backfills :
    fills[r].st = "done" =>
      /\ fills[r].avail \subseteq source
      /\ r.src = "target" => Aggregates(r.win, fills[r].avail) \subseteq target

\* When the provider owns persistence, a target bar in the store has all its
\* source bars in the store: both writers store the bars before the aggregate.
AggregatesHaveSources ==
  persists => \A k \in target : Window(k) \subseteq source

\* A series that is reported complete is: a load with the gap policy "fail"
\* returns every bar of its window, and a backfill that ends derives every
\* aggregate from stored source bars (DataOrchestrator.load_bars,
\* _run_data_backfill_job).
SeriesAreComplete == FailLoadsAreComplete /\ BackfillDerivesAll /\ AggregatesHaveSources

\* Every request ends, in particular one that waits for the flight of another
\* thread, whether that flight succeeds or fails.
RequestsEnd == \A t \in Clients : pc[t] # "idle" ~> pc[t] = "idle"

\* _latest_stored_bar_time: resuming after the newest bar stored skips no bar
\* that closed since the first one stored.
CatchUpSkipsNoBar ==
  fpc = "load" =>
    LET before == {b \in source : b < frange[1]}
    IN  before = {} \/ Min(before) .. frange[1] - 1 \subseteq source
=============================================================================
