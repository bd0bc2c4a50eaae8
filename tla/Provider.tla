------------------------------ MODULE Provider ------------------------------
(***************************************************************************)
(* The Rust OpenFeature provider (openfeature-provider/rust/src): fetching *)
(* the resolver state from the CDN, the background task that polls for     *)
(* states and flushes logs, sending logs with retries and a fallback       *)
(* destination, and shutdown.                                              *)
(*                                                                         *)
(* The background task is one future: while a flush is awaited neither the *)
(* state refresh nor the shutdown signal is polled.  The steps of a flush  *)
(* and of a state update that are separated by an await or by a lock are   *)
(* separate actions here; a resolve on another thread, and the final flush *)
(* of shutdown next to a background task it gave up waiting for, happen    *)
(* in between.                                                             *)
(***************************************************************************)
EXTENDS Integers, Sequences

CONSTANTS
  MaxVersion,     \* bound: states published by the CDN are 1 .. MaxVersion
  Destinations(_),\* the log destinations of a state; 0 is before any state
  MAX_ATTEMPTS,   \* logger.rs, attempts per destination
  LOG_TARGET,     \* assign records that fit into one request
  MaxLogs,        \* bound: logged resolves
  DisableExposure \* the option disable_exposure_collection

ASSUME ProviderAssumption ==
  /\ MaxVersion \in Nat \ {0}
  /\ MAX_ATTEMPTS \in Nat \ {0}
  /\ LOG_TARGET \in Nat \ {0}
  /\ MaxLogs \in Nat
  /\ DisableExposure \in BOOLEAN
  /\ \A v \in 0 .. MaxVersion : /\ Destinations(v) \in Seq({"Edge", "Cloudflare"})
                                /\ Destinations(v) # << >>
  /\ Destinations(0) = <<"Edge">>

VARIABLES
  phase,      \* "new", "init", "running", "failed", "stopping", "final", "done"
  cdn,        \* the version the CDN serves, 0 before the first
  etag,       \* StateFetcher.etag, 0 for none
  state,      \* SharedState.state, 0 for none
  account,    \* the version whose account is stored, 0 for none
  dests,      \* the version whose log destinations are stored
  terminal,   \* SharedState.terminal_error is set
  refresh,    \* where refresh_state is
  bg,         \* where the background task is
  stop,       \* the shutdown signal was sent
  flush,      \* the flush in progress of the background task and of shutdown
  resolves,   \* RESOLVE_LOGGER: resolves not yet taken by a flush
  assigns,    \* ASSIGN_LOGGER: assignments not yet taken, oldest first
  logged,     \* resolves logged so far, numbered from 1
  initState,  \* InitTelemetryState
  initClaims  \* history: requests that carry the provider's init count

stateVars == <<cdn, etag, state, account, dests, terminal>>
logVars   == <<resolves, assigns, logged>>
vars == <<phase, stateVars, refresh, bg, stop, flush, logVars, initState, initClaims>>

Actors == {"bg", "shutdown"}
Idle == [pc |-> "idle", resolves |-> {}, assigns |-> << >>, init |-> FALSE,
         dests |-> << >>, account |-> 0, attempt |-> 0]

Init ==
  /\ phase = "new"
  /\ cdn = 0 /\ etag = 0 /\ state = 0 /\ account = 0 /\ dests = 0
  /\ terminal = FALSE
  /\ refresh = "idle"
  /\ bg = "none"
  /\ stop = FALSE
  /\ flush = [a \in Actors |-> Idle]
  /\ resolves = {} /\ assigns = << >> /\ logged = 0
  /\ initState = "pending" /\ initClaims = 0

-----------------------------------------------------------------------------
\* A new state is published.
Publish ==
  /\ cdn < MaxVersion
  /\ cdn' = cdn + 1
  /\ UNCHANGED <<phase, etag, state, account, dests, terminal, refresh, bg, stop, flush,
                 logVars, initState, initClaims>>

\* The state refresh is polled by init, and by the background task whenever
\* it waits in select!.
Polled == phase = "init" \/ bg = "select"

\* init() awaits refresh_state.
StartInit ==
  /\ phase = "new"
  /\ phase' = "init"
  /\ refresh' = "fetch"
  /\ UNCHANGED <<stateVars, bg, stop, flush, logVars, initState, initClaims>>

\* refresh_state has returned: init starts the background task, whose
\* refresh loop goes on sleeping.
Refreshed ==
  /\ refresh' = "sleep"
  /\ IF phase = "init" THEN phase' = "running" /\ bg' = "select"
                       ELSE UNCHANGED <<phase, bg>>

\* Mutant: the ETag of a response is kept although its body cannot be used.
FetchFails_KeepsEtag(permanent) ==
  /\ refresh = "fetch" /\ Polled
  /\ etag' \in {etag, cdn}
  /\ IF permanent /\ state = 0
     THEN /\ terminal' = TRUE
          /\ refresh' = "idle"
          /\ IF phase = "init" THEN phase' = "failed" /\ UNCHANGED bg
                               ELSE bg' = "ended" /\ UNCHANGED phase
     ELSE Refreshed /\ UNCHANGED terminal
  /\ UNCHANGED <<cdn, state, account, dests, stop, flush, logVars, initState, initClaims>>

\* Mutant: an error that is not retryable is terminal for an initialized
\* provider too.
FetchFails_AlwaysTerminal(permanent) ==
  /\ refresh = "fetch" /\ Polled
  /\ IF permanent
     THEN /\ terminal' = TRUE
          /\ refresh' = "idle"
          /\ IF phase = "init" THEN phase' = "failed" /\ UNCHANGED bg
                               ELSE bg' = "ended" /\ UNCHANGED phase
     ELSE Refreshed /\ UNCHANGED terminal
  /\ UNCHANGED <<cdn, etag, state, account, dests, stop, flush, logVars, initState, initClaims>>

\* Mutant: a permanent error ends the background task of a ready provider.
FetchFails_EndsTask(permanent) ==
  /\ refresh = "fetch" /\ Polled
  /\ IF permanent
     THEN /\ terminal' = (state = 0)
          /\ refresh' = "idle"
          /\ IF phase = "init" THEN phase' = "failed" /\ UNCHANGED bg
                               ELSE bg' = "ended" /\ UNCHANGED phase
     ELSE Refreshed /\ UNCHANGED terminal
  /\ UNCHANGED <<cdn, etag, state, account, dests, stop, flush, logVars, initState, initClaims>>

\* Mutant: after a failed fetch there is no other.
FetchFails_Once(permanent) ==
  /\ refresh = "fetch" /\ Polled
  /\ refresh' = "idle"
  /\ IF phase = "init" THEN phase' = "running" /\ bg' = "select" ELSE UNCHANGED <<phase, bg>>
  /\ UNCHANGED <<cdn, etag, state, account, dests, terminal, stop, flush, logVars, initState, initClaims>>

\* A fetch fails: retryable for a transport error, a timeout and the statuses
\* 404, 408, 429 and 5xx; permanent for another status or a state that cannot
\* be decrypted or decoded.  Without a state yet, a permanent error ends init
\* or the refresh loop, and with it the background task.
FetchFails(permanent) ==
  /\ refresh = "fetch" /\ Polled
  /\ IF permanent /\ state = 0
     THEN /\ terminal' = TRUE
          /\ refresh' = "idle"
          /\ IF phase = "init" THEN phase' = "failed" /\ UNCHANGED bg
                               ELSE bg' = "ended" /\ UNCHANGED phase
     ELSE Refreshed /\ UNCHANGED terminal
  /\ UNCHANGED <<cdn, etag, state, account, dests, stop, flush, logVars, initState, initClaims>>

\* 304: nothing to do (and a retryable error when there is no state).
FetchNotModified ==
  /\ refresh = "fetch" /\ Polled
  /\ etag # 0 /\ etag = cdn
  /\ Refreshed
  /\ UNCHANGED <<stateVars, stop, flush, logVars, initState, initClaims>>

\* A state arrives and decodes: its ETag is kept, if the response has one,
\* and SharedState::update stores the state.
FetchOk ==
  /\ refresh = "fetch" /\ Polled
  /\ cdn # 0 /\ cdn # etag
  /\ etag' \in {cdn, 0}
  /\ state' = cdn
  /\ refresh' = "account"
  /\ UNCHANGED <<phase, cdn, account, dests, terminal, bg, stop, flush, logVars, initState, initClaims>>

\* Mutant: the account of a new state is not stored.
StoreAccount_Forgotten ==
  /\ refresh = "account" /\ Polled
  /\ refresh' = "dests"
  /\ UNCHANGED <<phase, cdn, etag, state, account, dests, terminal, bg, stop, flush, logVars, initState,
                 initClaims>>

\* update awaits the lock of the account, and stores it.  It keeps this lock
\* until the destinations are stored.
StoreAccount ==
  /\ refresh = "account" /\ Polled
  /\ account' = state
  /\ refresh' = "dests"
  /\ UNCHANGED <<phase, cdn, etag, state, dests, terminal, bg, stop, flush, logVars, initState,
                 initClaims>>

\* Last, the log destinations.
StoreDests ==
  /\ refresh = "dests" /\ Polled
  /\ dests' = state
  /\ Refreshed
  /\ UNCHANGED <<cdn, etag, state, account, terminal, stop, flush, logVars, initState, initClaims>>

\* The poll interval, or the retry interval without a state, has passed.
Wake ==
  /\ refresh = "sleep" /\ bg = "select"
  /\ refresh' = "fetch"
  /\ UNCHANGED <<phase, stateVars, bg, stop, flush, logVars, initState, initClaims>>

\* The refresh is awaited where it waits: for its timer, for the CDN, or for a
\* lock that the flush of shutdown, on another thread, holds to read.  Only
\* there can select! take another branch.
Pending ==
  \/ refresh \in {"idle", "sleep", "fetch"}
  \/ refresh = "account" /\ flush["shutdown"].pc = "account"
  \/ refresh = "dests" /\ flush["shutdown"].pc = "dests"

-----------------------------------------------------------------------------
\* status(): an initialized provider resolves, another one answers with the
\* terminal error or that it is not ready.
Status == IF state # 0 THEN "ready" ELSE IF terminal THEN "error" ELSE "not ready"

\* A resolve logs itself, and its assignment unless exposure collection is
\* disabled.  shutdown borrows the provider exclusively: no resolve is in
\* progress from then on.
Resolve ==
  /\ phase = "running" /\ Status = "ready"
  /\ logged < MaxLogs
  /\ logged' = logged + 1
  /\ resolves' = resolves \cup {logged + 1}
  /\ assigns' = IF DisableExposure THEN assigns ELSE Append(assigns, logged + 1)
  /\ UNCHANGED <<phase, stateVars, refresh, bg, stop, flush, initState, initClaims>>

\* Mutant: the limit is taken for one too many.
Taken_Short == SubSeq(assigns, 1, IF Len(assigns) < LOG_TARGET THEN Len(assigns) ELSE LOG_TARGET - 1)

\* The assignments one request takes, oldest first, and those that stay.
Taken == SubSeq(assigns, 1, IF Len(assigns) < LOG_TARGET THEN Len(assigns) ELSE LOG_TARGET)
Rest  == SubSeq(assigns, Len(Taken) + 1, Len(assigns))

\* flush_all up to the send: all resolves, assignments up to the limit, a
\* telemetry delta, and the init count if it is not claimed yet.  The
\* request is never empty: it carries telemetry.
BuildAll(a) ==
  /\ flush' = [flush EXCEPT ![a] = [Idle EXCEPT !.pc = "dests", !.resolves = resolves,
                                                !.assigns = Taken, !.init = (initState = "pending")]]
  /\ resolves' = {}
  /\ assigns' = Rest
  /\ initState' = IF initState = "pending" THEN "sending" ELSE initState
  /\ initClaims' = initClaims + (IF initState = "pending" THEN 1 ELSE 0)

\* Mutant: the interval passes when there are no assignments.
FlushAll_IfAssigned ==
  /\ bg = "select" /\ Pending /\ assigns # << >>
  /\ bg' = "flush"
  /\ BuildAll("bg")
  /\ UNCHANGED <<phase, stateVars, refresh, stop, logged>>

\* The flush interval of the background task.
FlushAll ==
  /\ bg = "select" /\ Pending
  /\ bg' = "flush"
  /\ BuildAll("bg")
  /\ UNCHANGED <<phase, stateVars, refresh, stop, logged>>

\* Mutant: the assign interval takes what there is, and puts it in front of
\* what was logged meanwhile.
FlushAssign_Partial ==
  /\ bg = "select" /\ Pending /\ ~DisableExposure
  /\ assigns # << >>
  /\ bg' = "flush"
  /\ flush' = [flush EXCEPT !["bg"] = [Idle EXCEPT !.pc = "dests", !.assigns = Taken]]
  /\ UNCHANGED <<phase, stateVars, refresh, stop, logVars, initState, initClaims>>

\* The assign interval: flush_assign sends only a full request.
FlushAssign ==
  /\ bg = "select" /\ Pending /\ ~DisableExposure
  /\ Len(assigns) >= LOG_TARGET
  /\ bg' = "flush"
  /\ flush' = [flush EXCEPT !["bg"] = [Idle EXCEPT !.pc = "dests", !.assigns = Taken]]
  /\ assigns' = Rest
  /\ UNCHANGED <<phase, stateVars, refresh, stop, resolves, logged, initState, initClaims>>

\* send reads the destinations ...
ReadDests(a) ==
  /\ flush[a].pc = "dests"
  /\ flush' = [flush EXCEPT ![a].dests = Destinations(dests), ![a].pc = "account"]
  /\ UNCHANGED <<phase, stateVars, refresh, bg, stop, logVars, initState, initClaims>>

\* ... and then the account, once no update holds its lock, and posts to the
\* first destination.
ReadAccount(a) ==
  /\ flush[a].pc = "account" /\ refresh # "dests"
  /\ flush' = [flush EXCEPT ![a].account = account, ![a].attempt = 1, ![a].pc = "primary"]
  /\ UNCHANGED <<phase, stateVars, refresh, bg, stop, logVars, initState, initClaims>>

Posting(a) == flush[a].pc \in {"primary", "fallback"}
Destination(a) == flush[a].dests[IF flush[a].pc = "primary" THEN 1 ELSE 2]

\* Mutant: one attempt too many.
Retry_OneMore(a) ==
  /\ Posting(a) /\ flush[a].attempt <= MAX_ATTEMPTS
  /\ flush' = [flush EXCEPT ![a].attempt = @ + 1]
  /\ UNCHANGED <<phase, stateVars, refresh, bg, stop, logVars, initState, initClaims>>

\* A transport error or a retryable status: sleep, and post again.
Retry(a) ==
  /\ Posting(a) /\ flush[a].attempt < MAX_ATTEMPTS
  /\ flush' = [flush EXCEPT ![a].attempt = @ + 1]
  /\ UNCHANGED <<phase, stateVars, refresh, bg, stop, logVars, initState, initClaims>>

\* The primary destination refused the request or failed its last attempt,
\* and there is a second one.
Fallback(a) ==
  /\ flush[a].pc = "primary" /\ Len(flush[a].dests) >= 2
  /\ flush' = [flush EXCEPT ![a].attempt = 1, ![a].pc = "fallback"]
  /\ UNCHANGED <<phase, stateVars, refresh, bg, stop, logVars, initState, initClaims>>

\* Mutant: a flush that failed gives the init count back.
Finish_Reopens(a) ==
  /\ Posting(a)
  /\ flush' = [flush EXCEPT ![a] = Idle]
  /\ initState' \in IF flush[a].init THEN {"sent", "pending"} ELSE {initState}
  /\ IF a = "bg" THEN bg' = "select" /\ UNCHANGED phase ELSE phase' = "done" /\ UNCHANGED bg
  /\ UNCHANGED <<stateVars, refresh, stop, logVars, initClaims>>

\* The request was accepted, or given up: send answers Ok either way, so the
\* init count is taken for sent and the logs of the request are gone.
Finish(a) ==
  /\ Posting(a)
  /\ flush' = [flush EXCEPT ![a] = Idle]
  /\ initState' = IF flush[a].init THEN "sent" ELSE initState
  /\ IF a = "bg" THEN bg' = "select" /\ UNCHANGED phase ELSE phase' = "done" /\ UNCHANGED bg
  /\ UNCHANGED <<stateVars, refresh, stop, logVars, initClaims>>

-----------------------------------------------------------------------------
\* shutdown signals the background task, if init started one.
Shutdown ==
  /\ phase \in {"running", "failed"}
  /\ phase' = "stopping"
  /\ stop' = (bg # "none")
  /\ UNCHANGED <<stateVars, refresh, bg, flush, logVars, initState, initClaims>>

\* The background task sees the signal: its refresh is dropped half way.
Stopped ==
  /\ bg = "select" /\ Pending /\ stop
  /\ bg' = "ended"
  /\ refresh' = "idle"
  /\ UNCHANGED <<phase, stateVars, stop, flush, logVars, initState, initClaims>>

\* Mutant: shutdown flushes the assignments only.
FinalFlush_AssignsOnly ==
  /\ phase = "stopping"
  /\ phase' = "final"
  /\ flush' = [flush EXCEPT !["shutdown"] = [Idle EXCEPT !.pc = "dests", !.assigns = Taken]]
  /\ assigns' = Rest
  /\ UNCHANGED <<stateVars, refresh, bg, stop, resolves, logged, initState, initClaims>>

\* The background task has ended, or three seconds have passed without: it
\* is left to itself, and shutdown flushes once.
FinalFlush ==
  /\ phase = "stopping"
  /\ phase' = "final"
  /\ BuildAll("shutdown")
  /\ UNCHANGED <<stateVars, refresh, bg, stop, logged>>

Next ==
  \/ Publish \/ StartInit \/ Wake
  \/ \E permanent \in BOOLEAN : FetchFails(permanent)
  \/ FetchNotModified \/ FetchOk \/ StoreAccount \/ StoreDests
  \/ Resolve \/ FlushAll \/ FlushAssign
  \/ \E a \in Actors : ReadDests(a) \/ ReadAccount(a) \/ Retry(a) \/ Fallback(a) \/ Finish(a)
  \/ Shutdown \/ Stopped \/ FinalFlush

Spec == Init /\ [][Next]_vars

(***************************************************************************)
(* Fairness.  Timers fire, locks are granted and HTTP requests return:     *)
(* weak fairness of the steps of a flush.  select! picks among its ready   *)
(* branches at random, so a branch that is ready again and again is taken: *)
(* strong fairness of the steps of the refresh and of the flush interval.  *)
(* A fetch succeeds from time to time.                                     *)
(***************************************************************************)
FairSpec ==
  /\ Spec
  /\ \A a \in Actors : WF_vars(ReadDests(a) \/ ReadAccount(a) \/ Finish(a))
  /\ SF_vars(Wake) /\ SF_vars(StoreAccount) /\ SF_vars(StoreDests) /\ SF_vars(FetchOk)
  /\ SF_vars(FlushAll) /\ WF_vars(StartInit)

-----------------------------------------------------------------------------
\* A flush in progress, or none.
FlushType ==
  [pc : {"idle", "dests", "account", "primary", "fallback"}, resolves : SUBSET (1 .. MaxLogs),
   assigns : Seq(1 .. MaxLogs), init : BOOLEAN, dests : Seq({"Edge", "Cloudflare"}),
   account : 0 .. MaxVersion, attempt : 0 .. MAX_ATTEMPTS]

(* The type of every variable: in particular a request is posted at most   *)
(* MAX_ATTEMPTS times to a destination (logger.rs, send_with_retry).       *)
TypeOK ==
  /\ phase \in {"new", "init", "running", "failed", "stopping", "final", "done"}
  /\ cdn \in 0 .. MaxVersion /\ etag \in 0 .. MaxVersion /\ state \in 0 .. MaxVersion
  /\ account \in 0 .. MaxVersion /\ dests \in 0 .. MaxVersion
  /\ terminal \in BOOLEAN
  /\ refresh \in {"idle", "sleep", "fetch", "account", "dests"}
  /\ bg \in {"none", "select", "flush", "ended"}
  /\ stop \in BOOLEAN
  /\ flush \in [Actors -> FlushType]
  /\ logged \in 0 .. MaxLogs /\ resolves \subseteq 1 .. MaxLogs /\ assigns \in Seq(1 .. MaxLogs)
  /\ initState \in {"pending", "sending", "sent"} /\ initClaims \in Nat

(* A request to the Cloudflare ingest worker names an account: the update  *)
(* stores the account before the destinations and send reads them the      *)
(* other way round, so whoever sees new destinations sees their account    *)
(* (state.rs, update; logger.rs, send).                                    *)
IngestHasAccount ==
  \A a \in Actors : Posting(a) /\ Destination(a) = "Cloudflare" => flush[a].account # 0

(* A 304 means that the state in use is the one the CDN serves: the ETag   *)
(* kept is that of the state stored, whatever responses could not be used  *)
(* and wherever shutdown cut the refresh (state.rs, fetch).                *)
EtagIsOfState == etag \in {0, state}

(* An error is reported as terminal only by a provider that has no state   *)
(* and will never get one: a provider that once was ready stays ready      *)
(* (provider.rs, init and the refresh loop).                               *)
TerminalIsFinal ==
  terminal => /\ state = 0 /\ refresh = "idle"
              /\ bg \in {"none", "ended"}

(* What the refresh stores piece by piece is consistent for everyone who   *)
(* reads it in between: the account with the destinations, the ETag with   *)
(* the state, the terminal error with the end of all retries.              *)
StoredConsistent == IngestHasAccount /\ EtagIsOfState /\ TerminalIsFinal

(* As long as a provider resolves, somebody flushes its logs: a background *)
(* task that has ended, or was never started, leaves none waiting          *)
(* (provider.rs, start_background_tasks).                                  *)
SomebodyFlushes ==
  phase = "running" /\ bg \in {"none", "ended"} => resolves = {} /\ assigns = << >>

Pieces == <<assigns, flush["bg"].assigns, flush["shutdown"].assigns>>

(* An assignment is in at most one place: not yet taken, or in one of the  *)
(* requests being sent, also when shutdown flushes while the background    *)
(* task it gave up on is still sending or starts another flush.            *)
AssignedOnce ==
  /\ \A p \in 1 .. 3 : \A i, j \in DOMAIN Pieces[p] : i # j => Pieces[p][i] # Pieces[p][j]
  /\ \A p, q \in 1 .. 3 : p # q =>
       \A i \in DOMAIN Pieces[p], j \in DOMAIN Pieces[q] : Pieces[p][i] # Pieces[q][j]

(* The count of provider initializations goes into one request, although   *)
(* flushes overlap at shutdown; whether or not that request is ever        *)
(* accepted (logger.rs, InitTelemetryState; send never answers Err).       *)
InitReportedOnce == initClaims <= 1

(* When shutdown is over every logged resolve has been taken by a flush    *)
(* (provider.rs, shutdown).                                                *)
ShutdownTakesResolves == phase = "done" => resolves = {}

(* The one flush of shutdown leaves assignments behind only if its request *)
(* is full, also when the background task takes some meanwhile.            *)
ShutdownLeavesOnlyOverflow ==
  phase = "final" /\ flush["shutdown"].pc # "idle" /\ assigns # << >>
    => Len(flush["shutdown"].assigns) = LOG_TARGET

(* Every log has somebody to take it and is taken once, through start,     *)
(* failure and shutdown, although shutdown gives up on a background task   *)
(* that may still be sending.                                              *)
LogsTaken ==
  /\ SomebodyFlushes
  /\ AssignedOnce
  /\ InitReportedOnce
  /\ ShutdownTakesResolves
  /\ ShutdownLeavesOnlyOverflow

(* A published state is in use eventually, unless the provider failed for  *)
(* good or is shut down: a slow flush delays the refresh, it cannot starve *)
(* it.                                                                     *)
StateGetsFresh == (cdn = MaxVersion) ~> (state = MaxVersion \/ terminal \/ phase \notin {"new", "init", "running"})

(* A logged resolve is taken by a flush, however long the flushes before   *)
(* it take, unless the provider is shut down (start_background_tasks).     *)
ResolvesAreTaken == \A n \in 1 .. MaxLogs : (n \in resolves) ~> (n \notin resolves \/ stop)

=============================================================================
