----------------------------- MODULE ErrorPipe -----------------------------
(***************************************************************************)
(* The error pipeline of a tab: every failing boundary of laye-p2p and its *)
(* host emits into a bounded buffer, and render_errors empties the buffer  *)
(* into the overlay, where recurring errors share one block with a counter *)
(* (crates/laye-p2p/src/error.rs; install_error_overlay, render_errors,    *)
(* bump_error_counter and dismiss_error of crates/laye-p2p/src/wasm.rs).   *)
(*                                                                         *)
(* An error is its dedup key, surface|region|title; the n-th emitted has   *)
(* id n.  One step is one emit, one drain or one round of the rendering    *)
(* loop; the page has one thread, so a call that has begun ends before     *)
(* another one or the user's click comes in.                               *)
(*                                                                         *)
(* The names of the specification begin with Error, so that a module can   *)
(* extend it together with TabIdentity, the other part of a tab.           *)
(***************************************************************************)
EXTENDS Integers, Sequences, FiniteSets

CONSTANTS
  Keys,       \* what can go wrong
  NoBlock,
  Cap,        \* CAP of error.rs
  MaxErrors,  \* bound: errors ever emitted
  MaxBurst    \* bound: errors one call emits before it renders

ASSUME CapAssumption == Cap \in Nat \ {0}
ASSUME BurstAssumption == MaxErrors \in Nat /\ MaxBurst \in Nat

VARIABLES
  buffer,   \* BUFFER
  emitted,  \* COUNTER
  overlay,  \* error_list_el is Some
  blocks,   \* error_dedup and error_counts: key -> its block in the page, or NoBlock
  call,     \* what the page's thread is doing
  burst,    \* errors the call has emitted
  drained,  \* what the loop of render_errors has before it
  \* history
  reported, \* key -> errors emitted
  early,    \* key -> errors drained before there was an overlay
  evicted   \* key -> errors the buffer dropped at its cap

errorPage == <<overlay, blocks>>
thread == <<call, burst, drained>>
errorVars == <<buffer, emitted, errorPage, thread, reported, early, evicted>>

Errors == [id: Nat, key: Keys]
Blocks == [id: Nat, count: Nat \ {0}, hidden: BOOLEAN]
ASSUME NoBlockAssumption == NoBlock \notin Blocks

ErrorTypeOK ==
  /\ buffer \in Seq(Errors) /\ Len(buffer) <= Cap
  /\ emitted \in Nat
  /\ overlay \in BOOLEAN
  /\ blocks \in [Keys -> Blocks \cup {NoBlock}]
  /\ call \in {"idle", "running", "rendering"}
  /\ burst \in 0..MaxBurst
  /\ drained \in Seq(Errors)
  /\ reported \in [Keys -> Nat]
  /\ early \in [Keys -> Nat]
  /\ evicted \in [Keys -> Nat]

ErrorInit ==
  /\ buffer = <<>>
  /\ emitted = 0
  /\ overlay = FALSE
  /\ blocks = [k \in Keys |-> NoBlock]
  /\ call = "idle" /\ burst = 0 /\ drained = <<>>
  /\ reported = [k \in Keys |-> 0]
  /\ early = [k \in Keys |-> 0]
  /\ evicted = [k \in Keys |-> 0]

-----------------------------------------------------------------------------
Count(k, errors) == Cardinality({i \in DOMAIN errors : errors[i].key = k})

\* emit pops the oldest error when the buffer is at its cap.
Kept(errors) == IF Len(errors) >= Cap THEN Tail(errors) ELSE errors

\* build, with its next_id, and emit.
Emit(k) ==
  LET kept == Kept(buffer)
  IN /\ emitted < MaxErrors
     /\ emitted' = emitted + 1
     /\ buffer' = Append(kept, [id |-> emitted + 1, key |-> k])
     /\ reported' = [reported EXCEPT ![k] = @ + 1]
     /\ evicted' = IF kept = buffer THEN evicted
                   ELSE [evicted EXCEPT ![Head(buffer).key] = @ + 1]

\* Definitions marked "fault" are what a slip in the code would give; no action
\* uses them.  A fault: the block of a recurring error is counted and stays dismissed.
BumpedHidden(block) == [block EXCEPT !.count = @ + 1]

\* bump_error_counter
Bumped(block) == [block EXCEPT !.count = @ + 1, !.hidden = FALSE]

-----------------------------------------------------------------------------
\* A call fails: most emit one error, drain_net_events may emit many.
Fail(k) ==
  /\ call # "rendering" /\ burst < MaxBurst
  /\ Emit(k)
  /\ call' = "running" /\ burst' = burst + 1
  /\ UNCHANGED <<errorPage, drained, early>>

\* random_state_hex and the poll's timer emit and leave rendering to whoever
\* renders next.
FailQuietly(k) ==
  /\ call = "idle"
  /\ Emit(k)
  /\ UNCHANGED <<errorPage, thread, early>>

\* init gets as far as the overlay; what fails after that (the chat overlay, the
\* republication) is rendered by its end.
InstallOverlay ==
  /\ call = "idle"
  /\ overlay' = TRUE /\ call' = "running"
  /\ UNCHANGED <<buffer, emitted, blocks, burst, drained, reported, early, evicted>>

\* A fault: rendering copies the buffer and leaves it.
RenderPeeking ==
  /\ call # "rendering"
  /\ call' = IF overlay /\ buffer # <<>> THEN "rendering" ELSE "idle"
  /\ burst' = 0
  /\ drained' = IF overlay THEN buffer ELSE <<>>
  /\ early' = IF overlay THEN early ELSE [k \in Keys |-> early[k] + Count(k, buffer)]
  /\ UNCHANGED <<buffer, emitted, errorPage, reported, evicted>>

\* render_errors, which drain_net_events reaches whether it failed or not: it
\* drains the buffer before it looks for the overlay.
Render ==
  /\ call # "rendering"
  /\ call' = IF overlay /\ buffer # <<>> THEN "rendering" ELSE "idle"
  /\ burst' = 0
  /\ buffer' = <<>>
  /\ drained' = IF overlay THEN buffer ELSE <<>>
  /\ early' = IF overlay THEN early ELSE [k \in Keys |-> early[k] + Count(k, buffer)]
  /\ UNCHANGED <<emitted, errorPage, reported, evicted>>

\* The loop of render_errors: a known key bumps its block, another gets one.
RenderOne ==
  LET e == Head(drained)
  IN /\ call = "rendering"
     /\ blocks' = [blocks EXCEPT ![e.key] =
                     IF @ = NoBlock THEN [id |-> e.id, count |-> 1, hidden |-> FALSE]
                     ELSE Bumped(@)]
     /\ drained' = Tail(drained)
     /\ call' = IF Len(drained) = 1 THEN "idle" ELSE call
     /\ UNCHANGED <<buffer, emitted, overlay, burst, reported, early, evicted>>

\* dismiss_error and the block's own [esc].
Dismiss(k) ==
  /\ call = "idle"
  /\ blocks[k] # NoBlock /\ ~blocks[k].hidden
  /\ blocks' = [blocks EXCEPT ![k].hidden = TRUE]
  /\ UNCHANGED <<buffer, emitted, overlay, thread, reported, early, evicted>>

ErrorNext ==
  \/ \E k \in Keys : Fail(k) \/ FailQuietly(k) \/ Dismiss(k)
  \/ InstallOverlay \/ Render \/ RenderOne

ErrorSpec == ErrorInit /\ [][ErrorNext]_errorVars

-----------------------------------------------------------------------------
Shown(k) == IF blocks[k] = NoBlock THEN 0 ELSE blocks[k].count

\* The buffer holds the newest errors, in the order they were emitted.
BufferIsNewest ==
  \A i \in DOMAIN buffer : buffer[i].id = emitted - Len(buffer) + i

\* Every error ever emitted is counted in its block, is about to be, waits in the
\* buffer, was pushed out of it by Cap newer ones, or was drained before there
\* was an overlay: bursts, coalescing and dismissals lose none, and overflow only
\* the oldest.
EveryErrorAccounted ==
  /\ BufferIsNewest
  /\ \A k \in Keys :
       reported[k] = Shown(k) + Count(k, drained) + Count(k, buffer) + early[k] + evicted[k]

\* A dismissed error that recurs is shown again.
RecurringResurfaces ==
  [][\A k \in Keys : blocks'[k] # NoBlock /\ blocks'[k] # blocks[k] =>
       \/ ~blocks'[k].hidden
       \/ blocks[k] # NoBlock /\ blocks'[k].count = blocks[k].count]_errorVars
=============================================================================
