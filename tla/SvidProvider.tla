---------------------------- MODULE SvidProvider ----------------------------
(***************************************************************************)
(* The SPIFFE identity of the server: spiffe/svidProvider.ts over          *)
(* spiffe/workloadApiClient.ts, started by startServer and stopped by the  *)
(* cleanup of the shutdown.                                                *)
(*                                                                         *)
(* One timer slot (refreshTimer) is shared by the periodic refresh and the *)
(* reconnection after an error, while answers of fetches that are already  *)
(* on their way still arrive.  The backoff only sets how long the timer    *)
(* runs, so it is left out.                                                *)
(***************************************************************************)
EXTENDS Naturals, FiniteSets

CONSTANTS Fetches   \* fetches on their way at once (a bound)

VARIABLES svid,     \* TLS material: "none", "valid", "lapsed" since, or "expired" when received
          timer,    \* refreshTimer: "none", "refresh" or "reconnect"
          fetch,    \* fetch[f]: "idle", or who waits for it
          watch,    \* the stream of stopWatch: "none", "open", "broken" or "dead"
          abandoned, \* a stream lost its listeners before it had failed
          lifecycle  \* "starting", "failed", "running", "stopped" or "crashed"

svidVars == <<svid, timer, fetch, watch, abandoned, lifecycle>>

Responses == {"valid", "expired", "unusable"}   \* unusable: no SVID or bundle of the trust domain

SvidInit ==
    \E f \in Fetches :
    /\ svid = "none"
    /\ timer = "none"
    /\ fetch = [g \in Fetches |-> IF g = f THEN "start" ELSE "idle"]
    /\ watch = "none"
    /\ abandoned = FALSE
    /\ lifecycle = "starting"

Stopped == lifecycle = "stopped"

-----------------------------------------------------------------------------
(* responseToTlsMaterial throws on an unusable response; scheduleRefresh
   replaces the timer and sets none for an SVID that has expired. *)
applyMaterial(response) ==
    /\ response # "unusable"
    /\ svid' = response
    /\ timer' = IF response = "expired" THEN "none" ELSE "refresh"

(* The reconnection replaces whatever the timer was set for. *)
handleWatchError ==
    /\ timer' = IF Stopped THEN timer ELSE "reconnect"
    /\ UNCHANGED svid

(* stopWatch removes the listeners and does not cancel the stream. *)
stopWatch == abandoned' = (abandoned \/ watch \in {"open", "broken"})

(* stopWatch?.() and a new stream. *)
Rewatch ==
    /\ stopWatch
    /\ watch' = "open"

(* The provider's use of a fetch's answer. *)
Done(f) == fetch' = [fetch EXCEPT ![f] = "idle"]

StartAnswered(f, response) ==
    /\ fetch[f] = "start"
    /\ Done(f)
    /\ \/ /\ applyMaterial(response)
          /\ Rewatch
          /\ lifecycle' = "running"
       \/ /\ response = "unusable"
          /\ lifecycle' = "failed"
          /\ UNCHANGED <<svid, timer, watch, abandoned>>

RefreshAnswered(f, response) ==
    /\ fetch[f] = "refresh"
    /\ Done(f)
    /\ applyMaterial(response) \/ (response = "unusable" /\ handleWatchError)
    /\ UNCHANGED <<watch, abandoned, lifecycle>>

ReconnectAnswered(f, response) ==
    /\ fetch[f] = "reconnect"
    /\ Done(f)
    /\ \/ applyMaterial(response) /\ Rewatch
       \/ response = "unusable" /\ handleWatchError /\ UNCHANGED <<watch, abandoned>>
    /\ UNCHANGED lifecycle

(* Mutant: a failed reconnection is given up. *)
FetchFails_GivesUp(f) ==
    /\ fetch[f] \in {"start", "refresh", "reconnect"}
    /\ Done(f)
    /\ IF fetch[f] = "refresh" THEN handleWatchError ELSE UNCHANGED <<svid, timer>>
    /\ lifecycle' = IF fetch[f] = "start" THEN "failed" ELSE lifecycle
    /\ UNCHANGED <<watch, abandoned>>

(* The call is refused: start() rejects, the others set up a reconnection. *)
FetchFails(f) ==
    /\ fetch[f] \in {"start", "refresh", "reconnect"}
    /\ Done(f)
    /\ IF fetch[f] # "start" THEN handleWatchError ELSE UNCHANGED <<svid, timer>>
    /\ lifecycle' = IF fetch[f] = "start" THEN "failed" ELSE lifecycle
    /\ UNCHANGED <<watch, abandoned>>

(* refreshFromFetch or reconnectAfterApiRestart begins. *)
TimerFires(f) ==
    /\ timer # "none"
    /\ fetch[f] = "idle"
    /\ fetch' = [fetch EXCEPT ![f] = IF Stopped THEN "idle" ELSE timer]
    /\ timer' = "none"
    /\ UNCHANGED <<svid, watch, abandoned, lifecycle>>

-----------------------------------------------------------------------------
(* The stream of the workload API. *)
WatchData(response) ==
    /\ watch = "open"
    /\ applyMaterial(response) \/ (response = "unusable" /\ handleWatchError)
    /\ UNCHANGED <<fetch, watch, abandoned, lifecycle>>

(* A broken stream reports an error, an end, or one after the other. *)
WatchBreaks ==
    /\ \/ watch = "open" /\ watch' \in {"broken", "dead"}
       \/ watch = "broken" /\ watch' = "dead"
    /\ handleWatchError
    /\ UNCHANGED <<fetch, abandoned, lifecycle>>

StopSvid ==
    /\ lifecycle = "running"
    /\ lifecycle' = "stopped"
    /\ timer' = "none"
    /\ stopWatch
    /\ watch' = "none"
    /\ UNCHANGED <<svid, fetch>>

(* An abandoned stream fails: nobody listens for its error, so the emitter
   throws it, and nothing in the server catches it. *)
AbandonedFails ==
    /\ abandoned
    /\ lifecycle' = "crashed"
    /\ UNCHANGED <<svid, timer, fetch, watch, abandoned>>

(* The certificate in use runs out. *)
SvidExpires ==
    /\ svid = "valid"
    /\ svid' = "lapsed"
    /\ UNCHANGED <<timer, fetch, watch, abandoned, lifecycle>>

SvidNext ==
    /\ lifecycle # "crashed"
    /\ \/ \E f \in Fetches :
             \/ \E r \in Responses :
                   StartAnswered(f, r) \/ RefreshAnswered(f, r) \/ ReconnectAnswered(f, r)
             \/ FetchFails(f) \/ TimerFires(f)
       \/ \E r \in Responses : WatchData(r)
       \/ WatchBreaks \/ StopSvid \/ AbandonedFails \/ SvidExpires

SvidSpec == SvidInit /\ [][SvidNext]_svidVars

-----------------------------------------------------------------------------
(* The identity keeps being renewed, however errors of the stream, failing
   fetches and answers that come late interleave on the one timer: while the
   provider runs, and unless the certificate it was last given had already
   expired (no timer is set for one), a timer is set or a fetch is on its way. *)
RenewalGoesOn ==
    lifecycle = "running" /\ svid # "expired" =>
        timer # "none" \/ \E f \in Fetches : fetch[f] # "idle"
=============================================================================
