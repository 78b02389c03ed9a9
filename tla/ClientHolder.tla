---------------------------- MODULE ClientHolder ----------------------------
(***************************************************************************)
(* The Azure token of a worker process and the OGX client that carries it  *)
(* (AzureEntraIDManager in src/src/authorization/azure_token_manager.py,   *)
(* AsyncOgxClientHolder in src/src/client/ogx.py), with the requests that  *)
(* take the held client, refresh the token and call an Azure model.        *)
(*                                                                         *)
(* Everything between two awaits is one action.  Acquiring a token does    *)
(* not await; installing it awaits initialize() in library mode and does   *)
(* not in service mode.  Tokens are numbered as they are acquired, 0 is no *)
(* token, and a client is the number of the token in its provider data.    *)
(***************************************************************************)
EXTENDS Naturals, FiniteSets

CONSTANTS
  Requests,    \* requests for an Azure model
  Refreshing,  \* those of the endpoints that refresh the token: all but A2A
  Probes       \* readiness checks

ASSUME HolderAssumption == Refreshing \subseteq Requests

VARIABLES
  library,   \* OGX runs in the process
  based,     \* the base URL of Azure was found at start-up
  token,     \* the token of the manager
  fresh,     \* ~is_token_expired
  holder,    \* the client of the holder
  phase,     \* where a request is
  carried,   \* the client a request uses
  probe,     \* where a readiness check is
  began,     \* observer: the manager's token when a request took its client
  had,       \* observer: the manager's token when a request started its call
  lost       \* observer: the last client was installed without the token, or
             \* installing the token failed

manager == <<token, fresh>>
vars == <<library, based, manager, holder, phase, carried, probe, began, had,
          lost>>

\* The client is initialized and installed without Azure data, and the token
\* is acquired by the first request.
Init ==
  /\ library \in BOOLEAN
  /\ based \in BOOLEAN
  /\ token = 0
  /\ fresh = FALSE
  /\ holder = 0
  /\ phase = [r \in Requests |-> "idle"]
  /\ carried = [r \in Requests |-> 0]
  /\ probe = [p \in Probes |-> "idle"]
  /\ began = [r \in Requests |-> 0]
  /\ had = [r \in Requests |-> 0]
  /\ lost = FALSE
-----------------------------------------------------------------------------
(***************************************************************************)
(* The requests.                                                           *)
(***************************************************************************)

\* get_client(), before the request awaits what prepares its call.
TakeClient(r) ==
  /\ phase[r] = "idle"
  /\ phase' = [phase EXCEPT ![r] = "preparing"]
  /\ carried' = [carried EXCEPT ![r] = holder]
  /\ began' = [began EXCEPT ![r] = token]
  /\ UNCHANGED <<library, based, manager, holder, probe, had, lost>>

\* Mutant: every request refreshes the token.
AlwaysRefreshes(r) == r \in Refreshing

NeedsRefresh(r) == r \in Refreshing /\ ~fresh

\* update_azure_token does not await: there is nothing to apply, or the
\* client is a service client.
AtOnce == ~based \/ ~library

\* Mutant: the new client is used by the request but not held.
InstallForRequest(r, t) ==
  /\ carried' = [carried EXCEPT ![r] = t]
  /\ UNCHANGED <<holder, lost>>

\* The request gets the client with token t, and the holder holds it.
Install(r, t) ==
  /\ carried' = [carried EXCEPT ![r] = t]
  /\ holder' = t
  /\ lost' = FALSE

Call(r, t) ==
  /\ phase' = [phase EXCEPT ![r] = "calling"]
  /\ had' = [had EXCEPT ![r] = t]

\* The token is fresh, or nobody refreshes it, or Azure refuses a new one.
CallAsPrepared(r) ==
  /\ phase[r] = "preparing"
  /\ Call(r, IF fresh THEN token ELSE 0)
  /\ UNCHANGED <<library, based, manager, holder, carried, probe, began, lost>>

\* A new token, and update_azure_token up to its end or its await.
Refresh(r) ==
  /\ phase[r] = "preparing" /\ NeedsRefresh(r)
  /\ token' = token + 1
  /\ fresh' = TRUE
  /\ IF AtOnce
     THEN /\ IF based
             THEN Install(r, token')
             ELSE carried' = [carried EXCEPT ![r] = holder]
                  /\ UNCHANGED <<holder, lost>>
          /\ Call(r, token')
     ELSE /\ phase' = [phase EXCEPT ![r] = "initializing"]
          /\ carried' = [carried EXCEPT ![r] = token']
          /\ UNCHANGED <<holder, had, lost>>
  /\ UNCHANGED <<library, based, probe, began>>

\* Mutant: the client is initialized and never used.
InitializedUnused(r) ==
  /\ phase[r] = "initializing"
  /\ Install(r, carried[r])
  /\ phase' = [phase EXCEPT ![r] = "initialized"]
  /\ UNCHANGED <<library, based, manager, probe, began, had>>

Initialized(r) ==
  /\ phase[r] = "initializing"
  /\ Install(r, carried[r])
  /\ Call(r, token)
  /\ UNCHANGED <<library, based, manager, probe, began>>

\* initialize() raises: the request fails, the manager keeps the token.
InitializeFails(r) ==
  /\ phase[r] = "initializing"
  /\ phase' = [phase EXCEPT ![r] = "failed"]
  /\ lost' = TRUE
  /\ UNCHANGED <<library, based, manager, holder, carried, probe, began, had>>

\* The call ends, or preparing it fails.
End(r) ==
  /\ phase[r] \in {"preparing", "calling"}
  /\ phase' = [phase EXCEPT ![r] = IF phase[r] = "calling" THEN "done" ELSE "failed"]
  /\ UNCHANGED <<library, based, manager, holder, carried, probe, began, had,
                 lost>>
-----------------------------------------------------------------------------
(***************************************************************************)
(* The readiness check and time.                                           *)
(***************************************************************************)

\* The model is not among those OGX lists, and a library client is reloaded.
Reload(p) ==
  /\ probe[p] = "idle" /\ library
  /\ probe' = [probe EXCEPT ![p] = "reloading"]
  /\ UNCHANGED <<library, based, manager, holder, phase, carried, began, had,
                 lost>>

\* The new client has no provider data.
Reloaded(p) ==
  /\ probe[p] = "reloading"
  /\ probe' = [probe EXCEPT ![p] = "done"]
  /\ holder' = 0
  /\ lost' = TRUE
  /\ UNCHANGED <<library, based, manager, phase, carried, began, had>>

ReloadFails(p) ==
  /\ probe[p] = "reloading"
  /\ probe' = [probe EXCEPT ![p] = "done"]
  /\ UNCHANGED <<library, based, manager, holder, phase, carried, began, had,
                 lost>>

\* The expiration, less the leeway, has passed.  A token lives for an hour
\* and initialize() takes seconds: no token expires while it is installed.
Expire ==
  /\ fresh
  /\ \A r \in Requests : phase[r] # "initializing"
  /\ fresh' = FALSE
  /\ UNCHANGED <<library, based, token, holder, phase, carried, probe, began,
                 had, lost>>
-----------------------------------------------------------------------------
Next ==
  \/ \E r \in Requests :
       \/ TakeClient(r)
       \/ CallAsPrepared(r)
       \/ Refresh(r)
       \/ Initialized(r)
       \/ InitializeFails(r)
       \/ End(r)
  \/ \E p \in Probes : Reload(p) \/ Reloaded(p) \/ ReloadFails(p)
  \/ Expire

Spec == Init /\ [][Next]_vars
-----------------------------------------------------------------------------
TypeOK ==
  /\ library \in BOOLEAN
  /\ based \in BOOLEAN
  /\ token \in Nat
  /\ fresh \in BOOLEAN
  /\ holder \in Nat
  /\ phase \in [Requests -> {"idle", "preparing", "initializing", "calling",
                             "done", "failed"}]
  /\ carried \in [Requests -> Nat]
  /\ probe \in [Probes -> {"idle", "reloading", "done"}]
  /\ began \in [Requests -> Nat]
  /\ had \in [Requests -> Nat]
  /\ lost \in BOOLEAN

\* In service mode the held client always carries the manager's token:
\* nothing can come between refresh_token and the replacement of the client.
ServiceHolderCurrent == ~library /\ based => holder = token

\* In service mode a request never calls with a token older than the one the
\* manager had when the request took its client, although it keeps that
\* client across awaits while others refresh and replace it.
NotOlderThanAtStart ==
  ~library /\ based =>
    \A r \in Requests : phase[r] = "calling" => carried[r] >= began[r]

\* In library mode the held client falls behind the manager only while a
\* request initializes the next client, or after that failed or a reload
\* installed a client without the token.
LibraryHolderCurrent ==
  library /\ based /\ ~lost
    /\ (\A r \in Requests : phase[r] # "initializing")
  => holder = token

\* At most one request at a time initializes a client, and its token is the
\* manager's: clients cannot be installed out of order, with no lock to
\* order the updates.
OneUpdateAtATime ==
  \A r \in Requests : phase[r] = "initializing" =>
    /\ carried[r] = token
    /\ \A q \in Requests : phase[q] = "initializing" => q = r
-----------------------------------------------------------------------------
(***************************************************************************)
(* What the documentation says and the code does not ensure.               *)
(***************************************************************************)

\* "During inference requests: [...] The token is passed via
\* X-OGX-Provider-Data (library and service mode)": a request that starts its
\* call while the manager has an unexpired token passes a token.
TokenIsPassed ==
  based => \A r \in Refreshing :
             phase[r] = "calling" /\ had[r] > 0 => carried[r] > 0
=============================================================================
