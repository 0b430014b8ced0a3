------------------------------- MODULE Runtime -------------------------------
(***************************************************************************)
(* The lifecycle part of the daemon's Runtime structure: provider sessions *)
(* and committed promises.  Every operator below that primes a variable is *)
(* one method of impl Runtime, which the daemon always calls with the      *)
(* runtime mutex held, so that each is one atomic step of whatever thread  *)
(* makes the call.  The threads are in IpcState, which extends this module.*)
(***************************************************************************)
EXTENDS Naturals

CONSTANTS
    MaxProviders,   \* bound on next_provider_id
    MaxPromises     \* bound on next_promise_id

ASSUME RuntimeBounds == MaxProviders \in Nat /\ MaxPromises \in Nat

VARIABLES
    providers,      \* providers[p]: state of the session with that id
    nextProvider,   \* next_provider_id
    promiseState,   \* promiseState[m]: tree.state of promise-m
    promiseOwner,   \* promiseOwner[m]: tree.provider_id, 0 while promise-m is absent
    nextPromise     \* next_promise_id

runtimeVars == <<providers, nextProvider, promiseState, promiseOwner, nextPromise>>

ProviderIds == 1 .. MaxProviders
PromiseIds  == 1 .. MaxPromises

RuntimeTypeOK ==
    /\ providers \in [ProviderIds -> {"Absent", "Live", "Disconnected"}]
    /\ nextProvider \in 1 .. MaxProviders + 1
    /\ promiseState \in [PromiseIds -> {"Absent", "Available", "ProviderGone"}]
    /\ promiseOwner \in [PromiseIds -> ProviderIds \cup {0}]
    /\ nextPromise \in 1 .. MaxPromises + 1

\* Runtime::new
RuntimeInit ==
    /\ providers = [p \in ProviderIds |-> "Absent"]
    /\ nextProvider = 1
    /\ promiseState = [m \in PromiseIds |-> "Absent"]
    /\ promiseOwner = [m \in PromiseIds |-> 0]
    /\ nextPromise = 1

has_provider(p) == providers[p] = "Live"

\* register_provider: the new session is nextProvider.
register_provider ==
    /\ nextProvider <= MaxProviders
    /\ providers' = [providers EXCEPT ![nextProvider] = "Live"]
    /\ nextProvider' = nextProvider + 1
    /\ UNCHANGED <<promiseState, promiseOwner, nextPromise>>

\* Mutant: the promises of every provider become unavailable.
unregister_provider_any_owner(p) ==
    /\ providers' = [providers EXCEPT ![p] = "Disconnected"]
    /\ promiseState' = [m \in PromiseIds |->
                           IF promiseState[m] = "Available" THEN "ProviderGone" ELSE promiseState[m]]
    /\ UNCHANGED <<nextProvider, promiseOwner, nextPromise>>

\* unregister_provider of a known id; an unknown one is Err(NotFound) and
\* changes nothing.
unregister_provider(p) ==
    /\ providers' = [providers EXCEPT ![p] = "Disconnected"]
    /\ promiseState' = [m \in PromiseIds |->
                           IF promiseOwner[m] = p /\ promiseState[m] = "Available"
                           THEN "ProviderGone" ELSE promiseState[m]]
    /\ UNCHANGED <<nextProvider, promiseOwner, nextPromise>>

\* Mutant: commit_promise relies on the check the caller made earlier.
commit_promise_unchecked(p) ==
    /\ nextPromise <= MaxPromises
    /\ promiseState' = [promiseState EXCEPT ![nextPromise] = "Available"]
    /\ promiseOwner' = [promiseOwner EXCEPT ![nextPromise] = p]
    /\ nextPromise' = nextPromise + 1
    /\ UNCHANGED <<providers, nextProvider>>

\* commit_promise when it succeeds; for an owner that is not live it is
\* Err(ProviderGone) and changes nothing.
commit_promise(p) ==
    /\ has_provider(p)
    /\ nextPromise <= MaxPromises
    /\ promiseState' = [promiseState EXCEPT ![nextPromise] = "Available"]
    /\ promiseOwner' = [promiseOwner EXCEPT ![nextPromise] = p]
    /\ nextPromise' = nextPromise + 1
    /\ UNCHANGED <<providers, nextProvider>>

\* The liveness conditions under which plan_provider_read returns a plan.
plan_provider_read(m) ==
    /\ promiseState[m] = "Available"
    /\ has_provider(promiseOwner[m])
=============================================================================
