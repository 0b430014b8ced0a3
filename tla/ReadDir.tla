------------------------------- MODULE ReadDir -------------------------------
(***************************************************************************)
(* Listing the root of the mount while promises are committed.  A listing  *)
(* is a sequence of readdir calls of the kernel, each of which gives the   *)
(* entries from an offset on as far as the buffer goes; the offset is an   *)
(* index into the list as it is at the time of the call, and a promise     *)
(* that is committed between two calls is entered in the order of the      *)
(* names, which is not the order of the commits.                           *)
(***************************************************************************)
EXTENDS Integers, FiniteSets

CONSTANTS
    MaxPromises,    \* bound on next_promise_id
    Before(_, _)    \* the order of the names "promise-<id>"

PromiseIds == 1 .. MaxPromises

ASSUME NameAssumptions ==
    /\ MaxPromises \in Nat
    /\ \A m, n \in PromiseIds : m # n => Before(m, n) \/ Before(n, m)
    /\ \A m, n \in PromiseIds : Before(m, n) => ~Before(n, m)
    /\ \A l, m, n \in PromiseIds : Before(l, m) /\ Before(m, n) => Before(l, n)

VARIABLES
    promises,   \* the promises of the Runtime
    listing,    \* the reader: "Closed", "Open" or "Done"
    offset,     \* where the next call begins
    listed,     \* the promises that the listing has given
    given,      \* in how many entries
    start       \* the promises at the beginning of the listing

readerVars == <<listing, offset, listed, given, start>>
vars == <<promises, readerVars>>

DirTypeOK ==
    /\ promises \subseteq PromiseIds /\ start \subseteq promises /\ listed \subseteq promises
    /\ listing \in {"Closed", "Open", "Done"}
    /\ offset \in 0 .. MaxPromises + 2
    /\ given \in Nat

Init ==
    /\ promises = {} /\ start = {}
    /\ listing = "Closed" /\ offset = 0
    /\ listed = {} /\ given = 0

\* directory_entries of the root: "." and ".." and then the promises in the order
\* of their names.
Index(m) == 2 + Cardinality({n \in promises : Before(n, m)})
Total == 2 + Cardinality(promises)

\* Runtime::commit_promise
commit_promise ==
    /\ \E m \in PromiseIds : m = Cardinality(promises) + 1 /\ promises' = promises \cup {m}
    /\ UNCHANGED readerVars

opendir ==
    /\ listing # "Open" /\ listing' = "Open"
    /\ offset' = 0 /\ start' = promises
    /\ listed' = {} /\ given' = 0
    /\ UNCHANGED promises

\* The promises among the next k entries.
Batch(k) == {m \in promises : Index(m) >= offset /\ Index(m) < offset + k}

\* Mutant: the cookie of an entry is one too great.
readdir_skips(k) ==
    /\ listing = "Open"
    /\ IF offset >= Total THEN listing' = "Done" /\ UNCHANGED <<offset, listed, given>>
       ELSE /\ listed' = listed \cup Batch(k)
            /\ given' = given + Cardinality(Batch(k))
            /\ offset' = IF offset + k < Total THEN offset + k + 1 ELSE Total
            /\ UNCHANGED listing
    /\ UNCHANGED <<promises, start>>

\* Mutant: the cookie of an entry leads to the entry itself.
readdir_again(k) ==
    /\ listing = "Open"
    /\ IF offset >= Total THEN listing' = "Done" /\ UNCHANGED <<offset, listed, given>>
       ELSE /\ listed' = listed \cup Batch(k)
            /\ given' = given + Cardinality(Batch(k))
            /\ offset' = IF offset + k < Total THEN offset + k - 1 ELSE Total
            /\ UNCHANGED listing
    /\ UNCHANGED <<promises, start>>

\* PromiseFilesystem::readdir, where k entries fit; the cookie of an entry is its
\* index plus one.  A call that gives nothing ends the listing.
readdir(k) ==
    /\ listing = "Open"
    /\ IF offset >= Total THEN listing' = "Done" /\ UNCHANGED <<offset, listed, given>>
       ELSE /\ listed' = listed \cup Batch(k)
            /\ given' = given + Cardinality(Batch(k))
            /\ offset' = IF offset + k < Total THEN offset + k ELSE Total
            /\ UNCHANGED listing
    /\ UNCHANGED <<promises, start>>

Next == commit_promise \/ opendir \/ \E k \in 1 .. Total : readdir(k)

Spec == Init /\ [][Next]_vars

-----------------------------------------------------------------------------
\* A listing that has come to its end has every promise that was there when it
\* began, whatever was committed between the calls of readdir.
ListingComplete == listing = "Done" => start \subseteq listed

\* A promise may be listed twice, but only because of a commit meanwhile: there are
\* no more repetitions than there were commits.
RepeatsAreCommits ==
    listing # "Closed" => given - Cardinality(listed) <= Cardinality(promises \ start)
=============================================================================
