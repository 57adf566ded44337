--------------------------- MODULE QueryCacheLaws ---------------------------
(***************************************************************************)
(* What the operations of a cache entry keep, stated once for every page.  *)
(* The proofs about a page prove the laws they use, for the lists of that  *)
(* page and all others.                                                    *)
(***************************************************************************)
EXTENDS QueryCache

\* An operation on an entry makes an entry, and what has been loaded is a value.
EntryLaw(Data) ==
    /\ Unloaded \in Entries(Data)
    /\ \A e \in Entries(Data) :
          /\ {Ask(e), Arrive(e), Fail(e)} \subseteq Entries(Data)
          /\ \A observed \in BOOLEAN : Invalidate(e, observed) \in Entries(Data)
          /\ \A value \in Data : {Serve(e, value), Write(e, value)} \subseteq Entries(Data)
          /\ Loaded(e) => e.data \in Data

\* What an operation does to the fetch and to the data: an invalidation leaves no
\* fetch that has been served, unless it comes too late for it.
FetchLaw(Data) ==
    \A e \in Entries(Data), b \in BOOLEAN :
        /\ Ask(e) = e \/ Ask(e).fetch = "asked"
        /\ Ask(e).data = e.data /\ Fail(e).data = e.data /\ Invalidate(e, b).data = e.data
        /\ Arrive(e).fetch = "idle" /\ Arrive(e).data = e.answer
        /\ Fail(e).fetch = "idle" /\ Fail(e).stale
        /\ Invalidate(e, b).stale
        /\ \/ Invalidate(e, b).fetch \in {"asked", "idle"}
           \/ /\ e.fetch = "served" /\ ~(b /\ Loaded(e))
              /\ Invalidate(e, b).fetch = "served"
              /\ Invalidate(e, b).answer = e.answer

\* An entry at rest, and an answer on its way, are what the server has.
IsTrue(e, stored) ==
    /\ Loaded(e) /\ ~e.stale /\ e.fetch = "idle" => e.data = stored
    /\ e.fetch = "served" => e.answer = stored

\* Only a value that the page writes itself can make it otherwise.
TrueStaysLaw(Data) ==
    \A stored : \A e \in Entries(Data), b \in BOOLEAN :
        IsTrue(e, stored) =>
            /\ IsTrue(Ask(e), stored) /\ IsTrue(Fail(e), stored)
            /\ IsTrue(Invalidate(e, b), stored)
            /\ e.fetch = "served" => IsTrue(Arrive(e), stored)

\* An invalidation that is not too late makes it so, whatever was there, and so
\* does an answer that is read now.
TrueAgainLaw(Data) ==
    \A stored : \A e \in Entries(Data), b \in BOOLEAN :
        /\ e.fetch # "served" \/ (b /\ Loaded(e)) => IsTrue(Invalidate(e, b), stored)
        /\ IsTrue(Serve(e, stored), stored)
=============================================================================
